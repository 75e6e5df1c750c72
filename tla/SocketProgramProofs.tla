------------------------ MODULE SocketProgramProofs -------------------------
(***************************************************************************)
(* What is proved of the socket and its owner, for any capacities of the   *)
(* buffers, any number of bytes and any faults.                            *)
(*                                                                         *)
(* The bytes of a direction lie in a chain of buffers, one after the       *)
(* other: the owner's input, its stream, the pipe, the peer's stream, what *)
(* is in flight, and what the other side has.  The chain always reads what *)
(* has been written to it; a callback moves a front part from one link to  *)
(* the next.  What has arrived is its first link, so it is a prefix; and   *)
(* the end may be passed on only when all the links before it are empty.   *)
(* The rest of the invariant says why a callback, when it runs, finds what *)
(* poll reported, although the other thread and the world have moved since *)
(* (TCPFacts, CopyFacts), and that a rule, once dropped, is never missed.  *)
(***************************************************************************)
EXTENDS SocketProgram, TCPMessagesProofs

(***************************************************************************)
(* A record with the fields in F, and a record with one field changed: an  *)
(* EXCEPT with several parts is a chain of these.                          *)
(***************************************************************************)
IsRecord(s, F) == s = [f \in F |-> s[f]]
Put(s, f, x)   == [s EXCEPT ![f] = x]

AppFields  == {"outbound", "inbound", "outbound_shutdown", "inbound_shutdown",
               "socket", "input", "output", "stdin", "stdout"}
CopyFields == AppFields \cup {"pair", "killed"}
SockFields == {"peer", "thread_data", "inbound_shutdown", "outbound_shutdown"}
TCPFields  == SockFields \cup {"pair", "net", "killed"}

-----------------------------------------------------------------------------
(***************************************************************************)
(* The types of the owner's state a, the socket's state t, the pipe pr,    *)
(* the segment nt and the other side rm.                                   *)
(***************************************************************************)
FileDescriptors == [eof : BOOLEAN, closed : BOOLEAN]
Pipes    == [to : [PipeEnds -> Seq(Byte)], shut : SUBSET PipeEnds]
Peers    == [out : Stream, in : Stream, syn : {"unsent", "sent", "acked"}, flight : Seq(Byte),
             fin : {"unsent", "sent", "acked"}, linger : BOOLEAN, idle : BOOLEAN]
Segments == [syn : BOOLEAN, data : Seq(Byte), fin : BOOLEAN, acks : Nat, rst : BOOLEAN]
Remotes  == [got : Seq(Byte), finGot : BOOLEAN, sent : Nat, fin : BOOLEAN]

AppTypes(a) ==
    /\ a.outbound \in Stream /\ a.outbound.capacity = BufferSize
    /\ a.inbound \in Stream /\ a.inbound.capacity = BufferSize
    /\ a.outbound_shutdown \in BOOLEAN /\ a.inbound_shutdown \in BOOLEAN
    /\ a.socket \in FileDescriptors /\ a.input \in FileDescriptors /\ a.output \in FileDescriptors
    /\ a.stdin \in [unread : Seq(Byte), end : {"open", "eof", "hung up"}]
    /\ a.stdout \in [printed : Seq(Byte), broken : BOOLEAN]

TCPTypes(t) ==
    /\ t.peer \in Peers
    /\ t.peer.out.capacity = SendCapacity /\ t.peer.in.capacity = RecvCapacity
    /\ t.thread_data \in FileDescriptors
    /\ t.inbound_shutdown \in BOOLEAN /\ t.outbound_shutdown \in BOOLEAN

(***************************************************************************)
(* What each of the four streams of bytes has been told of its end, and by *)
(* whom.  What is said of ok holds as long as nothing has gone wrong: then *)
(* a direction of the pipe is shut down by its writer only, and after all  *)
(* of it has been passed on.                                               *)
(***************************************************************************)
OutApp(a, pr, ok) ==
    /\ a.input.eof => a.outbound.closed
    /\ ~a.input.closed /\ ~a.socket.closed
    /\ a.outbound_shutdown => IsFinished(a.outbound) /\ "tcp" \in pr.shut
    /\ ok /\ a.outbound.closed => a.stdin.end # "open" /\ a.stdin.unread = << >>
    /\ ok /\ "tcp" \in pr.shut => a.outbound_shutdown
    /\ ok => ~a.outbound.error

InApp(a, pr, ok) ==
    /\ a.socket.eof => a.inbound.closed
    /\ a.output.closed <=> a.inbound_shutdown
    /\ a.inbound_shutdown => IsFinished(a.inbound)
    /\ ok /\ a.inbound.closed => "app" \in pr.shut /\ pr.to["app"] = << >>
    /\ ok => ~a.inbound.error /\ ~a.stdout.broken

OutTCP(t, pr) ==
    /\ t.thread_data.eof => t.peer.out.closed
    /\ ~t.thread_data.closed
    /\ t.peer.out.closed <=> t.outbound_shutdown
    /\ t.peer.out.closed => "tcp" \in pr.shut /\ pr.to["tcp"] = << >>

InTCP(t, pr, nt, rm, ok) ==
    /\ t.inbound_shutdown => "app" \in pr.shut
    /\ t.peer.in.closed \/ nt.fin => rm.fin
    /\ t.peer.in.closed => nt.data = << >>
    /\ ok /\ "app" \in pr.shut => IsFinished(t.peer.in)
    /\ ok => ~nt.rst /\ ~t.peer.in.error /\ ~t.peer.out.error

(***************************************************************************)
(* The peer fills the other side's window, and ends its direction when     *)
(* there is room for that.                                                 *)
(***************************************************************************)
Filling(p) ==
    /\ Len(p.flight) <= Window
    /\ p.syn # "acked" => p.flight = << >> /\ p.fin = "unsent"
    /\ p.fin # "unsent" => IsFinished(p.out)

NotIdle(p) ==
    p.syn = "acked" /\ IsFinished(p.out) /\ p.fin = "unsent" => Len(p.flight) = Window

(***************************************************************************)
(* A segment acknowledges the SYN if that was sent, and bytes and a FIN    *)
(* that the other side has got.                                            *)
(***************************************************************************)
SynAcked(p, nt) == IF p.syn = "sent" /\ nt.acks > 0 THEN 1 ELSE 0

Fresh(p, nt) ==
    LET n == Lesser(nt.acks - SynAcked(p, nt), Len(p.flight))
    IN  SubSeq(p.flight, n + 1, Len(p.flight))

Answers(p, nt, rm) ==
    /\ nt.syn \/ nt.rst => nt.acks = 0
    /\ p.fin = "acked" \/ nt.acks - SynAcked(p, nt) > Len(p.flight) => rm.finGot /\ p.fin # "unsent"

(***************************************************************************)
(* The bytes of each direction, from where they arrive to where they come  *)
(* from: those that the other side has not acknowledged, those between the *)
(* streams, and those not yet read are the consecutive parts of what has   *)
(* been typed, and likewise the other way.                                 *)
(***************************************************************************)
OutChain(a, p, pr, nt, rm, ty) ==
    BytesFrom(1, ty) =
        ((((rm.got \o Fresh(p, nt)) \o p.out.buf) \o pr.to["tcp"]) \o a.outbound.buf) \o a.stdin.unread

InChain(a, p, pr, nt, rm) ==
    BytesFrom(101, rm.sent) =
        (((a.stdout.printed \o a.inbound.buf) \o pr.to["app"]) \o p.in.buf) \o nt.data

Sound(a, t, pr, nt, rm, ty, ok) ==
    /\ AppTypes(a) /\ TCPTypes(t) /\ pr \in Pipes /\ nt \in Segments /\ rm \in Remotes
    /\ ty \in Nat /\ ok \in BOOLEAN
    /\ OutApp(a, pr, ok) /\ InApp(a, pr, ok) /\ OutTCP(t, pr) /\ InTCP(t, pr, nt, rm, ok)
    /\ Filling(t.peer) /\ NotIdle(t.peer) /\ Answers(t.peer, nt, rm)
    /\ OutChain(a, t.peer, pr, nt, rm, ty) /\ InChain(a, t.peer, pr, nt, rm)

-----------------------------------------------------------------------------
(***************************************************************************)
(* The rules of both loops, in the order they are added.                   *)
(***************************************************************************)
CopyRuleSet == {InputRule, OutboundRule, SocketRule, OutputRule}
TCPRuleSet  == {ReceiveRule, PushRule, InboundRule}

Place(rule) ==
    IF rule = InputRule THEN 1 ELSE IF rule = OutboundRule THEN 2 ELSE IF rule = SocketRule THEN 3
    ELSE IF rule = OutputRule THEN 4 ELSE IF rule = ReceiveRule THEN 5 ELSE IF rule = PushRule THEN 6
    ELSE 7

InOrder(rules) == \A i, j \in 1 .. Len(rules) : i < j => Place(rules[i]) < Place(rules[j])

Missing(rule, rules) == \A i \in 1 .. Len(rules) : rules[i] # rule

(***************************************************************************)
(* A rule that is gone had nothing more to do, or somebody has hung up.    *)
(***************************************************************************)
CopyGone(rule, a, pr, ok) ==
    /\ rule = InputRule => a.outbound.closed
    /\ rule = OutboundRule => pr.shut = PipeEnds
    /\ rule = SocketRule => a.inbound.closed
    /\ rule = OutputRule /\ ok => a.inbound_shutdown

TCPGone(rule, pr) ==
    /\ rule # ReceiveRule
    /\ rule = InboundRule => pr.shut = PipeEnds

CopyRulesLeft(rules, a, pr, ok) ==
    /\ rules \in Seq(CopyRuleSet) /\ InOrder(rules)
    /\ \A rule \in CopyRuleSet : Missing(rule, rules) => CopyGone(rule, a, pr, ok)

TCPRulesLeft(rules, pr) ==
    /\ rules \in Seq(TCPRuleSet) /\ InOrder(rules)
    /\ \A rule \in TCPRuleSet : Missing(rule, rules) => TCPGone(rule, pr)

(***************************************************************************)
(* What poll has said of a rule is still so when the rule is served,       *)
(* whatever the other thread and the world have done since.                *)
(***************************************************************************)
CopyFacts(rule, r, a, pr) ==
    /\ r.err => rule = OutputRule /\ a.stdout.broken
    /\ rule = InputRule /\ r.ready =>
           /\ ~a.outbound.closed /\ AvailableCapacity(a.outbound) > 0
           /\ a.stdin.unread # << >> \/ a.stdin.end = "eof"
    /\ rule = InputRule /\ r.hup /\ r.events /\ ~r.ready => a.stdin.unread = << >> /\ a.stdin.end # "open"
    /\ rule = OutboundRule /\ r.ready => Len(pr.to["tcp"]) < PipeCapacity
    /\ rule = OutboundRule /\ r.hup => pr.shut = PipeEnds
    /\ rule = SocketRule /\ r.ready =>
           /\ ~a.inbound.closed /\ AvailableCapacity(a.inbound) > 0
           /\ pr.to["app"] # << >> \/ "app" \in pr.shut
    /\ rule = SocketRule => ~(r.hup /\ r.events /\ ~r.ready)
    /\ rule = OutputRule => ~r.hup

TCPFacts(rule, r, t, pr, nt) ==
    /\ ~r.err
    /\ rule = ReceiveRule /\ r.ready => Active(t.peer) /\ nt # NoSegment
    /\ rule = ReceiveRule => ~r.hup
    /\ rule = PushRule /\ r.ready =>
           /\ ~t.peer.out.closed /\ AvailableCapacity(t.peer.out) > 0
           /\ pr.to["tcp"] # << >> \/ "tcp" \in pr.shut
    /\ rule = PushRule => ~(r.hup /\ r.events /\ ~r.ready)
    /\ rule = InboundRule /\ r.hup => pr.shut = PipeEnds

-----------------------------------------------------------------------------
(***************************************************************************)
(* The inductive invariant.                                                *)
(***************************************************************************)
Ok == faulted = {}

Data ==
    /\ IsRecord(app, AppFields) /\ IsRecord(tcp, SockFields)
    /\ killed \in BOOLEAN /\ abort \in BOOLEAN
    /\ Sound(app, tcp, pair, net, remote, typed, Ok)
    /\ ~threw /\ (killed => ~Ok)

CopyLoopSound ==
    /\ IsRecord(appLoop, {"rules", "revents"})
    /\ CopyRulesLeft(appLoop.rules, app, pair, Ok)
    /\ appLoop.revents # Idle => \A k \in 1 .. Len(appLoop.rules) : CopyFacts(appLoop.rules[k], appLoop.revents[k], app, pair)

TCPLoopSound ==
    /\ IsRecord(tcpLoop, {"rules", "revents"})
    /\ TCPRulesLeft(tcpLoop.rules, pair)
    /\ tcpLoop.revents # Idle => \A k \in 1 .. Len(tcpLoop.rules) : TCPFacts(tcpLoop.rules[k], tcpLoop.revents[k], tcp, pair, net)

(***************************************************************************)
(* Where the threads are; each of main's states is reached by a program    *)
(* with nothing gone wrong only after what came before is finished.        *)
(***************************************************************************)
Threads ==
    /\ main \in {"connecting", "copying", "closing", "aborting", "done"}
    /\ thread \in {"none", "running", "ended"}
    /\ main = "connecting" <=> thread = "none"
    /\ main = "connecting" => ~app.outbound.closed
    /\ thread = "ended" => tcpLoop.revents = Idle
    /\ main = "done" => thread = "ended"
    /\ abort \/ main = "aborting" => ~Ok
    /\ abort => main \in {"aborting", "done"}
    /\ Ok /\ main # "connecting" => tcp.peer.syn = "acked"
    /\ Ok /\ main \in {"closing", "done"} => app.outbound_shutdown /\ app.inbound_shutdown
    /\ Ok /\ thread = "ended" =>
           /\ IsFinished(tcp.peer.out) /\ IsFinished(tcp.peer.in)
           /\ tcp.peer.flight = << >> /\ tcp.peer.fin = "acked"

IInv == Data /\ CopyLoopSound /\ TCPLoopSound /\ Threads
-----------------------------------------------------------------------------
(***************************************************************************)
(* Changing one field, and two or three or four, leaves the others alone.  *)
(***************************************************************************)
LEMMA PutOne ==
    ASSUME NEW F, NEW s, IsRecord(s, F), NEW f \in F, NEW x
    PROVE  LET t == Put(s, f, x)
           IN  IsRecord(t, F) /\ t[f] = x /\ \A g \in F \ {f} : t[g] = s[g]
BY DEF Put, IsRecord

(***************************************************************************)
(* Two different fields changed, one after the other: both have their new  *)
(* values, the others their old ones.                                      *)
(***************************************************************************)
LEMMA PutTwo ==
    ASSUME NEW F, NEW s, IsRecord(s, F), NEW f1 \in F, NEW x1, NEW f2 \in F \ {f1}, NEW x2
    PROVE  LET t == Put(Put(s, f1, x1), f2, x2)
           IN  /\ IsRecord(t, F) /\ t[f1] = x1 /\ t[f2] = x2
               /\ \A g \in F \ {f1, f2} : t[g] = s[g]
BY PutOne

(***************************************************************************)
(* The same for three fields.                                              *)
(***************************************************************************)
LEMMA PutThree ==
    ASSUME NEW F, NEW s, IsRecord(s, F), NEW f1 \in F, NEW x1, NEW f2 \in F \ {f1}, NEW x2,
           NEW f3 \in F \ {f1, f2}, NEW x3
    PROVE  LET t == Put(Put(Put(s, f1, x1), f2, x2), f3, x3)
           IN  /\ IsRecord(t, F) /\ t[f1] = x1 /\ t[f2] = x2 /\ t[f3] = x3
               /\ \A g \in F \ {f1, f2, f3} : t[g] = s[g]
BY PutOne, PutTwo

(***************************************************************************)
(* The same for four fields.                                               *)
(***************************************************************************)
LEMMA PutFour ==
    ASSUME NEW F, NEW s, IsRecord(s, F), NEW f1 \in F, NEW x1, NEW f2 \in F \ {f1}, NEW x2,
           NEW f3 \in F \ {f1, f2}, NEW x3, NEW f4 \in F \ {f1, f2, f3}, NEW x4
    PROVE  LET t == Put(Put(Put(Put(s, f1, x1), f2, x2), f3, x3), f4, x4)
           IN  /\ IsRecord(t, F) /\ t[f1] = x1 /\ t[f2] = x2 /\ t[f3] = x3 /\ t[f4] = x4
               /\ \A g \in F \ {f1, f2, f3, f4} : t[g] = s[g]
BY PutOne, PutThree

-----------------------------------------------------------------------------
(***************************************************************************)
(* Bytes that go from the front of one queue to the end of the one before  *)
(* it keep their place.                                                    *)
(***************************************************************************)
LEMMA CutInTwo ==
    ASSUME NEW S, NEW q \in Seq(S), NEW n \in 0 .. Len(q)
    PROVE  /\ SubSeq(q, 1, n) \in Seq(S) /\ SubSeq(q, n + 1, Len(q)) \in Seq(S)
           /\ Len(SubSeq(q, 1, n)) = n /\ Len(SubSeq(q, n + 1, Len(q))) = Len(q) - n
           /\ SubSeq(q, 1, n) \o SubSeq(q, n + 1, Len(q)) = q
<1>1. Len(q) \in Nat /\ n \in Nat /\ n <= Len(q)
  BY LenIsNat
<1>2. SubSeq(q, 1, n) \o SubSeq(q, n + 1, Len(q)) = SubSeq(q, 1, Len(q))
  <2>1. 1 \in 1 .. Len(q) + 1 /\ n \in 1 - 1 .. Len(q) /\ Len(q) \in n .. Len(q)
    BY <1>1
  <2> QED
    BY <2>1, ConcatAdjacentSubSeq
<1> QED
  BY <1>2, SubSeqFull, PrefixProperties, SuffixProperties

(***************************************************************************)
(* Concatenation of bytes is associative, in the form the provers          *)
(* instantiate.                                                            *)
(***************************************************************************)
LEMMA Regroup ==
    \A x, y, z \in Seq(Byte) : (x \o y) \o z = x \o (y \o z)
BY ConcatAssociative

(***************************************************************************)
(* When the front of a buffer moves into the buffer before it, the chain   *)
(* of the two reads the same.                                              *)
(***************************************************************************)
LEMMA MovesOn ==
    ASSUME NEW x \in Seq(Byte), NEW q \in Seq(Byte), NEW r \in Seq(Byte), NEW n \in 0 .. Len(r)
    PROVE  (x \o (q \o SubSeq(r, 1, n))) \o SubSeq(r, n + 1, Len(r)) = (x \o q) \o r
<1> DEFINE front == SubSeq(r, 1, n)
           rest == SubSeq(r, n + 1, Len(r))
<1>1. front \in Seq(Byte) /\ rest \in Seq(Byte) /\ front \o rest = r
  BY CutInTwo
<1>2. x \o q \in Seq(Byte)
  BY ConcatProperties
<1> HIDE DEF front, rest
<1>3. (x \o q) \o front = x \o (q \o front)
  BY <1>1, Regroup
<1>4. ((x \o q) \o front) \o rest = (x \o q) \o (front \o rest)
  BY <1>1, <1>2, Regroup
<1>5. (x \o (q \o front)) \o rest = (x \o q) \o r
  BY <1>1, <1>3, <1>4
<1> QED
  BY <1>5 DEF front, rest

(***************************************************************************)
(* The empty sequence adds nothing on either side.                         *)
(***************************************************************************)
LEMMA NothingMore ==
    ASSUME NEW S, NEW x \in Seq(S)
    PROVE  x \o << >> = x /\ << >> \o x = x
BY ConcatEmptySeq

(***************************************************************************)
(* What comes first is a prefix.                                           *)
(***************************************************************************)
LEMMA PrefixOfAll ==
    ASSUME NEW S, NEW x \in Seq(S), NEW y \in Seq(S)
    PROVE  IsPrefix(x, x \o y)
<1>1. x \o y \in Seq(S) /\ Len(x \o y) = Len(x) + Len(y)
  BY ConcatProperties
<1>2. Len(x) \in Nat /\ Len(y) \in Nat /\ Len(x) \in 0 .. Len(x \o y)
  BY <1>1, LenIsNat
<1>3. /\ SubSeq(x \o y, 1, Len(x)) \in Seq(S) /\ Len(SubSeq(x \o y, 1, Len(x))) = Len(x)
      /\ \A i \in 1 .. Len(x) : SubSeq(x \o y, 1, Len(x))[i] = (x \o y)[i]
  BY <1>1, <1>2, PrefixProperties
<1>4. \A i \in 1 .. Len(x) : (x \o y)[i] = x[i]
  BY <1>1
<1>5. SubSeq(x \o y, 1, Len(x)) = x
  BY <1>3, <1>4, SeqEqual
<1>6. Len(x) \in 0 .. Len(x) /\ SubSeq(x, 1, Len(x)) = x
  BY <1>2
<1> QED
  BY <1>1, <1>2, <1>5, <1>6 DEF IsPrefix

-----------------------------------------------------------------------------
(***************************************************************************)
(* The calls on a stream, field by field.                                  *)
(***************************************************************************)
LEMMA PushFields ==
    ASSUME NEW q \in Stream, NEW data \in Seq(Byte), ~q.closed, Len(data) <= AvailableCapacity(q)
    PROVE  LET r == PushBytes(q, data)
           IN  /\ r \in Stream /\ r.buf = q.buf \o data
               /\ r.capacity = q.capacity /\ r.error = q.error /\ r.closed = q.closed
<1> DEFINE n == Lesser(Len(data), AvailableCapacity(q))
<1>1. Len(data) \in Nat /\ Len(q.buf) \in Nat /\ q.pushed \in Nat /\ q.buf \in Seq(Byte)
  BY LenIsNat DEF Stream
<1>2. n = Len(data)
  BY <1>1 DEF Lesser
<1>3. SubSeq(data, 1, n) = data
  BY <1>2, SubSeqFull
<1>4. PushBytes(q, data) = [q EXCEPT !.buf = @ \o data, !.pushed = @ + n]
  BY <1>3 DEF PushBytes
<1> DEFINE b == q.buf \o data
           p == q.pushed + n
<1>5. b \in Seq(Byte) /\ p \in Nat
  BY <1>1, <1>2, ConcatProperties
<1> HIDE DEF n
<1> DEFINE r == [q EXCEPT !.buf = b, !.pushed = p]
<1>6. PushBytes(q, data) = r
  BY <1>4
<1> HIDE DEF b, p
<1>7. /\ r \in Stream /\ r.buf = b
      /\ r.capacity = q.capacity /\ r.error = q.error /\ r.closed = q.closed
  BY <1>5 DEF Stream
<1> QED
  BY <1>6, <1>7 DEF b

(***************************************************************************)
(* Reader::pop drops the front of the buffer and touches neither the       *)
(* capacity nor the two flags.                                             *)
(***************************************************************************)
LEMMA PopFields ==
    ASSUME NEW q \in Stream, NEW n \in 0 .. Len(q.buf)
    PROVE  LET r == PopBytes(q, n)
           IN  /\ r \in Stream /\ r.buf = SubSeq(q.buf, n + 1, Len(q.buf))
               /\ r.capacity = q.capacity /\ r.error = q.error /\ r.closed = q.closed
<1> DEFINE b == SubSeq(q.buf, n + 1, Len(q.buf))
<1>1. b \in Seq(Byte)
  BY SuffixProperties DEF Stream
<1> HIDE DEF b
<1> DEFINE r == [q EXCEPT !.buf = b]
<1>2. /\ r \in Stream /\ r.buf = b
      /\ r.capacity = q.capacity /\ r.error = q.error /\ r.closed = q.closed
  BY <1>1 DEF Stream
<1> QED
  BY <1>2 DEF PopBytes, b

(***************************************************************************)
(* Writer::close sets one flag only, and closing a closed stream changes   *)
(* nothing.                                                                *)
(***************************************************************************)
LEMMA CloseFields ==
    ASSUME NEW q \in Stream
    PROVE  LET r == CloseStream(q)
           IN  /\ r \in Stream /\ r.buf = q.buf /\ r.closed
               /\ r.capacity = q.capacity /\ r.error = q.error
               /\ q.closed => r = q
BY DEF Stream, CloseStream

(***************************************************************************)
(* set_error sets one flag only.                                           *)
(***************************************************************************)
LEMMA ErrorFields ==
    ASSUME NEW q \in Stream
    PROVE  LET r == SetError(q)
           IN  /\ r \in Stream /\ r.buf = q.buf /\ r.error
               /\ r.capacity = q.capacity /\ r.closed = q.closed
BY DEF Stream, SetError

(***************************************************************************)
(* What a read returns is the front of the queue, and nothing only if      *)
(* there is nothing; that is taken for the end.                            *)
(***************************************************************************)
LEMMA ReadIsFront ==
    ASSUME NEW q \in Seq(Byte), NEW room \in Nat \ {0}
    PROVE  LET data == ReadBytes(q, room)
           IN  /\ data \in Seq(Byte) /\ Len(data) \in 0 .. Len(q) /\ Len(data) <= room
               /\ data = SubSeq(q, 1, Len(data))
               /\ data = << >> <=> q = << >>
<1> DEFINE n == Lesser(room, Len(q))
<1>1. Len(q) \in Nat /\ room \in Nat /\ room > 0
  BY LenIsNat
<1>2. n \in 0 .. Len(q) /\ n <= room /\ (n = 0 <=> Len(q) = 0)
  BY <1>1 DEF Lesser
<1> HIDE DEF n
<1>3. SubSeq(q, 1, n) \in Seq(Byte) /\ Len(SubSeq(q, 1, n)) = n
  BY <1>2, PrefixProperties
<1>4. ReadBytes(q, room) = SubSeq(q, 1, n)
  BY DEF ReadBytes, n
<1>5. q = << >> <=> Len(q) = 0
  BY EmptySeq
<1>6. SubSeq(q, 1, n) = << >> <=> n = 0
  BY <1>3, EmptySeq
<1> QED
  BY <1>2, <1>3, <1>4, <1>5, <1>6

\* what is written is the front of a queue, as much as there is room for
LEMMA FrontFits ==
    ASSUME NEW q \in Seq(Byte), NEW room \in Int
    PROVE  LET data == SubSeq(q, 1, Lesser(room, Len(q)))
           IN  /\ data \in Seq(Byte) /\ Len(data) \in 0 .. Len(q) /\ data = SubSeq(q, 1, Len(data))
               /\ data = << >> <=> Len(data) = 0
               /\ data # << >> => q # << >>
               /\ room > 0 /\ q # << >> => data # << >>
<1> DEFINE n == Lesser(room, Len(q))
<1>1. Len(q) \in Nat /\ (q = << >> <=> Len(q) = 0)
  BY LenIsNat, EmptySeq
<1>2. n \in Int /\ n <= Len(q) /\ (room > 0 /\ q # << >> => n > 0)
  BY <1>1 DEF Lesser
<1> DEFINE data == SubSeq(q, 1, n)
<1> HIDE DEF n
<1>3. CASE n > 0
  <2>1. n \in 0 .. Len(q)
    BY <1>2, <1>3, <1>1
  <2>2. data \in Seq(Byte) /\ Len(data) = n
    BY <2>1, PrefixProperties
  <2>3. data = SubSeq(q, 1, Len(data))
    BY <2>2
  <2> HIDE DEF data
  <2>4. (data = << >> <=> Len(data) = 0) /\ q # << >>
    BY <2>2, <1>1, <1>2, <1>3, EmptySeq
  <2> USE DEF data
  <2> QED
    BY <2>1, <2>2, <2>3, <2>4, <1>2, <1>3 DEF n
<1>4. CASE ~(n > 0)
  <2>1. n < 1 /\ 0 \in 0 .. Len(q) /\ 0 < 1
    BY <1>1, <1>2, <1>4
  <2>2. data = << >> /\ SubSeq(q, 1, 0) = << >>
    BY <1>2, <2>1, SubSeqEmpty
  <2>3. data \in Seq(Byte) /\ Len(data) = 0
    BY <2>2, EmptySeq
  <2> QED
    BY <1>2, <1>4, <2>1, <2>2, <2>3 DEF n
<1> QED
  BY <1>3, <1>4

(***************************************************************************)
(* The pipe.                                                               *)
(***************************************************************************)
LEMMA OtherEnds ==
    OtherEnd("app") = "tcp" /\ OtherEnd("tcp") = "app"
<1>1. \A e \in PipeEnds : e # "app" => e = "tcp"
  BY DEF PipeEnds
<1>2. \A e \in PipeEnds : e # "tcp" => e = "app"
  BY DEF PipeEnds
<1>3. OtherEnd("app") = "tcp"
  BY <1>1 DEF OtherEnd, PipeEnds
<1>4. OtherEnd("tcp") = "app"
  BY <1>2 DEF OtherEnd, PipeEnds
<1> QED
  BY <1>3, <1>4

(***************************************************************************)
(* A write at one end of the pipe adds the bytes to what the other end     *)
(* will read, and changes nothing else.                                    *)
(***************************************************************************)
LEMMA WriteFields ==
    ASSUME NEW pr \in Pipes, NEW data \in Seq(Byte)
    PROVE  /\ LET r == WritePair(pr, "app", data)
              IN  /\ r \in Pipes /\ r.shut = pr.shut
                  /\ r.to["tcp"] = pr.to["tcp"] \o data /\ r.to["app"] = pr.to["app"]
           /\ LET r == WritePair(pr, "tcp", data)
              IN  /\ r \in Pipes /\ r.shut = pr.shut
                  /\ r.to["app"] = pr.to["app"] \o data /\ r.to["tcp"] = pr.to["tcp"]
<1>1. pr.to["tcp"] \in Seq(Byte) /\ pr.to["app"] \in Seq(Byte) /\ pr.to \in [PipeEnds -> Seq(Byte)]
  BY DEF Pipes, PipeEnds
<1>2. pr.to["tcp"] \o data \in Seq(Byte) /\ pr.to["app"] \o data \in Seq(Byte)
  BY <1>1, ConcatProperties
<1>3. ASSUME NEW end \in PipeEnds, NEW q \in Seq(Byte)
      PROVE  LET to == [pr.to EXCEPT ![end] = q]
                 r  == [pr EXCEPT !.to = to]
             IN  /\ r \in Pipes /\ r.shut = pr.shut
                 /\ r.to[end] = q /\ \A e \in PipeEnds \ {end} : r.to[e] = pr.to[e]
  BY <1>1 DEF Pipes
<1>4. WritePair(pr, "app", data) = [pr EXCEPT !.to = [pr.to EXCEPT !["tcp"] = pr.to["tcp"] \o data]]
  BY OtherEnds, Zenon DEF WritePair
<1>5. WritePair(pr, "tcp", data) = [pr EXCEPT !.to = [pr.to EXCEPT !["app"] = pr.to["app"] \o data]]
  BY OtherEnds, Zenon DEF WritePair
<1>6. /\ "app" \in PipeEnds \ {"tcp"} /\ "tcp" \in PipeEnds \ {"app"}
        /\ "tcp" \in PipeEnds /\ "app" \in PipeEnds
  BY DEF PipeEnds
<1> DEFINE toTCP == pr.to["tcp"] \o data
           toApp == pr.to["app"] \o data
<1>9. toTCP \in Seq(Byte) /\ toApp \in Seq(Byte)
  BY <1>2
<1> HIDE DEF toTCP, toApp
<1>7. LET r == [pr EXCEPT !.to = [pr.to EXCEPT !["tcp"] = toTCP]]
      IN  r \in Pipes /\ r.shut = pr.shut /\ r.to["tcp"] = toTCP /\ r.to["app"] = pr.to["app"]
  BY <1>3, <1>6, <1>9
<1>8. LET r == [pr EXCEPT !.to = [pr.to EXCEPT !["app"] = toApp]]
      IN  r \in Pipes /\ r.shut = pr.shut /\ r.to["app"] = toApp /\ r.to["tcp"] = pr.to["tcp"]
  BY <1>3, <1>6, <1>9
<1> QED
  BY <1>4, <1>5, <1>7, <1>8 DEF toTCP, toApp

(***************************************************************************)
(* A read at one end takes the front of what was written to it, and        *)
(* changes nothing else.                                                   *)
(***************************************************************************)
LEMMA TakeFields ==
    ASSUME NEW pr \in Pipes, NEW end \in PipeEnds, NEW n \in 0 .. Len(pr.to[end])
    PROVE  LET r == TakePair(pr, end, n)
           IN  /\ r \in Pipes /\ r.shut = pr.shut
               /\ r.to[end] = SubSeq(pr.to[end], n + 1, Len(pr.to[end]))
               /\ \A e \in PipeEnds \ {end} : r.to[e] = pr.to[e]
<1> DEFINE q == SubSeq(pr.to[end], n + 1, Len(pr.to[end]))
<1>1. pr.to \in [PipeEnds -> Seq(Byte)]
  BY DEF Pipes
<1>2. q \in Seq(Byte)
  BY <1>1, SuffixProperties
<1>3. TakePair(pr, end, n) = [pr EXCEPT !.to = [pr.to EXCEPT ![end] = q]]
  BY Zenon DEF TakePair
<1> HIDE DEF q
<1>4. LET r  == [pr EXCEPT !.to = [pr.to EXCEPT ![end] = q]]
      IN  /\ r \in Pipes /\ r.shut = pr.shut
          /\ r.to[end] = q /\ \A e \in PipeEnds \ {end} : r.to[e] = pr.to[e]
  BY <1>1, <1>2 DEF Pipes
<1> QED
  BY <1>3, <1>4 DEF q

(***************************************************************************)
(* shutdown(SHUT_WR) and closing an end change only which directions have  *)
(* ended; no byte in the pipe is lost.                                     *)
(***************************************************************************)
LEMMA ShutFields ==
    ASSUME NEW pr \in Pipes
    PROVE  /\ ShutWrite(pr, "app") \in Pipes /\ ShutWrite(pr, "app").to = pr.to
           /\ ShutWrite(pr, "app").shut = pr.shut \cup {"tcp"}
           /\ ShutWrite(pr, "tcp") \in Pipes /\ ShutWrite(pr, "tcp").to = pr.to
           /\ ShutWrite(pr, "tcp").shut = pr.shut \cup {"app"}
           /\ ShutBoth(pr) \in Pipes /\ ShutBoth(pr).to = pr.to /\ ShutBoth(pr).shut = PipeEnds
BY OtherEnds DEF ShutWrite, ShutBoth, Pipes, PipeEnds

(***************************************************************************)
(* TRUE as a value among others, for a flag that is set.                   *)
(***************************************************************************)
Yes == TRUE

-----------------------------------------------------------------------------
(***************************************************************************)
(* The rules differ, and what each is interested in.                       *)
(***************************************************************************)
LEMMA RulesDiffer ==
    /\ InputRule # OutboundRule /\ InputRule # SocketRule /\ InputRule # OutputRule
    /\ OutboundRule # SocketRule /\ OutboundRule # OutputRule /\ SocketRule # OutputRule
    /\ ReceiveRule # PushRule /\ ReceiveRule # InboundRule /\ PushRule # InboundRule
    /\ ReceiveRule # InputRule /\ ReceiveRule # OutboundRule /\ ReceiveRule # SocketRule /\ ReceiveRule # OutputRule
    /\ PushRule # InputRule /\ PushRule # OutboundRule /\ PushRule # SocketRule /\ PushRule # OutputRule
    /\ InboundRule # InputRule /\ InboundRule # OutboundRule /\ InboundRule # SocketRule /\ InboundRule # OutputRule
BY DEF InputRule, OutboundRule, SocketRule, OutputRule, ReceiveRule, PushRule, InboundRule

(***************************************************************************)
(* Which of the seven rules wait for input and which for room to write.    *)
(***************************************************************************)
LEMMA Directions ==
    /\ InputRule.direction = "In" /\ OutboundRule.direction = "Out"
    /\ SocketRule.direction = "In" /\ OutputRule.direction = "Out"
    /\ ReceiveRule.direction = "In" /\ PushRule.direction = "In" /\ InboundRule.direction = "Out"
BY DEF InputRule, OutboundRule, SocketRule, OutputRule, ReceiveRule, PushRule, InboundRule

(***************************************************************************)
(* The interest lambdas of the four rules of bidirectional_stream_copy.    *)
(***************************************************************************)
LEMMA CopyInterests ==
    ASSUME NEW s
    PROVE  /\ CopyInterest(InputRule, s) <=>
                  ~HasErrors(s) /\ AvailableCapacity(s.outbound) > 0 /\ ~s.outbound.closed
           /\ CopyInterest(OutboundRule, s) <=>
                  s.outbound.buf # << >> \/ (IsFinished(s.outbound) /\ ~s.outbound_shutdown)
           /\ CopyInterest(SocketRule, s) <=>
                  ~HasErrors(s) /\ AvailableCapacity(s.inbound) > 0 /\ ~s.inbound.closed
           /\ CopyInterest(OutputRule, s) <=>
                  s.inbound.buf # << >> \/ (IsFinished(s.inbound) /\ ~s.inbound_shutdown)
BY RulesDiffer DEF CopyInterest

(***************************************************************************)
(* The interest lambdas of the three rules of TCPMinnowSocket.             *)
(***************************************************************************)
LEMMA TCPInterests ==
    ASSUME NEW s
    PROVE  /\ TCPInterest(ReceiveRule, s) <=> Active(s.peer)
           /\ TCPInterest(PushRule, s) <=>
                  Active(s.peer) /\ ~s.outbound_shutdown /\ AvailableCapacity(s.peer.out) > 0
           /\ TCPInterest(InboundRule, s) <=>
                  s.peer.in.buf # << >> \/ ((IsFinished(s.peer.in) \/ s.peer.in.error) /\ ~s.inbound_shutdown)
<1>1. TCPInterest(ReceiveRule, s) <=> Active(s.peer)
  BY RulesDiffer DEF TCPInterest, Active
<1>2. TCPInterest(PushRule, s) <=>
                  Active(s.peer) /\ ~s.outbound_shutdown /\ AvailableCapacity(s.peer.out) > 0
  BY RulesDiffer DEF TCPInterest
<1>3. TCPInterest(InboundRule, s) <=>
                  s.peer.in.buf # << >> \/ ((IsFinished(s.peer.in) \/ s.peer.in.error) /\ ~s.inbound_shutdown)
  BY RulesDiffer DEF TCPInterest
<1> QED BY <1>1, <1>2, <1>3

-----------------------------------------------------------------------------
(***************************************************************************)
(* The owner's loop: what its callbacks keep, and what nobody takes back.  *)
(***************************************************************************)
CopyGood(s, t, nt, rm, ty, ok) ==
    /\ IsRecord(s, CopyFields)
    /\ s.killed \in BOOLEAN /\ (s.killed => ~ok)
    /\ Sound(s, t, s.pair, nt, rm, ty, ok)

CopyOnward(s, u) ==
    /\ s.outbound.closed => u.outbound.closed
    /\ s.inbound.closed => u.inbound.closed
    /\ s.inbound_shutdown => u.inbound_shutdown
    /\ s.pair.shut \subseteq u.pair.shut
    /\ s.pair.to["tcp"] # << >> => u.pair.to["tcp"] # << >>

(***************************************************************************)
(* All the parts of the two chains are sequences of bytes.                 *)
(***************************************************************************)
OutUpToPipe(p, pr, nt, rm) == ((rm.got \o Fresh(p, nt)) \o p.out.buf) \o pr.to["tcp"]

(***************************************************************************)
(* What the other side has not yet seen of the bytes in flight is their    *)
(* tail after those the segment under way acknowledges.                    *)
(***************************************************************************)
LEMMA FreshType ==
    ASSUME NEW p, p.flight \in Seq(Byte), NEW nt \in Segments,
           NEW n \in Int, n = Lesser(nt.acks - SynAcked(p, nt), Len(p.flight))
    PROVE  /\ n \in 0 .. Len(p.flight)
           /\ Fresh(p, nt) = SubSeq(p.flight, n + 1, Len(p.flight))
           /\ Fresh(p, nt) \in Seq(Byte)
<1>1. nt.acks \in Nat /\ Len(p.flight) \in Nat
  BY LenIsNat DEF Segments
<1>2. nt.acks - SynAcked(p, nt) \in Nat
  BY <1>1 DEF SynAcked
<1> DEFINE m == nt.acks - SynAcked(p, nt)
<1>3. n \in 0 .. Len(p.flight)
  <2> HIDE DEF m
  <2> QED
    BY <1>1, <1>2 DEF Lesser, m
<1>4. Fresh(p, nt) = SubSeq(p.flight, n + 1, Len(p.flight))
  BY DEF Fresh
<1> QED
  BY <1>3, <1>4, SuffixProperties

(***************************************************************************)
(* The same tail, as a sequence of bytes.                                  *)
(***************************************************************************)
LEMMA FreshIsBytes ==
    ASSUME NEW p, p.flight \in Seq(Byte), NEW nt \in Segments
    PROVE  Fresh(p, nt) \in Seq(Byte)
<1> DEFINE n == Lesser(nt.acks - SynAcked(p, nt), Len(p.flight))
<1>1. nt.acks \in Nat /\ Len(p.flight) \in Nat /\ SynAcked(p, nt) \in Int
  BY LenIsNat DEF Segments, SynAcked
<1>2. n \in Int
  BY <1>1 DEF Lesser
<1> HIDE DEF n
<1> QED
  BY <1>2, FreshType DEF n

(***************************************************************************)
(* Every link of the two chains of bytes is a sequence of bytes.           *)
(***************************************************************************)
LEMMA ChainTypes ==
    ASSUME NEW a, AppTypes(a), NEW p \in Peers, NEW pr \in Pipes, NEW nt \in Segments, NEW rm \in Remotes
    PROVE  /\ rm.got \in Seq(Byte) /\ Fresh(p, nt) \in Seq(Byte) /\ p.flight \in Seq(Byte)
           /\ p.out \in Stream /\ p.in \in Stream /\ p.out.buf \in Seq(Byte) /\ p.in.buf \in Seq(Byte)
           /\ pr.to["tcp"] \in Seq(Byte) /\ pr.to["app"] \in Seq(Byte)
           /\ a.outbound.buf \in Seq(Byte) /\ a.inbound.buf \in Seq(Byte)
           /\ a.stdin.unread \in Seq(Byte) /\ a.stdout.printed \in Seq(Byte) /\ nt.data \in Seq(Byte)
           /\ OutUpToPipe(p, pr, nt, rm) \in Seq(Byte)
           /\ (rm.got \o Fresh(p, nt)) \in Seq(Byte) /\ ((rm.got \o Fresh(p, nt)) \o p.out.buf) \in Seq(Byte)
           /\ a.stdout.printed \o a.inbound.buf \in Seq(Byte)
           /\ (a.stdout.printed \o a.inbound.buf) \o pr.to["app"] \in Seq(Byte)
<1>1. /\ rm.got \in Seq(Byte) /\ nt.data \in Seq(Byte)
      /\ pr.to["tcp"] \in Seq(Byte) /\ pr.to["app"] \in Seq(Byte)
  BY DEF Remotes, Segments, Pipes, PipeEnds
<1>2. p.out \in Stream /\ p.in \in Stream /\ p.flight \in Seq(Byte)
  BY DEF Peers
<1>3. p.out.buf \in Seq(Byte) /\ p.in.buf \in Seq(Byte)
  BY <1>2 DEF Stream
<1>4. /\ a.outbound.buf \in Seq(Byte) /\ a.inbound.buf \in Seq(Byte)
      /\ a.stdin.unread \in Seq(Byte) /\ a.stdout.printed \in Seq(Byte)
  BY DEF AppTypes, Stream
<1>5. Fresh(p, nt) \in Seq(Byte)
  BY <1>2, FreshIsBytes
<1>6. ASSUME NEW x \in Seq(Byte), NEW y \in Seq(Byte) PROVE x \o y \in Seq(Byte)
  BY ConcatProperties
<1> DEFINE gf == rm.got \o Fresh(p, nt)
           gfo == gf \o p.out.buf
           pi == a.stdout.printed \o a.inbound.buf
<1>7. gf \in Seq(Byte) /\ pi \in Seq(Byte)
  BY <1>1, <1>4, <1>5, <1>6
<1> HIDE DEF gf, pi
<1>8. gfo \in Seq(Byte) /\ pi \o pr.to["app"] \in Seq(Byte)
  BY <1>1, <1>3, <1>6, <1>7
<1> HIDE DEF gfo
<1>9. gfo \o pr.to["tcp"] \in Seq(Byte)
  BY <1>1, <1>6, <1>8
<1> QED
  BY <1>1, <1>2, <1>3, <1>4, <1>5, <1>7, <1>8, <1>9 DEF gf, gfo, pi, OutUpToPipe

(***************************************************************************)
(* A read sets the end-of-file flag exactly when it returned nothing, and  *)
(* keeps the flag once set.                                                *)
(***************************************************************************)
LEMMA FileDescriptorFields ==
    ASSUME NEW fd \in FileDescriptors, NEW data \in Seq(Byte)
    PROVE  LET r == AfterRead(fd, data)
           IN  /\ r \in FileDescriptors /\ r.closed = fd.closed
               /\ r.eof <=> fd.eof \/ data = << >>
<1>1. fd = [eof |-> fd.eof, closed |-> fd.closed] /\ fd.eof \in BOOLEAN /\ fd.closed \in BOOLEAN
  BY DEF FileDescriptors
<1> DEFINE b == fd.eof \/ data = << >>
<1>2. b \in BOOLEAN /\ (b <=> fd.eof \/ data = << >>)
  OBVIOUS
<1>3. AfterRead(fd, data) = [fd EXCEPT !.eof = b]
  BY Zenon DEF AfterRead
<1> HIDE DEF b
<1>4. LET r == [fd EXCEPT !.eof = b]
      IN  /\ r \in FileDescriptors /\ r.closed = fd.closed /\ r.eof = b
  BY <1>1, <1>2 DEF FileDescriptors
<1> QED
  BY <1>2, <1>3, <1>4

(***************************************************************************)
(* The bytes of a read that fit are added whole, and the stream is closed  *)
(* exactly when the descriptor is at its end.                              *)
(***************************************************************************)
LEMMA AfterDataFields ==
    ASSUME NEW q \in Stream, NEW data \in Seq(Byte), ~q.closed, Len(data) <= AvailableCapacity(q), NEW fd
    PROVE  LET r == AfterData(q, data, fd)
           IN  /\ r \in Stream /\ r.buf = q.buf \o data
               /\ r.capacity = q.capacity /\ r.error = q.error
               /\ r.closed <=> fd.eof
<1> DEFINE r == PushBytes(q, data)
<1>1. /\ r \in Stream /\ r.buf = q.buf \o data
      /\ r.capacity = q.capacity /\ r.error = q.error /\ r.closed = q.closed
  BY PushFields
<1> HIDE DEF r
<1>2. AfterData(q, data, fd) = IF fd.eof THEN CloseStream(r) ELSE r
  BY DEF AfterData, r
<1> QED
  BY <1>1, <1>2, CloseFields

(***************************************************************************)
(* A process that a SIGPIPE ends keeps everything else, and something had  *)
(* gone wrong.                                                             *)
(***************************************************************************)
LEMMA KilledGood ==
    ASSUME NEW s, NEW t, NEW nt, NEW rm, NEW ty, CopyGood(s, t, nt, rm, ty, FALSE)
    PROVE  LET u == Put(s, "killed", Yes)
           IN  CopyGood(u, t, nt, rm, ty, FALSE) /\ CopyOnward(s, u) /\ u.killed = Yes
<1> DEFINE u == Put(s, "killed", Yes)
<1>1. IsRecord(s, CopyFields) /\ Sound(s, t, s.pair, nt, rm, ty, FALSE)
  BY DEF CopyGood
<1>2. "killed" \in CopyFields
  BY DEF CopyFields, AppFields
<1>3. IsRecord(u, CopyFields) /\ u["killed"] = Yes /\ \A g \in CopyFields \ {"killed"} : u[g] = s[g]
  BY <1>1, <1>2, PutOne
<1> HIDE DEF u
<1>4. /\ u.killed = Yes /\ u.pair = s.pair
      /\ u.outbound = s.outbound /\ u.inbound = s.inbound /\ u.outbound_shutdown = s.outbound_shutdown
      /\ u.inbound_shutdown = s.inbound_shutdown /\ u.socket = s.socket /\ u.input = s.input
      /\ u.output = s.output /\ u.stdin = s.stdin /\ u.stdout = s.stdout
  BY <1>3 DEF CopyFields, AppFields
<1>5. Sound(u, t, u.pair, nt, rm, ty, FALSE)
  BY <1>1, <1>4 DEF Sound, AppTypes, OutApp, InApp, OutChain, InChain
<1>6. CopyGood(u, t, nt, rm, ty, FALSE) /\ CopyOnward(s, u)
  BY <1>3, <1>4, <1>5 DEF CopyGood, CopyOnward, Yes
<1> QED
  BY <1>4, <1>6 DEF u

(***************************************************************************)
(* Typed bytes move from the standard input into the outbound stream, or   *)
(* its end is found.                                                       *)
(***************************************************************************)
LEMMA FromInputGood ==
    ASSUME NEW s, NEW t, NEW nt, NEW rm, NEW ty, NEW ok, CopyGood(s, t, nt, rm, ty, ok),
           ~s.outbound.closed, AvailableCapacity(s.outbound) > 0,
           s.stdin.unread # << >> \/ s.stdin.end = "eof"
    PROVE  LET u == FromInput(s)
           IN  CopyGood(u, t, nt, rm, ty, ok) /\ CopyOnward(s, u) /\ u.killed = s.killed
<1> DEFINE room == AvailableCapacity(s.outbound)
           data == ReadBytes(s.stdin.unread, room)
           fd == AfterRead(s.input, data)
           n == Len(data)
           rest == SubSeq(s.stdin.unread, n + 1, Len(s.stdin.unread))
           in == Put(s.stdin, "unread", rest)
           out == AfterData(s.outbound, data, fd)
           u == Put(Put(Put(s, "stdin", in), "input", fd), "outbound", out)
<1>1. /\ IsRecord(s, CopyFields) /\ s.killed \in BOOLEAN /\ (s.killed => ~ok)
      /\ AppTypes(s) /\ TCPTypes(t) /\ s.pair \in Pipes /\ nt \in Segments /\ rm \in Remotes
      /\ OutApp(s, s.pair, ok) /\ InApp(s, s.pair, ok)
      /\ OutChain(s, t.peer, s.pair, nt, rm, ty) /\ InChain(s, t.peer, s.pair, nt, rm)
  BY DEF CopyGood, Sound
<1>2. /\ s.outbound \in Stream /\ s.outbound.buf \in Seq(Byte) /\ s.input \in FileDescriptors
      /\ s.stdin \in [unread : Seq(Byte), end : {"open", "eof", "hung up"}] /\ s.stdin.unread \in Seq(Byte)
  BY <1>1 DEF AppTypes, Stream
<1>3. room \in Nat \ {0}
  <2>1. s.outbound.capacity \in Nat /\ Len(s.outbound.buf) \in Nat
    BY <1>2, LenIsNat DEF Stream
  <2> QED
    BY <2>1 DEF AvailableCapacity
<1>4. /\ data \in Seq(Byte) /\ n \in 0 .. Len(s.stdin.unread) /\ n <= room
      /\ data = SubSeq(s.stdin.unread, 1, n)
      /\ data = << >> <=> s.stdin.unread = << >>
  BY <1>2, <1>3, ReadIsFront
<1> HIDE DEF data
<1>5. fd \in FileDescriptors /\ fd.closed = s.input.closed /\ (fd.eof <=> s.input.eof \/ data = << >>)
  BY <1>2, <1>4, FileDescriptorFields
<1>6. ~s.input.eof /\ ~s.input.closed
  BY <1>1 DEF OutApp
<1> HIDE DEF fd
<1>7. /\ out \in Stream /\ out.buf = s.outbound.buf \o data
      /\ out.capacity = s.outbound.capacity /\ out.error = s.outbound.error /\ (out.closed <=> fd.eof)
  BY <1>2, <1>4, AfterDataFields
<1>8. rest \in Seq(Byte)
  BY <1>2, <1>4, CutInTwo
<1> HIDE DEF rest, out
<1>9. in \in [unread : Seq(Byte), end : {"open", "eof", "hung up"}] /\ in.unread = rest /\ in.end = s.stdin.end
  BY <1>2, <1>8 DEF Put
<1> HIDE DEF in
<1>10. /\ IsRecord(u, CopyFields) /\ u.stdin = in /\ u.input = fd /\ u.outbound = out
       /\ u.inbound = s.inbound /\ u.outbound_shutdown = s.outbound_shutdown
       /\ u.inbound_shutdown = s.inbound_shutdown /\ u.socket = s.socket /\ u.output = s.output
       /\ u.stdout = s.stdout /\ u.pair = s.pair /\ u.killed = s.killed
  <2>1. "stdin" \in CopyFields /\ "input" \in CopyFields \ {"stdin"} /\ "outbound" \in CopyFields \ {"stdin", "input"}
    BY DEF CopyFields, AppFields
  <2>2. /\ IsRecord(u, CopyFields) /\ u["stdin"] = in /\ u["input"] = fd /\ u["outbound"] = out
        /\ \A g \in CopyFields \ {"stdin", "input", "outbound"} : u[g] = s[g]
    BY <1>1, <2>1, PutThree
  <2> HIDE DEF u
  <2> QED
    BY <2>2 DEF CopyFields, AppFields
<1>11. FromInput(s) = u
  BY Zenon DEF FromInput, Put, u, in, rest, n, out, fd, data, room
<1> HIDE DEF u
<1>12. AppTypes(u)
  BY <1>1, <1>5, <1>7, <1>9, <1>10 DEF AppTypes
<1>13. fd.eof => s.stdin.unread = << >> /\ s.stdin.end = "eof" /\ in.unread = << >>
  <2> SUFFICES ASSUME fd.eof PROVE s.stdin.unread = << >> /\ s.stdin.end = "eof" /\ in.unread = << >>
    OBVIOUS
  <2>1. s.stdin.unread = << >>
    BY <1>4, <1>5, <1>6
  <2>2. Len(s.stdin.unread) = 0 /\ n = 0
    BY <2>1, <1>4
  <2>3. rest = << >>
    <3> HIDE DEF n
    <3> QED
      BY <2>2, SubSeqEmpty DEF rest
  <2> QED
    BY <2>1, <2>3, <1>4, <1>5, <1>6, <1>9
<1>14. OutApp(u, u.pair, ok)
  BY <1>1, <1>5, <1>6, <1>7, <1>9, <1>10, <1>13 DEF OutApp, IsFinished
<1>15. InApp(u, u.pair, ok)
  BY <1>1, <1>10 DEF InApp
<1>16. OutChain(u, t.peer, u.pair, nt, rm, ty)
  <2>1. t.peer \in Peers
    BY <1>1 DEF TCPTypes
  <2> DEFINE x == OutUpToPipe(t.peer, s.pair, nt, rm)
  <2>2. x \in Seq(Byte)
    BY <1>1, <2>1, ChainTypes
  <2>3. BytesFrom(1, ty) = (x \o s.outbound.buf) \o s.stdin.unread
    BY <1>1 DEF OutChain, OutUpToPipe
  <2>4. (x \o (s.outbound.buf \o SubSeq(s.stdin.unread, 1, n))) \o rest = (x \o s.outbound.buf) \o s.stdin.unread
    <3> HIDE DEF x
    <3> QED
      BY <2>2, <1>2, <1>4, MovesOn DEF rest
  <2> QED
    BY <2>3, <2>4, <1>4, <1>7, <1>9, <1>10 DEF OutChain, OutUpToPipe
<1>17. InChain(u, t.peer, u.pair, nt, rm)
  BY <1>1, <1>10 DEF InChain
<1>18. CopyGood(u, t, nt, rm, ty, ok)
  <2>1. Sound(u, t, u.pair, nt, rm, ty, ok)
    <3>1. Sound(s, t, s.pair, nt, rm, ty, ok)
      BY DEF CopyGood
    <3> QED
      BY <3>1, <1>10, <1>12, <1>14, <1>15, <1>16, <1>17 DEF Sound
  <2> QED
    BY <1>1, <1>10, <2>1 DEF CopyGood
<1>19. CopyOnward(s, u)
  BY <1>10 DEF CopyOnward
<1> QED
  BY <1>10, <1>11, <1>18, <1>19

(***************************************************************************)
(* Bytes move from the outbound stream into the pipe; after the last one   *)
(* the owner shuts its direction down.  If nothing is written, and nothing *)
(* shut down, the rule has no interest any more.                           *)
(***************************************************************************)
LEMMA ToSocketGood ==
    ASSUME NEW s, NEW t, NEW nt, NEW rm, NEW ty, NEW ok, CopyGood(s, t, nt, rm, ty, ok),
           ~s.killed, Len(s.pair.to["tcp"]) < PipeCapacity
    PROVE  LET u == ToSocket(s)
           IN  /\ CopyGood(u, t, nt, rm, ty, ok) /\ CopyOnward(s, u)
               /\ u = s => ~CopyInterest(OutboundRule, s)
<1> DEFINE room == Room(s.pair, "app")
           q == s.outbound.buf
           data == SubSeq(q, 1, Lesser(room, Len(q)))
           n == Len(data)
           pr == WritePair(s.pair, "app", data)
           out == PopBytes(s.outbound, n)
           wrote == Put(Put(s, "pair", pr), "outbound", out)
           ended == Put(Put(wrote, "pair", ShutWrite(pr, "app")), "outbound_shutdown", Yes)
           u == ToSocket(s)
<1>1. /\ IsRecord(s, CopyFields) /\ s.killed \in BOOLEAN /\ (s.killed => ~ok)
      /\ AppTypes(s) /\ TCPTypes(t) /\ s.pair \in Pipes /\ nt \in Segments /\ rm \in Remotes
      /\ OutApp(s, s.pair, ok) /\ InApp(s, s.pair, ok)
      /\ OutTCP(t, s.pair) /\ InTCP(t, s.pair, nt, rm, ok)
      /\ OutChain(s, t.peer, s.pair, nt, rm, ty) /\ InChain(s, t.peer, s.pair, nt, rm)
  BY DEF CopyGood, Sound
<1>2. /\ s.outbound \in Stream /\ q \in Seq(Byte)
      /\ s.pair.to["tcp"] \in Seq(Byte) /\ s.pair.to["app"] \in Seq(Byte)
  BY <1>1 DEF AppTypes, Stream, Pipes, PipeEnds
<1>3. room \in Int /\ room > 0
  <2>1. Len(s.pair.to["tcp"]) \in Nat /\ PipeCapacity \in Nat
    BY <1>2, LenIsNat, DescriptorAssumption
  <2> QED
    BY <2>1, OtherEnds DEF Room
<1> HIDE DEF room
<1>4. /\ data \in Seq(Byte) /\ n \in 0 .. Len(q) /\ data = SubSeq(q, 1, n)
      /\ data = << >> <=> n = 0
      /\ data = << >> <=> q = << >>
  BY <1>2, <1>3, FrontFits
<1>5. /\ pr \in Pipes /\ pr.shut = s.pair.shut
      /\ pr.to["tcp"] = s.pair.to["tcp"] \o data /\ pr.to["app"] = s.pair.to["app"]
  <2> HIDE DEF data
  <2> QED
    BY <1>1, <1>4, WriteFields
<1>6. /\ out \in Stream /\ out.buf = SubSeq(q, n + 1, Len(q))
      /\ out.capacity = s.outbound.capacity /\ out.error = s.outbound.error
      /\ out.closed = s.outbound.closed
  BY <1>2, <1>4, PopFields
<1>7. q = << >> => out.buf = << >>
  <2> SUFFICES ASSUME q = << >> PROVE SubSeq(q, n + 1, Len(q)) = << >>
    BY <1>6
  <2>1. n = 0 /\ Len(q) = 0
    BY <1>4
  <2> HIDE DEF n
  <2> QED
    BY <2>1, SubSeqEmpty
<1>8. MayWrite(s.pair, "app") <=> "tcp" \notin s.pair.shut
  BY OtherEnds DEF MayWrite
<1>9. u = IF data # << >> /\ ~MayWrite(s.pair, "app") THEN Put(s, "killed", Yes)
          ELSE IF IsFinished(out) THEN ended ELSE wrote
  <2>1. wrote.outbound = out /\ wrote.pair = pr
    <3>1. "pair" \in CopyFields /\ "outbound" \in CopyFields \ {"pair"}
      BY DEF CopyFields, AppFields
    <3> HIDE DEF pr, out
    <3> QED
      BY <1>1, <3>1, PutTwo
  <2> DEFINE w == [s EXCEPT !.pair = WritePair(@, "app", data), !.outbound = PopBytes(@, n)]
  <2>2. w = wrote
    BY Zenon DEF Put
  <2>3. u = IF data # << >> /\ ~MayWrite(s.pair, "app") THEN [s EXCEPT !.killed = TRUE]
            ELSE IF IsFinished(w.outbound) THEN [w EXCEPT !.pair = ShutWrite(@, "app"), !.outbound_shutdown = TRUE]
            ELSE w
    BY Zenon DEF ToSocket, room
  <2>4. [w EXCEPT !.pair = ShutWrite(@, "app"), !.outbound_shutdown = TRUE]
            = Put(Put(w, "pair", ShutWrite(w.pair, "app")), "outbound_shutdown", Yes)
    BY Zenon DEF Put, Yes
  <2>5. Put(s, "killed", Yes) = [s EXCEPT !.killed = TRUE]
    BY DEF Put, Yes
  <2> HIDE DEF w, wrote, out, pr, u, data
  <2> QED
    BY <2>1, <2>2, <2>3, <2>4, <2>5
<1> HIDE DEF u, data
<1>10. CASE data # << >> /\ "tcp" \in s.pair.shut
  <2>1. u = Put(s, "killed", Yes)
    BY <1>8, <1>9, <1>10
  <2>2. ~ok
    BY <1>1, <1>4, <1>10 DEF OutApp, IsFinished
  <2>3. ok = FALSE
    BY <2>2 DEF CopyGood, Sound
  <2>4. CopyGood(u, t, nt, rm, ty, ok) /\ CopyOnward(s, u) /\ u.killed
    <3>1. CopyGood(s, t, nt, rm, ty, FALSE)
      BY <2>3
    <3> QED
      BY <2>1, <2>3, <3>1, KilledGood DEF Yes
  <2> QED
    BY <2>4 DEF u
<1>11. CASE data = << >> \/ "tcp" \notin s.pair.shut
  <2>1. PICK last \in BOOLEAN : last = IsFinished(out)
    BY <1>6 DEF IsFinished, Stream
  <2>2. u = IF last THEN ended ELSE wrote
    <3> HIDE DEF ended, wrote, out
    <3> QED
      BY <1>8, <1>9, <1>11, <2>1
  <2> DEFINE pipe == u.pair
  <2>3. /\ IsRecord(u, CopyFields) /\ u.killed = s.killed /\ u.outbound = out
        /\ u.inbound = s.inbound /\ u.inbound_shutdown = s.inbound_shutdown
        /\ u.socket = s.socket /\ u.input = s.input /\ u.output = s.output
        /\ u.stdin = s.stdin /\ u.stdout = s.stdout
        /\ u.pair = IF last THEN ShutWrite(pr, "app") ELSE pr
        /\ u.outbound_shutdown = IF last THEN Yes ELSE s.outbound_shutdown
    <3>1. /\ "pair" \in CopyFields /\ "outbound" \in CopyFields \ {"pair"}
          /\ "outbound_shutdown" \in CopyFields \ {"pair"}
      BY DEF CopyFields, AppFields
    <3>2. /\ IsRecord(wrote, CopyFields) /\ wrote["pair"] = pr /\ wrote["outbound"] = out
          /\ \A g \in CopyFields \ {"pair", "outbound"} : wrote[g] = s[g]
      <4> HIDE DEF pr, out
      <4> QED
        BY <1>1, <3>1, PutTwo
    <3> DEFINE shut == ShutWrite(pr, "app")
    <3>3. /\ IsRecord(ended, CopyFields) /\ ended["pair"] = shut /\ ended["outbound_shutdown"] = Yes
          /\ \A g \in CopyFields \ {"pair", "outbound_shutdown"} : ended[g] = wrote[g]
      <4> HIDE DEF pr, out, wrote, shut
      <4> QED
        BY <3>1, <3>2, PutTwo DEF shut
    <3> HIDE DEF ended, wrote, out, pr, shut
    <3>4. CASE last
      BY <3>4, <2>2, <3>2, <3>3 DEF CopyFields, AppFields, shut
    <3>5. CASE ~last
      BY <3>5, <2>2, <3>2 DEF CopyFields, AppFields
    <3> QED
      BY <3>4, <3>5
  <2> HIDE DEF wrote, ended, pr, out
  <2>4. /\ u.pair \in Pipes
        /\ u.pair.shut = IF last THEN s.pair.shut \cup {"tcp"} ELSE s.pair.shut
        /\ u.pair.to["tcp"] = s.pair.to["tcp"] \o data /\ u.pair.to["app"] = s.pair.to["app"]
    BY <1>5, <2>3, ShutFields
  <2>5. AppTypes(u)
    BY <1>1, <1>6, <2>3 DEF AppTypes, Yes
  <2>6. OutApp(u, u.pair, ok)
    BY <1>1, <1>6, <1>7, <2>1, <2>3, <2>4 DEF OutApp, IsFinished, Yes
  <2>7. InApp(u, u.pair, ok)
    BY <1>1, <2>3, <2>4 DEF InApp
  <2>8. OutTCP(t, u.pair)
    <3>1. data = << >> => s.pair.to["tcp"] \o data = s.pair.to["tcp"]
      BY <1>2, NothingMore
    <3> QED
      BY <1>1, <1>11, <2>4, <3>1 DEF OutTCP
  <2>9. InTCP(t, u.pair, nt, rm, ok)
    BY <1>1, <2>4 DEF InTCP
  <2>10. OutChain(u, t.peer, u.pair, nt, rm, ty)
    <3>1. t.peer \in Peers
      BY <1>1 DEF TCPTypes
    <3> DEFINE x == (rm.got \o Fresh(t.peer, nt)) \o t.peer.out.buf
    <3>2. x \in Seq(Byte)
      BY <1>1, <3>1, ChainTypes
    <3>3. BytesFrom(1, ty) = ((x \o s.pair.to["tcp"]) \o q) \o s.stdin.unread
      BY <1>1 DEF OutChain
    <3>4. (x \o (s.pair.to["tcp"] \o SubSeq(q, 1, n))) \o SubSeq(q, n + 1, Len(q)) = (x \o s.pair.to["tcp"]) \o q
      <4> HIDE DEF x
      <4> QED
        BY <3>2, <1>2, <1>4, MovesOn
    <3> QED
      BY <3>3, <3>4, <1>4, <1>6, <2>3, <2>4 DEF OutChain
  <2>11. InChain(u, t.peer, u.pair, nt, rm)
    BY <1>1, <2>3, <2>4 DEF InChain
  <2>12. CopyGood(u, t, nt, rm, ty, ok)
    <3>1. Sound(s, t, s.pair, nt, rm, ty, ok)
      BY DEF CopyGood
    <3>2. Sound(u, t, u.pair, nt, rm, ty, ok)
      BY <3>1, <2>4, <2>5, <2>6, <2>7, <2>8, <2>9, <2>10, <2>11 DEF Sound
    <3> QED
      BY <1>1, <2>3, <3>2 DEF CopyGood
  <2>13. s.pair.to["tcp"] # << >> \/ data # << >> => s.pair.to["tcp"] \o data # << >>
    BY <1>2, <1>4, ConcatEqualIffEmpty
  <2>14. CopyOnward(s, u)
    BY <1>6, <2>3, <2>4, <2>13 DEF CopyOnward
  <2>15. ASSUME u = s PROVE ~CopyInterest(OutboundRule, s)
    <3>1. data = << >>
      BY <2>4, <2>15, <1>2, <1>4, ConcatEqualIffEmpty
    <3>2. q = << >> /\ out.buf = << >>
      BY <1>4, <1>7, <3>1
    <3>3. IsFinished(s.outbound) => s.outbound_shutdown
      BY <1>6, <3>2, <2>1, <2>3, <2>15 DEF IsFinished, Yes
    <3> QED
      BY <3>2, <3>3, CopyInterests
  <2> QED
    BY <2>12, <2>14, <2>15 DEF u
<1> QED
  BY <1>10, <1>11

(***************************************************************************)
(* Bytes move from the pipe into the inbound stream, or its end is found.  *)
(***************************************************************************)
LEMMA FromSocketGood ==
    ASSUME NEW s, NEW t, NEW nt, NEW rm, NEW ty, NEW ok, CopyGood(s, t, nt, rm, ty, ok),
           ~s.inbound.closed, AvailableCapacity(s.inbound) > 0,
           s.pair.to["app"] # << >> \/ "app" \in s.pair.shut
    PROVE  LET u == FromSocket(s)
           IN  CopyGood(u, t, nt, rm, ty, ok) /\ CopyOnward(s, u) /\ u.killed = s.killed
<1> DEFINE room == AvailableCapacity(s.inbound)
           q == s.pair.to["app"]
           data == ReadBytes(q, room)
           fd == AfterRead(s.socket, data)
           n == Len(data)
           pr == TakePair(s.pair, "app", n)
           in == AfterData(s.inbound, data, fd)
           u == Put(Put(Put(s, "pair", pr), "socket", fd), "inbound", in)
<1>1. /\ IsRecord(s, CopyFields) /\ s.killed \in BOOLEAN /\ (s.killed => ~ok)
      /\ AppTypes(s) /\ TCPTypes(t) /\ s.pair \in Pipes /\ nt \in Segments /\ rm \in Remotes
      /\ OutApp(s, s.pair, ok) /\ InApp(s, s.pair, ok)
      /\ OutTCP(t, s.pair) /\ InTCP(t, s.pair, nt, rm, ok)
      /\ OutChain(s, t.peer, s.pair, nt, rm, ty) /\ InChain(s, t.peer, s.pair, nt, rm)
  BY DEF CopyGood, Sound
<1>2. /\ s.inbound \in Stream /\ s.inbound.buf \in Seq(Byte) /\ s.socket \in FileDescriptors
      /\ q \in Seq(Byte) /\ s.stdout.printed \in Seq(Byte)
  BY <1>1 DEF AppTypes, Stream, Pipes, PipeEnds
<1>3. room \in Nat \ {0}
  <2>1. s.inbound.capacity \in Nat /\ Len(s.inbound.buf) \in Nat
    BY <1>2, LenIsNat DEF Stream
  <2> QED
    BY <2>1 DEF AvailableCapacity
<1>4. /\ data \in Seq(Byte) /\ n \in 0 .. Len(q) /\ n <= room
      /\ data = SubSeq(q, 1, n)
      /\ data = << >> <=> q = << >>
  BY <1>2, <1>3, ReadIsFront
<1> HIDE DEF data
<1>5. fd \in FileDescriptors /\ fd.closed = s.socket.closed /\ (fd.eof <=> s.socket.eof \/ data = << >>)
  BY <1>2, <1>4, FileDescriptorFields
<1>6. ~s.socket.eof /\ ~s.socket.closed /\ ~s.inbound_shutdown
  BY <1>1 DEF OutApp, InApp, IsFinished
<1> HIDE DEF fd
<1>7. /\ in \in Stream /\ in.buf = s.inbound.buf \o data
      /\ in.capacity = s.inbound.capacity /\ in.error = s.inbound.error /\ (in.closed <=> fd.eof)
  BY <1>2, <1>4, AfterDataFields
<1>8. /\ pr \in Pipes /\ pr.shut = s.pair.shut /\ pr.to["tcp"] = s.pair.to["tcp"]
      /\ pr.to["app"] = SubSeq(q, n + 1, Len(q))
  <2>1. "app" \in PipeEnds /\ "tcp" \in PipeEnds \ {"app"}
    BY DEF PipeEnds
  <2> HIDE DEF n
  <2> QED
    BY <1>1, <1>4, <2>1, TakeFields
<1> HIDE DEF pr, in
<1>9. /\ IsRecord(u, CopyFields) /\ u.pair = pr /\ u.socket = fd /\ u.inbound = in
      /\ u.outbound = s.outbound /\ u.outbound_shutdown = s.outbound_shutdown
      /\ u.inbound_shutdown = s.inbound_shutdown /\ u.input = s.input /\ u.output = s.output
      /\ u.stdin = s.stdin /\ u.stdout = s.stdout /\ u.killed = s.killed
  <2>1. "pair" \in CopyFields /\ "socket" \in CopyFields \ {"pair"} /\ "inbound" \in CopyFields \ {"pair", "socket"}
    BY DEF CopyFields, AppFields
  <2>2. /\ IsRecord(u, CopyFields) /\ u["pair"] = pr /\ u["socket"] = fd /\ u["inbound"] = in
        /\ \A g \in CopyFields \ {"pair", "socket", "inbound"} : u[g] = s[g]
    BY <1>1, <2>1, PutThree
  <2> HIDE DEF u
  <2> QED
    BY <2>2 DEF CopyFields, AppFields
<1>10. FromSocket(s) = u
  BY Zenon DEF FromSocket, Put, u, in, pr, n, fd, data, room
<1> HIDE DEF u
<1>11. AppTypes(u)
  BY <1>1, <1>5, <1>7, <1>9 DEF AppTypes
<1>12. fd.eof => q = << >> /\ pr.to["app"] = << >>
  <2> SUFFICES ASSUME fd.eof PROVE q = << >> /\ pr.to["app"] = << >>
    OBVIOUS
  <2>1. q = << >> /\ Len(q) = 0 /\ n = 0
    BY <1>4, <1>5, <1>6
  <2> HIDE DEF n
  <2> QED
    BY <1>8, <2>1, SubSeqEmpty
<1>13. OutApp(u, u.pair, ok)
  BY <1>1, <1>5, <1>8, <1>9 DEF OutApp
<1>14. InApp(u, u.pair, ok)
  BY <1>1, <1>6, <1>7, <1>8, <1>9, <1>12 DEF InApp
<1>15. OutTCP(t, u.pair) /\ InTCP(t, u.pair, nt, rm, ok)
  BY <1>1, <1>8, <1>9 DEF OutTCP, InTCP
<1>16. OutChain(u, t.peer, u.pair, nt, rm, ty)
  BY <1>1, <1>8, <1>9 DEF OutChain
<1>17. InChain(u, t.peer, u.pair, nt, rm)
  <2>1. (s.stdout.printed \o (s.inbound.buf \o SubSeq(q, 1, n))) \o SubSeq(q, n + 1, Len(q))
            = (s.stdout.printed \o s.inbound.buf) \o q
    BY <1>2, <1>4, MovesOn
  <2> QED
    BY <2>1, <1>1, <1>4, <1>7, <1>8, <1>9 DEF InChain
<1>18. CopyGood(u, t, nt, rm, ty, ok)
  <2>1. Sound(s, t, s.pair, nt, rm, ty, ok)
    BY DEF CopyGood
  <2>2. Sound(u, t, u.pair, nt, rm, ty, ok)
    BY <2>1, <1>8, <1>9, <1>11, <1>13, <1>14, <1>15, <1>16, <1>17 DEF Sound
  <2> QED
    BY <1>1, <1>9, <2>2 DEF CopyGood
<1>19. CopyOnward(s, u)
  BY <1>8, <1>9 DEF CopyOnward
<1> QED
  BY <1>9, <1>10, <1>18, <1>19


(***************************************************************************)
(* All of the inbound stream is printed; at its end the output is closed,  *)
(* or the rule has no interest any more.                                   *)
(***************************************************************************)
LEMMA ToOutputGood ==
    ASSUME NEW s, NEW t, NEW nt, NEW rm, NEW ty, NEW ok, CopyGood(s, t, nt, rm, ty, ok), ~s.killed
    PROVE  LET u == ToOutput(s)
           IN  /\ CopyGood(u, t, nt, rm, ty, ok) /\ CopyOnward(s, u)
               /\ s.inbound.buf = << >> => u.output.closed \/ ~CopyInterest(OutputRule, u)
<1> DEFINE q == s.inbound.buf
           stdout == Put(s.stdout, "printed", s.stdout.printed \o q)
           in == PopBytes(s.inbound, Len(q))
           wrote == Put(Put(s, "stdout", stdout), "inbound", in)
           closed == CloseFD(s.output)
           ended == Put(Put(wrote, "output", closed), "inbound_shutdown", Yes)
           u == ToOutput(s)
<1>1. /\ IsRecord(s, CopyFields) /\ s.killed \in BOOLEAN /\ (s.killed => ~ok) /\ ok \in BOOLEAN
      /\ AppTypes(s) /\ TCPTypes(t) /\ s.pair \in Pipes /\ nt \in Segments /\ rm \in Remotes
      /\ OutApp(s, s.pair, ok) /\ InApp(s, s.pair, ok)
      /\ OutChain(s, t.peer, s.pair, nt, rm, ty) /\ InChain(s, t.peer, s.pair, nt, rm)
  BY DEF CopyGood, Sound
<1>2. /\ s.inbound \in Stream /\ q \in Seq(Byte) /\ s.output \in FileDescriptors
      /\ s.stdout \in [printed : Seq(Byte), broken : BOOLEAN] /\ s.stdout.printed \in Seq(Byte)
  BY <1>1 DEF AppTypes, Stream
<1>3. s.stdout.printed \o q \in Seq(Byte)
  BY <1>2, ConcatProperties
<1>4. /\ stdout \in [printed : Seq(Byte), broken : BOOLEAN]
      /\ stdout.printed = s.stdout.printed \o q /\ stdout.broken = s.stdout.broken
  <2> DEFINE printed == s.stdout.printed \o q
  <2> HIDE DEF printed
  <2>1. LET r == Put(s.stdout, "printed", printed)
        IN  r \in [printed : Seq(Byte), broken : BOOLEAN] /\ r.printed = printed /\ r.broken = s.stdout.broken
    BY <1>2, <1>3 DEF Put, printed
  <2> QED
    BY <2>1 DEF printed
<1>5. /\ in \in Stream /\ in.buf = << >>
      /\ in.capacity = s.inbound.capacity /\ in.error = s.inbound.error /\ in.closed = s.inbound.closed
  <2>1. Len(q) \in 0 .. Len(q) /\ Len(q) \in Nat
    BY <1>2, LenIsNat
  <2>2. SubSeq(q, Len(q) + 1, Len(q)) = << >>
    BY <2>1, SubSeqEmpty
  <2> QED
    BY <1>2, <2>1, <2>2, PopFields
<1>6. closed \in FileDescriptors /\ closed.closed
  <2>1. closed = Put(Put(s.output, "eof", Yes), "closed", Yes)
    BY Zenon DEF Put, CloseFD, Yes
  <2>2. IsRecord(s.output, {"eof", "closed"})
    BY <1>2 DEF IsRecord, FileDescriptors
  <2>3. "eof" \in {"eof", "closed"} /\ "closed" \in {"eof", "closed"} \ {"eof"}
    OBVIOUS
  <2> HIDE DEF closed
  <2>4. IsRecord(closed, {"eof", "closed"}) /\ closed["eof"] = Yes /\ closed["closed"] = Yes
    BY <2>1, <2>2, <2>3, PutTwo
  <2> QED
    BY <2>4 DEF FileDescriptors, IsRecord, Yes
<1> HIDE DEF stdout, in, closed
<1>7. u = IF q # << >> /\ s.stdout.broken THEN Put(s, "killed", Yes)
          ELSE IF IsFinished(in) THEN ended ELSE wrote
  <2>1. wrote.inbound = in /\ wrote.output = s.output
    <3>1. "stdout" \in CopyFields /\ "inbound" \in CopyFields \ {"stdout"} /\ "output" \in CopyFields \ {"stdout", "inbound"}
      BY DEF CopyFields, AppFields
    <3> QED
      BY <1>1, <3>1, PutTwo
  <2> DEFINE w == [s EXCEPT !.stdout.printed = @ \o s.inbound.buf, !.inbound = PopBytes(@, Len(@.buf))]
  <2>2. w = wrote
    BY Zenon DEF Put, stdout, in
  <2>3. u = IF q # << >> /\ s.stdout.broken THEN [s EXCEPT !.killed = TRUE]
            ELSE IF IsFinished(w.inbound) THEN [w EXCEPT !.output = CloseFD(@), !.inbound_shutdown = TRUE]
            ELSE w
    BY Zenon DEF ToOutput
  <2>4. [w EXCEPT !.output = CloseFD(@), !.inbound_shutdown = TRUE]
            = Put(Put(w, "output", CloseFD(w.output)), "inbound_shutdown", Yes)
    BY Zenon DEF Put, Yes
  <2>5. Put(s, "killed", Yes) = [s EXCEPT !.killed = TRUE]
    BY DEF Put, Yes
  <2> HIDE DEF w, wrote, u
  <2> QED
    BY <2>1, <2>2, <2>3, <2>4, <2>5 DEF closed
<1> HIDE DEF u
<1>8. CASE q # << >> /\ s.stdout.broken
  <2>1. u = Put(s, "killed", Yes)
    BY <1>7, <1>8
  <2>2. ok = FALSE
    BY <1>1, <1>8 DEF InApp
  <2>3. CopyGood(u, t, nt, rm, ty, ok) /\ CopyOnward(s, u)
    <3>1. CopyGood(s, t, nt, rm, ty, FALSE)
      BY <2>2
    <3> QED
      BY <2>1, <2>2, <3>1, KilledGood
  <2> QED
    BY <1>8, <2>3 DEF u
<1>9. CASE ~(q # << >> /\ s.stdout.broken)
  <2>1. PICK last \in BOOLEAN : last = IsFinished(in)
    BY <1>5 DEF IsFinished, Stream
  <2>2. u = IF last THEN ended ELSE wrote
    <3> HIDE DEF ended, wrote
    <3> QED
      BY <1>7, <1>9, <2>1
  <2>3. /\ IsRecord(u, CopyFields) /\ u.killed = s.killed /\ u.inbound = in /\ u.stdout = stdout
        /\ u.outbound = s.outbound /\ u.outbound_shutdown = s.outbound_shutdown
        /\ u.socket = s.socket /\ u.input = s.input /\ u.stdin = s.stdin /\ u.pair = s.pair
        /\ u.output = IF last THEN closed ELSE s.output
        /\ u.inbound_shutdown = IF last THEN Yes ELSE s.inbound_shutdown
    <3>1. /\ "stdout" \in CopyFields /\ "inbound" \in CopyFields \ {"stdout"}
          /\ "output" \in CopyFields /\ "inbound_shutdown" \in CopyFields \ {"output"}
      BY DEF CopyFields, AppFields
    <3>2. /\ IsRecord(wrote, CopyFields) /\ wrote["stdout"] = stdout /\ wrote["inbound"] = in
          /\ \A g \in CopyFields \ {"stdout", "inbound"} : wrote[g] = s[g]
      BY <1>1, <3>1, PutTwo
    <3>3. /\ IsRecord(ended, CopyFields) /\ ended["output"] = closed /\ ended["inbound_shutdown"] = Yes
          /\ \A g \in CopyFields \ {"output", "inbound_shutdown"} : ended[g] = wrote[g]
      <4> HIDE DEF wrote
      <4> QED
        BY <3>1, <3>2, PutTwo
    <3> HIDE DEF ended, wrote
    <3>4. CASE last
      BY <3>4, <2>2, <3>2, <3>3 DEF CopyFields, AppFields
    <3>5. CASE ~last
      BY <3>5, <2>2, <3>2 DEF CopyFields, AppFields
    <3> QED
      BY <3>4, <3>5
  <2> HIDE DEF wrote, ended
  <2>4. AppTypes(u)
    BY <1>1, <1>4, <1>5, <1>6, <2>3 DEF AppTypes, Yes
  <2>5. OutApp(u, u.pair, ok)
    BY <1>1, <2>3 DEF OutApp
  <2>6. InApp(u, u.pair, ok)
    BY <1>1, <1>4, <1>5, <1>6, <2>1, <2>3 DEF InApp, IsFinished, Yes
  <2>7. OutChain(u, t.peer, u.pair, nt, rm, ty)
    BY <1>1, <2>3 DEF OutChain
  <2>8. InChain(u, t.peer, u.pair, nt, rm)
    <3>1. (s.stdout.printed \o q) \o << >> = s.stdout.printed \o q
      BY <1>3, NothingMore
    <3> QED
      BY <3>1, <1>1, <1>4, <1>5, <2>3 DEF InChain
  <2>9. CopyGood(u, t, nt, rm, ty, ok)
    <3>1. Sound(s, t, s.pair, nt, rm, ty, ok)
      BY DEF CopyGood
    <3>2. Sound(u, t, u.pair, nt, rm, ty, ok)
      BY <3>1, <2>3, <2>4, <2>5, <2>6, <2>7, <2>8 DEF Sound
    <3> QED
      BY <1>1, <2>3, <3>2 DEF CopyGood
  <2>10. CopyOnward(s, u)
    BY <1>5, <2>3 DEF CopyOnward, Yes
  <2>11. u.output.closed \/ ~CopyInterest(OutputRule, u)
    BY <1>5, <1>6, <2>1, <2>3, CopyInterests DEF IsFinished
  <2> QED
    BY <2>9, <2>10, <2>11 DEF u
<1> QED
  BY <1>8, <1>9

(***************************************************************************)
(* What is cancelled ends a stream: the outbound stream, when the standard *)
(* input is at its end, or the pipe is shut down both ways ...             *)
(***************************************************************************)
LEMMA OutboundCancelled ==
    ASSUME NEW s, NEW t, NEW nt, NEW rm, NEW ty, NEW ok, CopyGood(s, t, nt, rm, ty, ok),
           NEW rule \in {InputRule, OutboundRule},
           ok => s.stdin.end # "open" /\ s.stdin.unread = << >>
    PROVE  LET u == CopyCancel(rule, s)
           IN  /\ CopyGood(u, t, nt, rm, ty, ok) /\ CopyOnward(s, u) /\ u.killed = s.killed
               /\ u.outbound.closed /\ u.stdout = s.stdout /\ u.pair = s.pair /\ u.inbound = s.inbound
<1> DEFINE out == CloseStream(s.outbound)
           u == Put(s, "outbound", out)
<1>1. /\ IsRecord(s, CopyFields) /\ s.killed \in BOOLEAN /\ (s.killed => ~ok)
      /\ AppTypes(s) /\ OutApp(s, s.pair, ok) /\ InApp(s, s.pair, ok)
      /\ OutChain(s, t.peer, s.pair, nt, rm, ty) /\ InChain(s, t.peer, s.pair, nt, rm)
  BY DEF CopyGood, Sound
<1>2. /\ out \in Stream /\ out.buf = s.outbound.buf /\ out.closed
      /\ out.capacity = s.outbound.capacity /\ out.error = s.outbound.error
  BY <1>1, CloseFields DEF AppTypes
<1>3. "outbound" \in CopyFields
  BY DEF CopyFields, AppFields
<1>4. CopyCancel(rule, s) = u
  BY Zenon DEF CopyCancel, Put
<1> HIDE DEF out
<1>5. IsRecord(u, CopyFields) /\ u["outbound"] = out /\ \A g \in CopyFields \ {"outbound"} : u[g] = s[g]
  BY <1>1, <1>3, PutOne
<1> HIDE DEF u
<1>6. /\ u.killed = s.killed /\ u.pair = s.pair
      /\ u.outbound = out /\ u.inbound = s.inbound /\ u.outbound_shutdown = s.outbound_shutdown
      /\ u.inbound_shutdown = s.inbound_shutdown /\ u.socket = s.socket /\ u.input = s.input
      /\ u.output = s.output /\ u.stdin = s.stdin /\ u.stdout = s.stdout
  BY <1>5 DEF CopyFields, AppFields
<1>7. AppTypes(u) /\ OutApp(u, u.pair, ok) /\ InApp(u, u.pair, ok)
  BY <1>1, <1>2, <1>6 DEF AppTypes, OutApp, InApp, IsFinished
<1>8. OutChain(u, t.peer, u.pair, nt, rm, ty) /\ InChain(u, t.peer, u.pair, nt, rm)
  BY <1>1, <1>2, <1>6 DEF OutChain, InChain
<1>9. Sound(u, t, u.pair, nt, rm, ty, ok)
  <2>1. Sound(s, t, s.pair, nt, rm, ty, ok)
    BY DEF CopyGood
  <2> QED
    BY <2>1, <1>6, <1>7, <1>8 DEF Sound
<1>10. CopyGood(u, t, nt, rm, ty, ok) /\ CopyOnward(s, u)
  BY <1>1, <1>2, <1>5, <1>6, <1>9 DEF CopyGood, CopyOnward
<1> QED
  BY <1>2, <1>4, <1>6, <1>10

(***************************************************************************)
(* ... and both streams have failed, when the standard output has.         *)
(***************************************************************************)
LEMMA OutputFailed ==
    ASSUME NEW s, NEW t, NEW nt, NEW rm, NEW ty, NEW ok, CopyGood(s, t, nt, rm, ty, ok),
           s.stdout.broken
    PROVE  LET u == CopyCancel(OutputRule, CopyError(OutputRule, s))
           IN  CopyGood(u, t, nt, rm, ty, ok) /\ CopyOnward(s, u) /\ u.killed = s.killed /\ ~ok
<1> DEFINE out == SetError(s.outbound)
           failed == SetError(s.inbound)
           w == Put(Put(s, "outbound", out), "inbound", failed)
           in == CloseStream(failed)
           u == Put(w, "inbound", in)
<1>1. /\ IsRecord(s, CopyFields) /\ s.killed \in BOOLEAN /\ (s.killed => ~ok) /\ ok \in BOOLEAN
      /\ AppTypes(s) /\ OutApp(s, s.pair, ok) /\ InApp(s, s.pair, ok)
      /\ OutChain(s, t.peer, s.pair, nt, rm, ty) /\ InChain(s, t.peer, s.pair, nt, rm)
  BY DEF CopyGood, Sound
<1>2. ~ok
  BY <1>1 DEF InApp
<1>3. /\ out \in Stream /\ out.buf = s.outbound.buf
      /\ out.capacity = s.outbound.capacity /\ out.closed = s.outbound.closed
  BY <1>1, ErrorFields DEF AppTypes
<1>4. /\ failed \in Stream /\ failed.buf = s.inbound.buf
      /\ failed.capacity = s.inbound.capacity /\ failed.closed = s.inbound.closed
  BY <1>1, ErrorFields DEF AppTypes
<1> HIDE DEF failed
<1>5. /\ in \in Stream /\ in.buf = s.inbound.buf
      /\ in.capacity = s.inbound.capacity /\ in.closed
  BY <1>4, CloseFields
<1>6. "outbound" \in CopyFields /\ "inbound" \in CopyFields \ {"outbound"} /\ "inbound" \in CopyFields
  BY DEF CopyFields, AppFields
<1> HIDE DEF out, in
<1>7. /\ IsRecord(w, CopyFields) /\ w["outbound"] = out /\ w["inbound"] = failed
      /\ \A g \in CopyFields \ {"outbound", "inbound"} : w[g] = s[g]
  BY <1>1, <1>6, PutTwo
<1>8. CopyCancel(OutputRule, CopyError(OutputRule, s)) = u
  <2>1. CopyError(OutputRule, s) = w
    BY Zenon DEF CopyError, Put, w, out, failed
  <2>2. CopyCancel(OutputRule, w) = [w EXCEPT !.inbound = CloseStream(w.inbound)]
    <3> HIDE DEF w
    <3> QED
      BY RulesDiffer DEF CopyCancel
  <2>3. w.inbound = failed
    BY <1>7
  <2> HIDE DEF w
  <2> QED
    BY <2>1, <2>2, <2>3 DEF Put, in
<1> HIDE DEF w
<1>9. /\ IsRecord(u, CopyFields) /\ u["inbound"] = in
      /\ \A g \in CopyFields \ {"inbound"} : u[g] = w[g]
  BY <1>6, <1>7, PutOne
<1> HIDE DEF u
<1>10. /\ u.killed = s.killed /\ u.pair = s.pair
       /\ u.outbound = out /\ u.inbound = in /\ u.outbound_shutdown = s.outbound_shutdown
       /\ u.inbound_shutdown = s.inbound_shutdown /\ u.socket = s.socket /\ u.input = s.input
       /\ u.output = s.output /\ u.stdin = s.stdin /\ u.stdout = s.stdout
  BY <1>7, <1>9 DEF CopyFields, AppFields
<1>11. AppTypes(u) /\ OutApp(u, u.pair, ok) /\ InApp(u, u.pair, ok)
  BY <1>1, <1>2, <1>3, <1>5, <1>10 DEF AppTypes, OutApp, InApp, IsFinished
<1>12. OutChain(u, t.peer, u.pair, nt, rm, ty) /\ InChain(u, t.peer, u.pair, nt, rm)
  BY <1>1, <1>3, <1>5, <1>10 DEF OutChain, InChain
<1>13. Sound(u, t, u.pair, nt, rm, ty, ok)
  <2>1. Sound(s, t, s.pair, nt, rm, ty, ok)
    BY DEF CopyGood
  <2> QED
    BY <2>1, <1>10, <1>11, <1>12 DEF Sound
<1>14. CopyGood(u, t, nt, rm, ty, ok) /\ CopyOnward(s, u)
  BY <1>1, <1>2, <1>3, <1>5, <1>9, <1>10, <1>13 DEF CopyGood, CopyOnward
<1> QED
  BY <1>2, <1>8, <1>10, <1>14

-----------------------------------------------------------------------------
(***************************************************************************)
(* The socket's loop: what its callbacks keep, and what nobody takes back. *)
(***************************************************************************)
TCPGood(s, a, rm, ty, ok) ==
    /\ IsRecord(s, TCPFields)
    /\ s.killed \in BOOLEAN /\ (s.killed => ~ok)
    /\ Sound(a, s, s.pair, s.net, rm, ty, ok)

TCPOnward(s, u) ==
    /\ s.pair.shut \subseteq u.pair.shut
    /\ Len(u.pair.to["tcp"]) <= Len(s.pair.to["tcp"])
    /\ s.pair.to["app"] # << >> => u.pair.to["app"] # << >>
    /\ s.peer.syn = "acked" => u.peer.syn = "acked"

(***************************************************************************)
(* What PeerPush sends goes from the front of the outbound stream to the   *)
(* end of what is in flight, and fills the window or ends the stream.      *)
(***************************************************************************)
LEMMA PeerPushMoves ==
    ASSUME NEW p \in Peers, Filling(p)
    PROVE  LET u == PeerPush(p)
           IN  /\ u \in Peers /\ Filling(u) /\ NotIdle(u)
               /\ u.in = p.in /\ u.syn = p.syn
               /\ u.out.capacity = p.out.capacity /\ u.out.error = p.out.error
               /\ u.out.closed = p.out.closed
               /\ u.fin = "acked" <=> p.fin = "acked"
               /\ p.fin # "unsent" => u.fin # "unsent"
               /\ \E x \in Seq(Byte) : u.flight = p.flight \o x /\ p.out.buf = x \o u.out.buf
<1> DEFINE n == Lesser(Window - Len(p.flight), Len(p.out.buf))
           x == SubSeq(p.out.buf, 1, n)
           ends == p.fin = "unsent" /\ p.out.closed /\ n = Len(p.out.buf) /\ Len(p.flight) + n < Window
           flight == p.flight \o x
           out == PopBytes(p.out, n)
           fin == IF ends THEN "sent" ELSE p.fin
           u == [p EXCEPT !.flight = flight, !.out = out, !.fin = fin]
<1>1. /\ p.flight \in Seq(Byte) /\ p.out \in Stream /\ p.out.buf \in Seq(Byte)
      /\ p.fin \in {"unsent", "sent", "acked"} /\ p.syn \in {"unsent", "sent", "acked"}
  BY DEF Peers, Stream
<1>2. Len(p.flight) \in Nat /\ Len(p.out.buf) \in Nat /\ Window \in Nat /\ Len(p.flight) <= Window
  BY <1>1, LenIsNat, SocketAssumption DEF Filling
<1>3. /\ n \in 0 .. Len(p.out.buf) /\ n <= Window - Len(p.flight)
      /\ (Len(p.flight) + n < Window => n = Len(p.out.buf))
  <2> DEFINE room == Window - Len(p.flight)
             len  == Len(p.out.buf)
  <2>1. room \in Nat /\ len \in Nat /\ n = Lesser(room, len)
    BY <1>2
  <2>2. Len(p.flight) + n < Window => n < room
    <3>1. n \in Int
      BY <2>1 DEF Lesser
    <3> HIDE DEF n
    <3> QED
      BY <1>2, <3>1
  <2> HIDE DEF n, room, len
  <2>3. n \in 0 .. len /\ n <= room /\ (n < room => n = len)
    BY <2>1 DEF Lesser
  <2> QED
    BY <2>2, <2>3 DEF room, len
<1>4. CASE p.syn # "acked"
  <2>1. PeerPush(p) = p
    BY <1>4 DEF PeerPush
  <2>2. p.flight \o << >> = p.flight /\ << >> \o p.out.buf = p.out.buf /\ << >> \in Seq(Byte)
    BY <1>1, NothingMore
  <2>3. NotIdle(p)
    BY <1>4 DEF NotIdle
  <2>4. \E y \in Seq(Byte) : p.flight = p.flight \o y /\ p.out.buf = y \o p.out.buf
    BY <2>2
  <2> QED
    BY <2>1, <2>3, <2>4
<1>5. CASE p.syn = "acked"
  <2>1. PeerPush(p) = u
    BY <1>5, Zenon DEF PeerPush
  <2>2. /\ x \in Seq(Byte) /\ Len(x) = n
        /\ SubSeq(p.out.buf, n + 1, Len(p.out.buf)) \in Seq(Byte)
        /\ Len(SubSeq(p.out.buf, n + 1, Len(p.out.buf))) = Len(p.out.buf) - n
        /\ x \o SubSeq(p.out.buf, n + 1, Len(p.out.buf)) = p.out.buf
    <3> DEFINE q == p.out.buf
    <3>1. q \in Seq(Byte) /\ n \in 0 .. Len(q)
      BY <1>1, <1>3
    <3> HIDE DEF n, q
    <3>2. /\ SubSeq(q, 1, n) \in Seq(Byte) /\ SubSeq(q, n + 1, Len(q)) \in Seq(Byte)
          /\ Len(SubSeq(q, 1, n)) = n /\ Len(SubSeq(q, n + 1, Len(q))) = Len(q) - n
          /\ SubSeq(q, 1, n) \o SubSeq(q, n + 1, Len(q)) = q
      BY <3>1, CutInTwo
    <3> QED
      BY <3>2 DEF q
  <2>3. /\ out \in Stream /\ out.buf = SubSeq(p.out.buf, n + 1, Len(p.out.buf))
        /\ out.capacity = p.out.capacity /\ out.error = p.out.error /\ out.closed = p.out.closed
    BY <1>1, <1>3, PopFields
  <2>4. flight \in Seq(Byte) /\ Len(flight) = Len(p.flight) + n
    <3> HIDE DEF n, x
    <3> QED
      BY <1>1, <2>2, ConcatProperties
  <2>5. out.buf = << >> <=> n = Len(p.out.buf)
    <3>1. out.buf = << >> <=> Len(out.buf) = 0
      BY <2>2, <2>3, EmptySeq
    <3>2. Len(out.buf) = Len(p.out.buf) - n
      BY <2>2, <2>3
    <3> HIDE DEF out, n
    <3> QED
      BY <3>1, <3>2, <1>2, <1>3
  <2>6. p.out.buf = << >> => n = Len(p.out.buf)
    BY <1>3, EmptySeq
  <2>7. fin \in {"unsent", "sent", "acked"} /\ (fin = "acked" <=> p.fin = "acked")
        /\ (p.fin # "unsent" => fin # "unsent")
    BY <1>1
  <2>8. fin # "unsent" => out.closed /\ out.buf = << >>
    <3>1. CASE ends
      BY <3>1, <2>3, <2>5
    <3>2. CASE ~ends
      <4>1. fin = p.fin
        BY <3>2
      <4> HIDE DEF fin, out, n, ends
      <4> QED
        BY <4>1, <2>3, <2>5, <2>6 DEF Filling, IsFinished
    <3> QED
      BY <3>1, <3>2
  <2>9. out.closed /\ out.buf = << >> /\ fin = "unsent" => Len(flight) = Window
    <3> SUFFICES ASSUME out.closed, out.buf = << >>, fin = "unsent" PROVE Len(flight) = Window
      OBVIOUS
    <3>1. ~ends /\ p.fin = "unsent"
      BY <1>1
    <3>2. n = Len(p.out.buf) /\ p.out.closed
      BY <2>3, <2>5
    <3>3. ~(Len(p.flight) + n < Window)
      BY <3>1, <3>2
    <3> HIDE DEF n, flight
    <3> QED
      BY <3>3, <1>2, <1>3, <2>4
  <2> HIDE DEF fin, out, flight
  <2>10. /\ u \in Peers /\ u.flight = flight /\ u.out = out /\ u.fin = fin
         /\ u.in = p.in /\ u.syn = p.syn
    BY <2>3, <2>4, <2>7 DEF Peers
  <2> HIDE DEF u
  <2>11. Filling(u)
    <3>1. Len(flight) <= Window
      <4> HIDE DEF n
      <4> QED
        BY <1>2, <1>3, <2>4
    <3> QED
      BY <3>1, <1>5, <2>8, <2>10 DEF Filling, IsFinished
  <2>12. NotIdle(u)
    BY <2>9, <2>10 DEF NotIdle, IsFinished
  <2>13. u.flight = p.flight \o x /\ p.out.buf = x \o u.out.buf
    BY <2>2, <2>3, <2>10 DEF flight
  <2> QED
    BY <2>1, <2>2, <2>3, <2>7, <2>10, <2>11, <2>12, <2>13
<1> QED
  BY <1>1, <1>4, <1>5

(***************************************************************************)
(* What a segment does to the peer before it answers: the first part of    *)
(* PeerReceive.                                                            *)
(***************************************************************************)
Heard(p, seg) ==
    [p EXCEPT !.idle = FALSE, !.linger = @ /\ ~(p.in.closed /\ ~IsFinished(p.out)),
              !.in.buf = @ \o seg.data, !.in.pushed = @ + Len(seg.data),
              !.in.closed = @ \/ seg.fin,
              !.syn = IF seg.syn /\ @ = "unsent" THEN "sent" ELSE @]

(***************************************************************************)
(* What a segment does to the peer's inbound side: its bytes are added,    *)
(* its end closes the stream, its SYN is answered.                         *)
(***************************************************************************)
LEMMA HeardFields ==
    ASSUME NEW p \in Peers, NEW seg \in Segments
    PROVE  LET u == Heard(p, seg)
           IN  /\ u \in Peers /\ u.out = p.out /\ u.flight = p.flight /\ u.fin = p.fin
               /\ u.in.buf = p.in.buf \o seg.data
               /\ u.in.capacity = p.in.capacity /\ u.in.error = p.in.error
               /\ u.in.closed <=> p.in.closed \/ seg.fin
               /\ u.syn = IF seg.syn /\ p.syn = "unsent" THEN "sent" ELSE p.syn
<1> DEFINE linger == p.linger /\ ~(p.in.closed /\ ~IsFinished(p.out))
           buf    == p.in.buf \o seg.data
           pushed == p.in.pushed + Len(seg.data)
           closed == p.in.closed \/ seg.fin
           syn    == IF seg.syn /\ p.syn = "unsent" THEN "sent" ELSE p.syn
           in     == [p.in EXCEPT !.buf = buf, !.pushed = pushed, !.closed = closed]
           u      == [p EXCEPT !.idle = FALSE, !.linger = linger, !.in = in, !.syn = syn]
<1>1. /\ p.in \in Stream /\ p.in.buf \in Seq(Byte) /\ p.in.pushed \in Nat /\ seg.data \in Seq(Byte)
      /\ p.syn \in {"unsent", "sent", "acked"}
  BY DEF Peers, Stream, Segments
<1>2. buf \in Seq(Byte) /\ pushed \in Nat
  BY <1>1, ConcatProperties, LenIsNat
<1>3. /\ linger \in BOOLEAN /\ closed \in BOOLEAN /\ (closed <=> p.in.closed \/ seg.fin)
      /\ syn \in {"unsent", "sent", "acked"}
  BY <1>1
<1>4. Heard(p, seg) = u
  BY <1>1 DEF Heard, Stream, Peers
<1> HIDE DEF linger, buf, pushed, closed, syn
<1>5. /\ in \in Stream /\ in.buf = buf /\ in.closed = closed
      /\ in.capacity = p.in.capacity /\ in.error = p.in.error
  BY <1>1, <1>2, <1>3 DEF Stream
<1> HIDE DEF in
<1>6. /\ u \in Peers /\ u.in = in /\ u.syn = syn /\ u.out = p.out /\ u.flight = p.flight /\ u.fin = p.fin
  BY <1>3, <1>5 DEF Peers
<1> QED
  BY <1>3, <1>4, <1>5, <1>6 DEF buf, syn

(***************************************************************************)
(* An acknowledgement takes away the front of what was in flight.          *)
(***************************************************************************)
LEMMA AcknowledgedFields ==
    ASSUME NEW p \in Peers, NEW nt \in Segments, Filling(p)
    PROVE  LET u == Acknowledged(p, nt.acks)
           IN  /\ u \in Peers /\ u.out = p.out /\ u.in = p.in
               /\ u.flight = Fresh(p, nt) /\ Filling(u)
               /\ u.syn = IF SynAcked(p, nt) = 1 THEN "acked" ELSE p.syn
               /\ p.fin # "unsent" => u.fin # "unsent"
               /\ u.fin = "acked" => p.fin = "acked" \/ nt.acks - SynAcked(p, nt) > Len(p.flight)
<1> DEFINE syns   == SynAcked(p, nt)
           bytes  == Lesser(nt.acks - syns, Len(p.flight))
           syn    == IF syns = 1 THEN "acked" ELSE p.syn
           flight == SubSeq(p.flight, bytes + 1, Len(p.flight))
           fin    == IF p.fin = "sent" /\ nt.acks > syns + bytes THEN "acked" ELSE p.fin
           u      == [p EXCEPT !.syn = syn, !.flight = flight, !.fin = fin]
<1>1. /\ p.flight \in Seq(Byte) /\ Len(p.flight) \in Nat /\ nt.acks \in Nat /\ syns \in 0 .. 1
      /\ p.syn \in {"unsent", "sent", "acked"} /\ p.fin \in {"unsent", "sent", "acked"}
  BY LenIsNat DEF Peers, Segments, SynAcked
<1>2. Acknowledged(p, nt.acks) = u
  BY Zenon DEF Acknowledged, SynAcked
<1> HIDE DEF syns
<1>3. bytes \in Int /\ (nt.acks > syns + bytes => nt.acks - syns > Len(p.flight))
  BY <1>1 DEF Lesser
<1> HIDE DEF bytes
<1>4. bytes \in 0 .. Len(p.flight) /\ Fresh(p, nt) = flight /\ flight \in Seq(Byte)
  BY <1>1, <1>3, FreshType DEF bytes, syns
<1>5. Len(flight) <= Len(p.flight) /\ (p.flight = << >> => flight = << >>)
  <2>1. Len(flight) = Len(p.flight) - bytes
    BY <1>1, <1>4, SuffixProperties
  <2>2. p.flight = << >> => Len(p.flight) = 0
    BY EmptySeq
  <2>3. flight = << >> <=> Len(flight) = 0
    BY <1>4, EmptySeq
  <2> HIDE DEF flight
  <2> QED
    BY <1>1, <1>4, <2>1, <2>2, <2>3
<1>6. /\ fin \in {"unsent", "sent", "acked"} /\ syn \in {"unsent", "sent", "acked"}
      /\ p.fin # "unsent" => fin # "unsent"
      /\ p.fin = "unsent" => fin = "unsent"
      /\ fin = "acked" => p.fin = "acked" \/ nt.acks - syns > Len(p.flight)
      /\ syn # "acked" => p.syn # "acked"
  BY <1>1, <1>3
<1> HIDE DEF flight, fin, syn
<1>7. u \in Peers /\ u.out = p.out /\ u.in = p.in /\ u.flight = flight /\ u.syn = syn /\ u.fin = fin
  BY <1>4, <1>6 DEF Peers
<1> HIDE DEF u
<1>8. Filling(u)
  <2>1. Len(flight) <= Window
    <3>1. Len(flight) \in Nat /\ Window \in Nat /\ Len(p.flight) <= Window
      BY <1>4, LenIsNat, SocketAssumption DEF Filling
    <3> QED
      BY <3>1, <1>1, <1>5
  <2>2. syn # "acked" => flight = << >> /\ fin = "unsent"
    BY <1>5, <1>6 DEF Filling
  <2>3. fin # "unsent" => IsFinished(p.out)
    BY <1>6 DEF Filling
  <2> QED
    BY <1>7, <2>1, <2>2, <2>3 DEF Filling
<1> QED
  BY <1>2, <1>4, <1>6, <1>7, <1>8 DEF syn, syns

(***************************************************************************)
(* Once there is no segment, all that is in flight is fresh.               *)
(***************************************************************************)
LEMMA NothingAcked ==
    ASSUME NEW p, p.flight \in Seq(Byte), NEW nt, nt.acks = 0
    PROVE  Fresh(p, nt) = p.flight /\ SynAcked(p, nt) = 0 /\ ~(nt.acks - SynAcked(p, nt) > Len(p.flight))
<1>1. Len(p.flight) \in Nat
  BY LenIsNat
<1>2. SynAcked(p, nt) = 0
  BY DEF SynAcked
<1>3. Lesser(0, Len(p.flight)) = 0
  BY <1>1 DEF Lesser
<1>4. nt.acks - SynAcked(p, nt) = 0
  BY <1>2
<1>5. Fresh(p, nt) = SubSeq(p.flight, 1, Len(p.flight))
  BY <1>3, <1>4 DEF Fresh
<1>6. Fresh(p, nt) = p.flight
  BY <1>5, SubSeqFull
<1> QED
  BY <1>1, <1>2, <1>4, <1>6

(***************************************************************************)
(* A segment that arrives at an active peer: bytes of its payload join the *)
(* inbound stream, bytes that it acknowledges are in flight no more, and   *)
(* what the window lets through then is sent.                              *)
(***************************************************************************)
LEMMA PeerReceiveFields ==
    ASSUME NEW p \in Peers, NEW nt \in Segments, Filling(p), NotIdle(p), Active(p),
           nt.syn \/ nt.rst => nt.acks = 0
    PROVE  LET u == PeerReceive(p, nt)
           IN  /\ u \in Peers /\ Filling(u) /\ NotIdle(u)
               /\ u.in.buf = p.in.buf \o nt.data /\ u.in.capacity = p.in.capacity
               /\ u.in.closed <=> p.in.closed \/ nt.fin
               /\ u.out.capacity = p.out.capacity /\ u.out.closed = p.out.closed
               /\ ~nt.rst => u.in.error = p.in.error /\ u.out.error = p.out.error
               /\ p.syn = "acked" => u.syn = "acked"
               /\ u.fin = "acked" => p.fin = "acked" \/ nt.acks - SynAcked(p, nt) > Len(p.flight)
               /\ \E x \in Seq(Byte) : u.flight = Fresh(p, nt) \o x /\ p.out.buf = x \o u.out.buf
<1> DEFINE h == Heard(p, nt)
           u == PeerReceive(p, nt)
<1>1. /\ h \in Peers /\ h.out = p.out /\ h.flight = p.flight /\ h.fin = p.fin
      /\ h.in.buf = p.in.buf \o nt.data
      /\ h.in.capacity = p.in.capacity /\ h.in.error = p.in.error
      /\ h.in.closed <=> p.in.closed \/ nt.fin
      /\ h.syn = IF nt.syn /\ p.syn = "unsent" THEN "sent" ELSE p.syn
  BY HeardFields
<1>2. u = IF nt.rst THEN [h EXCEPT !.in.error = TRUE, !.out.error = TRUE]
          ELSE PeerPush(Acknowledged(h, nt.acks))
  BY Zenon DEF PeerReceive, Heard
<1>3. nt.acks \in Nat /\ p.flight \in Seq(Byte) /\ p.out \in Stream /\ p.out.buf \in Seq(Byte)
  BY DEF Segments, Peers, Stream
<1> HIDE DEF h, u
<1>4. SynAcked(h, nt) = SynAcked(p, nt)
  BY <1>1, <1>3 DEF SynAcked
<1>5. Fresh(h, nt) = Fresh(p, nt)
  BY <1>1, <1>4 DEF Fresh
<1>6. Filling(h)
  BY <1>1 DEF Filling
<1>7. CASE nt.rst
  <2> DEFINE in == [h.in EXCEPT !.error = Yes]
             out == [h.out EXCEPT !.error = Yes]
             r == [h EXCEPT !.in = in, !.out = out]
  <2>1. u = r
    BY <1>2, <1>7 DEF Yes
  <2>2. h.in \in Stream /\ h.out \in Stream
    BY <1>1 DEF Peers
  <2>3. /\ in \in Stream /\ in.buf = h.in.buf /\ in.capacity = h.in.capacity /\ in.closed = h.in.closed
        /\ out \in Stream /\ out.buf = h.out.buf /\ out.capacity = h.out.capacity /\ out.closed = h.out.closed
    BY <2>2 DEF Stream, Yes
  <2> HIDE DEF in, out
  <2>4. /\ u \in Peers /\ u.in = in /\ u.out = out
        /\ u.flight = h.flight /\ u.syn = h.syn /\ u.fin = h.fin
    BY <1>1, <2>1, <2>3 DEF Peers
  <2>5. Filling(u)
    BY <1>6, <2>3, <2>4 DEF Filling, IsFinished
  <2>6. NotIdle(u)
    BY <1>1, <2>3, <2>4 DEF NotIdle, IsFinished
  <2>7. Fresh(p, nt) = p.flight
    BY <1>3, <1>7, NothingAcked
  <2>8. p.flight \o << >> = p.flight /\ << >> \o p.out.buf = p.out.buf /\ << >> \in Seq(Byte)
    BY <1>3, NothingMore
  <2>9. \E x \in Seq(Byte) : u.flight = Fresh(p, nt) \o x /\ p.out.buf = x \o u.out.buf
    BY <1>1, <2>3, <2>4, <2>7, <2>8
  <2> QED
    BY <1>1, <1>7, <2>3, <2>4, <2>5, <2>6, <2>9 DEF u
<1>8. CASE ~nt.rst
  <2> DEFINE k == Acknowledged(h, nt.acks)
  <2>1. /\ k \in Peers /\ k.out = h.out /\ k.in = h.in
        /\ k.flight = Fresh(p, nt) /\ Filling(k)
        /\ k.syn = IF SynAcked(p, nt) = 1 THEN "acked" ELSE h.syn
        /\ k.fin = "acked" => p.fin = "acked" \/ nt.acks - SynAcked(p, nt) > Len(p.flight)
    BY <1>1, <1>4, <1>5, <1>6, AcknowledgedFields
  <2>2. u = PeerPush(k)
    BY <1>2, <1>8
  <2> HIDE DEF k
  <2>3. /\ u \in Peers /\ Filling(u) /\ NotIdle(u)
        /\ u.in = k.in /\ u.syn = k.syn
        /\ u.out.capacity = k.out.capacity /\ u.out.error = k.out.error
        /\ u.out.closed = k.out.closed
        /\ u.fin = "acked" <=> k.fin = "acked"
        /\ \E x \in Seq(Byte) : u.flight = k.flight \o x /\ k.out.buf = x \o u.out.buf
    BY <2>1, <2>2, PeerPushMoves
  <2> QED
    BY <1>1, <2>1, <2>3 DEF u
<1> QED
  BY <1>7, <1>8

(***************************************************************************)
(* The callback of the rule for segments.                                  *)
(***************************************************************************)
LEMMA ReceivedGood ==
    ASSUME NEW s, NEW a, NEW rm, NEW ty, NEW ok, TCPGood(s, a, rm, ty, ok), Active(s.peer)
    PROVE  LET u == Received(s)
           IN  TCPGood(u, a, rm, ty, ok) /\ TCPOnward(s, u) /\ u.killed = s.killed
<1> DEFINE p == s.peer
           nt == s.net
           q == PeerReceive(p, nt)
           u == Put(Put(s, "peer", q), "net", NoSegment)
<1>1. /\ IsRecord(s, TCPFields) /\ s.killed \in BOOLEAN /\ (s.killed => ~ok)
      /\ AppTypes(a) /\ TCPTypes(s) /\ s.pair \in Pipes /\ nt \in Segments /\ rm \in Remotes
      /\ ty \in Nat /\ ok \in BOOLEAN
      /\ OutApp(a, s.pair, ok) /\ InApp(a, s.pair, ok)
      /\ OutTCP(s, s.pair) /\ InTCP(s, s.pair, nt, rm, ok)
      /\ Filling(p) /\ NotIdle(p) /\ Answers(p, nt, rm)
      /\ OutChain(a, p, s.pair, nt, rm, ty) /\ InChain(a, p, s.pair, nt, rm)
  BY DEF TCPGood, Sound
<1>2. p \in Peers
  BY <1>1 DEF TCPTypes
<1>3. /\ q \in Peers /\ Filling(q) /\ NotIdle(q)
      /\ q.in.buf = p.in.buf \o nt.data /\ q.in.capacity = p.in.capacity
      /\ q.in.closed <=> p.in.closed \/ nt.fin
      /\ q.out.capacity = p.out.capacity /\ q.out.closed = p.out.closed
      /\ ~nt.rst => q.in.error = p.in.error /\ q.out.error = p.out.error
      /\ p.syn = "acked" => q.syn = "acked"
      /\ q.fin = "acked" => p.fin = "acked" \/ nt.acks - SynAcked(p, nt) > Len(p.flight)
      /\ \E x \in Seq(Byte) : q.flight = Fresh(p, nt) \o x /\ p.out.buf = x \o q.out.buf
  <2>1. nt.syn \/ nt.rst => nt.acks = 0
    BY <1>1 DEF Answers
  <2> HIDE DEF p, nt
  <2>2. Active(p)
    BY DEF p
  <2> QED
    BY <1>1, <1>2, <2>1, <2>2, PeerReceiveFields
<1>4. Received(s) = u
  BY Zenon DEF Received, Put
<1> HIDE DEF q
<1>5. /\ IsRecord(u, TCPFields) /\ u.peer = q /\ u.net = NoSegment /\ u.pair = s.pair /\ u.killed = s.killed
      /\ u.thread_data = s.thread_data /\ u.inbound_shutdown = s.inbound_shutdown
      /\ u.outbound_shutdown = s.outbound_shutdown
  <2>1. "peer" \in TCPFields /\ "net" \in TCPFields \ {"peer"}
    BY DEF TCPFields, SockFields
  <2>2. /\ IsRecord(u, TCPFields) /\ u["peer"] = q /\ u["net"] = NoSegment
        /\ \A g \in TCPFields \ {"peer", "net"} : u[g] = s[g]
    BY <1>1, <2>1, PutTwo
  <2> HIDE DEF u
  <2> QED
    BY <2>2 DEF TCPFields, SockFields
<1> HIDE DEF u
<1>6. /\ NoSegment \in Segments /\ NoSegment.acks = 0 /\ NoSegment.data = << >>
      /\ ~NoSegment.syn /\ ~NoSegment.rst /\ ~NoSegment.fin
  <2>1. << >> \in Seq(Byte)
    OBVIOUS
  <2> QED
    BY <2>1 DEF NoSegment, Segments
<1>7. TCPTypes(u)
  BY <1>1, <1>3, <1>5 DEF TCPTypes
<1>8. OutTCP(u, u.pair)
  BY <1>1, <1>3, <1>5 DEF OutTCP
<1>9. InTCP(u, u.pair, u.net, rm, ok)
  <2>1. p.in.closed /\ p.in.buf = << >> => q.in.buf = << >>
    <3>1. p.in.closed => nt.data = << >>
      BY <1>1 DEF InTCP
    <3>2. << >> \o << >> = << >>
      BY NothingMore
    <3> QED
      BY <1>3, <3>1, <3>2
  <2> QED
    BY <1>1, <1>3, <1>5, <1>6, <2>1 DEF InTCP, IsFinished
<1>10. q.flight \in Seq(Byte)
  BY <1>3 DEF Peers
<1>11. /\ Fresh(q, NoSegment) = q.flight
       /\ ~(NoSegment.acks - SynAcked(q, NoSegment) > Len(q.flight))
  BY <1>6, <1>10, NothingAcked
<1>12. Answers(u.peer, u.net, rm)
  BY <1>1, <1>3, <1>5, <1>6, <1>11 DEF Answers
<1>13. OutChain(a, u.peer, u.pair, u.net, rm, ty)
  <2>1. /\ rm.got \in Seq(Byte) /\ Fresh(p, nt) \in Seq(Byte) /\ p.out.buf \in Seq(Byte)
        /\ rm.got \o Fresh(p, nt) \in Seq(Byte)
    <3> HIDE DEF p, nt
    <3> QED
      BY <1>1, <1>2, ChainTypes
  <2>2. q.out.buf \in Seq(Byte)
    BY <1>3 DEF Peers, Stream
  <2>3. PICK x \in Seq(Byte) : q.flight = Fresh(p, nt) \o x /\ p.out.buf = x \o q.out.buf
    BY <1>3
  <2> DEFINE fresh == Fresh(p, nt)
             g == rm.got
             b == q.out.buf
  <2>4. (g \o (fresh \o x)) \o b = (g \o fresh) \o (x \o b)
    <3> HIDE DEF fresh, g, b
    <3>1. g \o (fresh \o x) = (g \o fresh) \o x
      BY <2>1, Regroup DEF g, fresh
    <3>2. ((g \o fresh) \o x) \o b = (g \o fresh) \o (x \o b)
      BY <2>1, <2>2, Regroup DEF g, fresh, b
    <3> QED
      BY <3>1, <3>2
  <2>5. (rm.got \o q.flight) \o q.out.buf = (rm.got \o Fresh(p, nt)) \o p.out.buf
    BY <2>3, <2>4
  <2> QED
    BY <1>1, <1>5, <1>11, <2>5 DEF OutChain
<1>14. InChain(a, u.peer, u.pair, u.net, rm)
  <2> DEFINE x == (a.stdout.printed \o a.inbound.buf) \o s.pair.to["app"]
             b == p.in.buf
             d == nt.data
  <2>1. x \in Seq(Byte) /\ b \in Seq(Byte) /\ d \in Seq(Byte)
    <3> HIDE DEF p, nt
    <3> QED
      BY <1>1, <1>2, ChainTypes DEF x, b, d
  <2>2. (x \o (b \o d)) \o << >> = (x \o b) \o d
    <3> HIDE DEF x, b, d
    <3>1. x \o (b \o d) = (x \o b) \o d /\ b \o d \in Seq(Byte)
      BY <2>1, Regroup, ConcatProperties
    <3>2. x \o (b \o d) \in Seq(Byte)
      BY <2>1, <3>1, ConcatProperties
    <3> QED
      BY <3>1, <3>2, NothingMore
  <2>3. BytesFrom(101, rm.sent) = (x \o b) \o d
    BY <1>1 DEF InChain
  <2> HIDE DEF x
  <2>4. BytesFrom(101, rm.sent) = (x \o u.peer.in.buf) \o u.net.data
    BY <1>3, <1>5, <1>6, <2>2, <2>3
  <2> QED
    BY <1>5, <2>4 DEF InChain, x
<1>15. TCPGood(u, a, rm, ty, ok)
  <2>1. Sound(a, u, u.pair, u.net, rm, ty, ok)
    BY <1>1, <1>3, <1>5, <1>6, <1>7, <1>8, <1>9, <1>12, <1>13, <1>14 DEF Sound
  <2> QED
    BY <1>1, <1>5, <2>1 DEF TCPGood
<1>16. TCPOnward(s, u)
  <2>1. Len(s.pair.to["tcp"]) \in Nat
    BY <1>1, LenIsNat DEF Pipes, PipeEnds
  <2> QED
    BY <1>3, <1>5, <2>1 DEF TCPOnward
<1> QED
  BY <1>4, <1>5, <1>15, <1>16

(***************************************************************************)
(* What is sent while a segment waits is fresh: the segment cannot         *)
(* acknowledge it.                                                         *)
(***************************************************************************)
LEMMA FreshGrows ==
    ASSUME NEW p, NEW u, NEW x \in Seq(Byte), NEW nt \in Segments,
           p.flight \in Seq(Byte), u.flight = p.flight \o x, u.syn = p.syn,
           ~(nt.acks - SynAcked(p, nt) > Len(p.flight))
    PROVE  /\ Fresh(u, nt) = Fresh(p, nt) \o x
           /\ SynAcked(u, nt) = SynAcked(p, nt)
           /\ ~(nt.acks - SynAcked(u, nt) > Len(u.flight))
<1> DEFINE f == p.flight
           m == nt.acks - SynAcked(p, nt)
           front == SubSeq(f, 1, m)
           rest == SubSeq(f, m + 1, Len(f))
           tail == SubSeq(f \o x, m + 1, Len(f \o x))
<1>1. SynAcked(u, nt) = SynAcked(p, nt)
  BY DEF SynAcked
<1>2. nt.acks \in Nat /\ Len(f) \in Nat /\ Len(x) \in Nat
  BY LenIsNat DEF Segments
<1>3. m \in Nat /\ m <= Len(f) /\ m \in 0 .. Len(f)
  <2>1. SynAcked(p, nt) \in 0 .. nt.acks
    BY <1>2 DEF SynAcked
  <2> QED
    BY <1>2, <2>1
<1> HIDE DEF f
<1>4. f \in Seq(Byte) /\ u.flight = f \o x
  BY DEF f
<1>5. f \o x \in Seq(Byte) /\ Len(f \o x) = Len(f) + Len(x)
  BY <1>4, ConcatProperties
<1>6. Lesser(m, Len(f)) = m /\ Lesser(m, Len(f \o x)) = m
  <2> HIDE DEF m
  <2> QED
    BY <1>2, <1>3, <1>5 DEF Lesser
<1>7. Fresh(p, nt) = rest
  BY <1>6 DEF Fresh, f
<1>8. Fresh(u, nt) = tail
  BY <1>1, <1>4, <1>6 DEF Fresh
<1> HIDE DEF m
<1>9. tail = rest \o x
  <2> DEFINE long == f \o x
             both == rest \o x
  <2>1. /\ rest \in Seq(Byte) /\ Len(rest) = Len(f) - m
        /\ \A i \in 1 .. Len(f) - m : rest[i] = f[m + i]
    BY <1>3, <1>4, SuffixProperties
  <2> HIDE DEF rest
  <2>2. /\ long \in Seq(Byte) /\ Len(long) = Len(f) + Len(x)
        /\ \A i \in 1 .. Len(f) + Len(x) : long[i] = IF i <= Len(f) THEN f[i] ELSE x[i - Len(f)]
    BY <1>4, ConcatProperties
  <2>3. /\ both \in Seq(Byte) /\ Len(both) = Len(rest) + Len(x)
        /\ \A i \in 1 .. Len(rest) + Len(x) :
              both[i] = IF i <= Len(rest) THEN rest[i] ELSE x[i - Len(rest)]
    BY <2>1, ConcatProperties
  <2>4. tail = SubSeq(long, m + 1, Len(long))
    OBVIOUS
  <2> HIDE DEF long, both, tail
  <2>5. m \in 0 .. Len(long) /\ Len(long) - m = Len(f) + Len(x) - m
    BY <1>2, <1>3, <2>2
  <2>6. /\ tail \in Seq(Byte) /\ Len(tail) = Len(f) + Len(x) - m
        /\ \A i \in 1 .. Len(f) + Len(x) - m : tail[i] = long[m + i]
    BY <2>2, <2>4, <2>5, SuffixProperties
  <2>7. Len(both) = Len(f) + Len(x) - m /\ Len(rest) = Len(f) - m
    BY <1>2, <1>3, <2>1, <2>3
  <2>8. ASSUME NEW i \in 1 .. Len(tail) PROVE tail[i] = both[i]
    <3>1. /\ i \in Nat /\ 1 <= i /\ i <= Len(f) + Len(x) - m
          /\ i \in 1 .. Len(f) + Len(x) - m /\ m + i \in 1 .. Len(f) + Len(x)
      BY <1>2, <1>3, <2>6
    <3>2. PICK j \in 1 .. Len(f) + Len(x) : j = m + i
      BY <3>1
    <3>3. tail[i] = long[j]
      BY <2>6, <3>1, <3>2
    <3>4. long[j] = IF j <= Len(f) THEN f[j] ELSE x[j - Len(f)]
      BY <2>2
    <3>5. i \in 1 .. Len(rest) + Len(x)
      BY <1>2, <1>3, <2>7, <3>1
    <3>6. both[i] = IF i <= Len(rest) THEN rest[i] ELSE x[i - Len(rest)]
      BY <2>3, <3>5
    <3>7. (i <= Len(rest) <=> j <= Len(f)) /\ i - Len(rest) = j - Len(f)
      BY <1>2, <1>3, <2>7, <3>1, <3>2
    <3>8. i <= Len(rest) => rest[i] = f[j]
      BY <1>2, <1>3, <2>1, <2>7, <3>1, <3>2
    <3> QED
      BY <3>3, <3>4, <3>6, <3>7, <3>8
  <2>9. tail = both
    BY <2>3, <2>6, <2>7, <2>8, SeqEqual
  <2> QED
    BY <2>9 DEF both
<1>10. ~(m > Len(u.flight))
  BY <1>2, <1>3, <1>4, <1>5
<1> QED
  BY <1>1, <1>7, <1>8, <1>9, <1>10 DEF m

(***************************************************************************)
(* The callback of the rule that pushes: bytes move from the pipe into the *)
(* outbound stream, or its end is found, and the peer sends.               *)
(***************************************************************************)
LEMMA PushedGood ==
    ASSUME NEW s, NEW a, NEW rm, NEW ty, NEW ok, TCPGood(s, a, rm, ty, ok),
           ~s.peer.out.closed, AvailableCapacity(s.peer.out) > 0,
           s.pair.to["tcp"] # << >> \/ "tcp" \in s.pair.shut
    PROVE  LET u == Pushed(s)
           IN  TCPGood(u, a, rm, ty, ok) /\ TCPOnward(s, u) /\ u.killed = s.killed
<1> DEFINE p == s.peer
           nt == s.net
           room == AvailableCapacity(p.out)
           q == s.pair.to["tcp"]
           data == ReadBytes(q, room)
           fd == AfterRead(s.thread_data, data)
           n == Len(data)
           pr == TakePair(s.pair, "tcp", n)
           out == AfterData(p.out, data, fd)
           filled == [p EXCEPT !.out = out]
           peer == PeerPush(filled)
           shut == s.outbound_shutdown \/ fd.eof
           u == Put(Put(Put(Put(s, "pair", pr), "thread_data", fd), "outbound_shutdown", shut), "peer", peer)
<1>1. /\ IsRecord(s, TCPFields) /\ s.killed \in BOOLEAN /\ (s.killed => ~ok)
      /\ AppTypes(a) /\ TCPTypes(s) /\ s.pair \in Pipes /\ nt \in Segments /\ rm \in Remotes
      /\ ty \in Nat /\ ok \in BOOLEAN
      /\ OutApp(a, s.pair, ok) /\ InApp(a, s.pair, ok)
      /\ OutTCP(s, s.pair) /\ InTCP(s, s.pair, nt, rm, ok)
      /\ Filling(p) /\ NotIdle(p) /\ Answers(p, nt, rm)
      /\ OutChain(a, p, s.pair, nt, rm, ty) /\ InChain(a, p, s.pair, nt, rm)
  BY DEF TCPGood, Sound
<1>2. /\ p \in Peers /\ p.out \in Stream /\ p.out.buf \in Seq(Byte) /\ p.flight \in Seq(Byte)
      /\ q \in Seq(Byte) /\ s.thread_data \in FileDescriptors
  <2>1. p \in Peers /\ s.thread_data \in FileDescriptors
    BY <1>1 DEF TCPTypes
  <2> QED
    BY <1>1, <2>1 DEF Peers, Stream, Pipes, PipeEnds
<1>3. room \in Nat \ {0}
  <2>1. p.out.capacity \in Nat /\ Len(p.out.buf) \in Nat
    BY <1>2, LenIsNat DEF Stream
  <2> QED
    BY <2>1 DEF AvailableCapacity
<1>4. /\ data \in Seq(Byte) /\ n \in 0 .. Len(q) /\ n <= room
      /\ data = SubSeq(q, 1, n)
      /\ data = << >> <=> q = << >>
  BY <1>2, <1>3, ReadIsFront
<1> HIDE DEF data
<1>5. fd \in FileDescriptors /\ fd.closed = s.thread_data.closed /\ (fd.eof <=> s.thread_data.eof \/ data = << >>)
  BY <1>2, <1>4, FileDescriptorFields
<1>6. ~s.thread_data.eof /\ ~s.thread_data.closed /\ ~s.outbound_shutdown
  BY <1>1 DEF OutTCP
<1> HIDE DEF fd
<1>7. /\ out \in Stream /\ out.buf = p.out.buf \o data
      /\ out.capacity = p.out.capacity /\ out.error = p.out.error /\ (out.closed <=> fd.eof)
  BY <1>2, <1>4, AfterDataFields
<1>8. /\ pr \in Pipes /\ pr.shut = s.pair.shut
      /\ pr.to["tcp"] = SubSeq(q, n + 1, Len(q)) /\ pr.to["app"] = s.pair.to["app"]
  <2>1. "tcp" \in PipeEnds /\ "app" \in PipeEnds \ {"tcp"}
    BY DEF PipeEnds
  <2> HIDE DEF n
  <2> QED
    BY <1>1, <1>4, <2>1, TakeFields
<1>9. shut \in BOOLEAN /\ (shut <=> fd.eof)
  BY <1>5, <1>6 DEF FileDescriptors
<1>10. Pushed(s) = u
  <2>1. out = IF fd.eof THEN CloseStream(PushBytes(p.out, data)) ELSE PushBytes(p.out, data)
    BY DEF AfterData
  <2>2. Pushed(s) =
            [s EXCEPT !.pair = TakePair(@, "tcp", Len(data)), !.thread_data = fd,
                      !.outbound_shutdown = @ \/ fd.eof,
                      !.peer = PeerPush([@ EXCEPT !.out = IF fd.eof THEN CloseStream(PushBytes(p.out, data))
                                                          ELSE PushBytes(p.out, data)])]
    BY Zenon DEF Pushed, fd, data, room, q
  <2> HIDE DEF out
  <2>3. Pushed(s) = [s EXCEPT !.pair = pr, !.thread_data = fd, !.outbound_shutdown = shut, !.peer = peer]
    BY <2>1, <2>2, Zenon
  <2> HIDE DEF pr, shut, peer
  <2> QED
    BY <2>3, Zenon DEF Put
<1> HIDE DEF out
<1>11. /\ filled \in Peers /\ filled.out = out /\ filled.in = p.in /\ filled.flight = p.flight
       /\ filled.syn = p.syn /\ filled.fin = p.fin
  BY <1>2, <1>7 DEF Peers
<1> HIDE DEF filled
<1>12. p.fin = "unsent" /\ Filling(filled)
  BY <1>1, <1>11 DEF Filling, IsFinished
<1>13. PICK x \in Seq(Byte) :
       /\ peer \in Peers /\ Filling(peer) /\ NotIdle(peer)
       /\ peer.in = p.in /\ peer.syn = p.syn
       /\ peer.out.capacity = p.out.capacity /\ peer.out.error = p.out.error
       /\ peer.out.closed <=> fd.eof
       /\ peer.fin # "acked"
       /\ peer.flight = p.flight \o x /\ out.buf = x \o peer.out.buf
  <2>1. /\ peer \in Peers /\ Filling(peer) /\ NotIdle(peer)
        /\ peer.in = filled.in /\ peer.syn = filled.syn
        /\ peer.out.capacity = filled.out.capacity /\ peer.out.error = filled.out.error
        /\ peer.out.closed = filled.out.closed
        /\ peer.fin = "acked" <=> filled.fin = "acked"
        /\ \E x \in Seq(Byte) : peer.flight = filled.flight \o x /\ filled.out.buf = x \o peer.out.buf
    BY <1>11, <1>12, PeerPushMoves
  <2> HIDE DEF peer
  <2>2. PICK x \in Seq(Byte) : peer.flight = filled.flight \o x /\ filled.out.buf = x \o peer.out.buf
    BY <2>1
  <2>3. /\ peer.in = p.in /\ peer.syn = p.syn
        /\ peer.out.capacity = p.out.capacity /\ peer.out.error = p.out.error
        /\ peer.out.closed <=> fd.eof
        /\ peer.fin # "acked"
    BY <1>7, <1>11, <1>12, <2>1
  <2>4. peer.flight = p.flight \o x /\ out.buf = x \o peer.out.buf
    BY <1>11, <2>2
  <2> HIDE DEF p
  <2> QED
    BY <2>1, <2>3, <2>4
<1> HIDE DEF peer, pr, shut
<1>14. /\ IsRecord(u, TCPFields) /\ u.peer = peer /\ u.net = nt /\ u.pair = pr /\ u.killed = s.killed
       /\ u.thread_data = fd /\ u.inbound_shutdown = s.inbound_shutdown /\ u.outbound_shutdown = shut
  <2>1. /\ "pair" \in TCPFields /\ "thread_data" \in TCPFields \ {"pair"}
        /\ "outbound_shutdown" \in TCPFields \ {"pair", "thread_data"}
        /\ "peer" \in TCPFields \ {"pair", "thread_data", "outbound_shutdown"}
    BY DEF TCPFields, SockFields
  <2>2. /\ IsRecord(u, TCPFields) /\ u["pair"] = pr /\ u["thread_data"] = fd
        /\ u["outbound_shutdown"] = shut /\ u["peer"] = peer
        /\ \A g \in TCPFields \ {"pair", "thread_data", "outbound_shutdown", "peer"} : u[g] = s[g]
    BY <1>1, <2>1, PutFour
  <2> HIDE DEF u
  <2> QED
    BY <2>2 DEF TCPFields, SockFields
<1> HIDE DEF u
<1>15. TCPTypes(u)
  BY <1>1, <1>5, <1>9, <1>13, <1>14 DEF TCPTypes
<1>16. fd.eof => q = << >> /\ "tcp" \in s.pair.shut
  BY <1>4, <1>5, <1>6
<1>17. q = << >> => SubSeq(q, n + 1, Len(q)) = << >>
  <2> SUFFICES ASSUME q = << >> PROVE SubSeq(q, n + 1, Len(q)) = << >>
    OBVIOUS
  <2>1. Len(q) = 0 /\ n = 0
    BY <1>4
  <2> HIDE DEF n
  <2> QED
    BY <2>1, SubSeqEmpty
<1>18. OutTCP(u, u.pair)
  BY <1>5, <1>6, <1>8, <1>9, <1>13, <1>14, <1>16, <1>17 DEF OutTCP
<1>19. InTCP(u, u.pair, u.net, rm, ok)
  BY <1>1, <1>8, <1>13, <1>14 DEF InTCP
<1>20. OutApp(a, u.pair, ok) /\ InApp(a, u.pair, ok)
  BY <1>1, <1>8, <1>14 DEF OutApp, InApp
<1>21. ~(nt.acks - SynAcked(p, nt) > Len(p.flight))
  BY <1>1, <1>12 DEF Answers
<1>22. /\ Fresh(peer, nt) = Fresh(p, nt) \o x
       /\ ~(nt.acks - SynAcked(peer, nt) > Len(peer.flight))
  <2> HIDE DEF p, nt
  <2> QED
    BY <1>1, <1>2, <1>13, <1>21, FreshGrows
<1>23. Answers(u.peer, u.net, rm)
  BY <1>1, <1>13, <1>14, <1>22 DEF Answers
<1>24. OutChain(a, u.peer, u.pair, u.net, rm, ty)
  <2> DEFINE g == rm.got \o Fresh(p, nt)
             c == p.out.buf
             b == peer.out.buf
             r == SubSeq(q, n + 1, Len(q))
  <2>1. g \in Seq(Byte) /\ rm.got \in Seq(Byte) /\ Fresh(p, nt) \in Seq(Byte) /\ c \in Seq(Byte)
    <3> HIDE DEF p, nt
    <3> QED
      BY <1>1, <1>2, ChainTypes DEF g, c
  <2>2. b \in Seq(Byte)
    BY <1>13 DEF Peers, Stream
  <2>3. (rm.got \o (Fresh(p, nt) \o x)) \o b = g \o (c \o data)
    <3> DEFINE fresh == Fresh(p, nt)
               got == rm.got
    <3>1. x \o b = c \o data
      BY <1>7, <1>13
    <3> HIDE DEF fresh, got, b, c, p
    <3>2. got \o (fresh \o x) = (got \o fresh) \o x
      BY <2>1, Regroup DEF fresh, got
    <3>3. got \o fresh \in Seq(Byte)
      BY <2>1 DEF fresh, got
    <3>4. ((got \o fresh) \o x) \o b = (got \o fresh) \o (x \o b)
      BY <2>2, <3>3, Regroup
    <3> QED
      BY <3>1, <3>2, <3>4 DEF fresh, got
  <2>4. (g \o (c \o SubSeq(q, 1, n))) \o r = (g \o c) \o q
    <3> HIDE DEF g, c
    <3> QED
      BY <2>1, <1>2, <1>4, MovesOn
  <2>5. BytesFrom(1, ty) = (((g \o c) \o q) \o a.outbound.buf) \o a.stdin.unread
    BY <1>1 DEF OutChain
  <2> HIDE DEF g
  <2>6. ((rm.got \o Fresh(u.peer, u.net)) \o u.peer.out.buf) \o u.pair.to["tcp"] = (g \o c) \o q
    BY <1>4, <1>8, <1>14, <1>22, <2>3, <2>4
  <2> QED
    BY <2>5, <2>6 DEF OutChain
<1>25. InChain(a, u.peer, u.pair, u.net, rm)
  BY <1>1, <1>8, <1>13, <1>14 DEF InChain
<1>26. TCPGood(u, a, rm, ty, ok)
  <2>1. Sound(a, u, u.pair, u.net, rm, ty, ok)
    BY <1>1, <1>8, <1>13, <1>14, <1>15, <1>18, <1>19, <1>20, <1>23, <1>24, <1>25 DEF Sound
  <2> QED
    BY <1>1, <1>14, <2>1 DEF TCPGood
<1>27. TCPOnward(s, u)
  <2>1. Len(SubSeq(q, n + 1, Len(q))) <= Len(q)
    <3>1. Len(q) \in Nat
      BY <1>2, LenIsNat
    <3> HIDE DEF n, q
    <3>2. Len(SubSeq(q, n + 1, Len(q))) = Len(q) - n
      BY <1>2, <1>4, SuffixProperties
    <3> QED
      BY <1>4, <3>1, <3>2
  <2> QED
    BY <1>8, <1>13, <1>14, <2>1 DEF TCPOnward
<1> QED
  BY <1>10, <1>14, <1>26, <1>27

(***************************************************************************)
(* The callback of the rule for the inbound stream: bytes move into the    *)
(* pipe, and after the last one, or an error, the socket shuts its         *)
(* direction down.  If it does neither, the rule has no interest.          *)
(***************************************************************************)
LEMMA DeliveredGood ==
    ASSUME NEW s, NEW a, NEW rm, NEW ty, NEW ok, TCPGood(s, a, rm, ty, ok), ~s.killed
    PROVE  LET u == Delivered(s)
           IN  /\ TCPGood(u, a, rm, ty, ok) /\ TCPOnward(s, u)
               /\ \/ s.peer.in.buf # << >> \/ IsFinished(s.peer.in) \/ s.peer.in.error
                  \/ ~TCPInterest(InboundRule, u)
<1> DEFINE p == s.peer
           nt == s.net
           room == Room(s.pair, "tcp")
           q == p.in.buf
           data == SubSeq(q, 1, Lesser(room, Len(q)))
           n == Len(data)
           pr == WritePair(s.pair, "tcp", data)
           in == PopBytes(p.in, n)
           peer == Put(p, "in", in)
           wrote == Put(Put(s, "pair", pr), "peer", peer)
           ended == Put(Put(wrote, "pair", ShutWrite(pr, "tcp")), "inbound_shutdown", Yes)
           u == Delivered(s)
<1>1. /\ IsRecord(s, TCPFields) /\ s.killed \in BOOLEAN /\ (s.killed => ~ok)
      /\ AppTypes(a) /\ TCPTypes(s) /\ s.pair \in Pipes /\ nt \in Segments /\ rm \in Remotes
      /\ ty \in Nat /\ ok \in BOOLEAN
      /\ OutApp(a, s.pair, ok) /\ InApp(a, s.pair, ok)
      /\ OutTCP(s, s.pair) /\ InTCP(s, s.pair, nt, rm, ok)
      /\ Filling(p) /\ NotIdle(p) /\ Answers(p, nt, rm)
      /\ OutChain(a, p, s.pair, nt, rm, ty) /\ InChain(a, p, s.pair, nt, rm)
  BY DEF TCPGood, Sound
<1>2. /\ p \in Peers /\ p.in \in Stream /\ q \in Seq(Byte)
      /\ s.pair.to["tcp"] \in Seq(Byte) /\ s.pair.to["app"] \in Seq(Byte)
  <2>1. p \in Peers
    BY <1>1 DEF TCPTypes
  <2> QED
    BY <1>1, <2>1 DEF Peers, Stream, Pipes, PipeEnds
<1>3. room \in Int
  <2>1. Len(s.pair.to["app"]) \in Nat /\ PipeCapacity \in Nat
    BY <1>2, LenIsNat, DescriptorAssumption
  <2> QED
    BY <2>1, OtherEnds DEF Room
<1> HIDE DEF room
<1>4. /\ data \in Seq(Byte) /\ n \in 0 .. Len(q) /\ data = SubSeq(q, 1, n)
      /\ data = << >> <=> n = 0
      /\ data # << >> => q # << >>
  BY <1>2, <1>3, FrontFits
<1>5. /\ pr \in Pipes /\ pr.shut = s.pair.shut
      /\ pr.to["app"] = s.pair.to["app"] \o data /\ pr.to["tcp"] = s.pair.to["tcp"]
  <2> HIDE DEF data
  <2> QED
    BY <1>1, <1>4, WriteFields
<1>6. /\ in \in Stream /\ in.buf = SubSeq(q, n + 1, Len(q))
      /\ in.capacity = p.in.capacity /\ in.error = p.in.error /\ in.closed = p.in.closed
  BY <1>2, <1>4, PopFields
<1>7. q = << >> => in.buf = << >> /\ data = << >>
  <2> SUFFICES ASSUME q = << >> PROVE SubSeq(q, n + 1, Len(q)) = << >> /\ data = << >>
    BY <1>6
  <2>1. n = 0 /\ Len(q) = 0 /\ data = << >>
    BY <1>4
  <2> HIDE DEF n
  <2> QED
    BY <2>1, SubSeqEmpty
<1>8. MayWrite(s.pair, "tcp") <=> "app" \notin s.pair.shut
  BY OtherEnds DEF MayWrite
<1>9. peer \in Peers /\ peer.in = in /\ peer.out = p.out /\ peer.flight = p.flight
      /\ peer.syn = p.syn /\ peer.fin = p.fin
  <2> HIDE DEF in
  <2> QED
    BY <1>2, <1>6 DEF Peers, Put
<1>10. u = IF data # << >> /\ ~MayWrite(s.pair, "tcp") THEN Put(s, "killed", Yes)
           ELSE IF IsFinished(in) \/ in.error THEN ended ELSE wrote
  <2>1. wrote.peer = peer /\ wrote.pair = pr
    <3>1. "pair" \in TCPFields /\ "peer" \in TCPFields \ {"pair"}
      BY DEF TCPFields, SockFields
    <3> HIDE DEF pr, peer
    <3> QED
      BY <1>1, <3>1, PutTwo
  <2> DEFINE w == [s EXCEPT !.pair = WritePair(@, "tcp", data), !.peer.in = PopBytes(@, n)]
  <2>2. w = wrote
    BY Zenon DEF Put
  <2>3. u = IF data # << >> /\ ~MayWrite(s.pair, "tcp") THEN [s EXCEPT !.killed = TRUE]
            ELSE IF IsFinished(w.peer.in) \/ w.peer.in.error
            THEN [w EXCEPT !.pair = ShutWrite(@, "tcp"), !.inbound_shutdown = TRUE]
            ELSE w
    BY Zenon DEF Delivered, room
  <2>4. [w EXCEPT !.pair = ShutWrite(@, "tcp"), !.inbound_shutdown = TRUE]
            = Put(Put(w, "pair", ShutWrite(w.pair, "tcp")), "inbound_shutdown", Yes)
    BY Zenon DEF Put, Yes
  <2>5. Put(s, "killed", Yes) = [s EXCEPT !.killed = TRUE]
    BY DEF Put, Yes
  <2>6. peer.in = in
    BY <1>9
  <2> HIDE DEF w, wrote, in, pr, u, data, peer
  <2> QED
    BY <2>1, <2>2, <2>3, <2>4, <2>5, <2>6
<1> HIDE DEF u, data
<1>11. CASE data # << >> /\ "app" \in s.pair.shut
  <2>1. u = Put(s, "killed", Yes)
    BY <1>8, <1>10, <1>11
  <2>2. q # << >> /\ ~ok
    BY <1>1, <1>4, <1>11 DEF InTCP, IsFinished
  <2>3. "killed" \in TCPFields
    BY DEF TCPFields, SockFields
  <2>4. IsRecord(u, TCPFields) /\ u["killed"] = Yes /\ \A g \in TCPFields \ {"killed"} : u[g] = s[g]
    BY <1>1, <2>1, <2>3, PutOne
  <2>5. /\ u.killed = Yes /\ u.peer = s.peer /\ u.pair = s.pair /\ u.net = s.net
        /\ u.thread_data = s.thread_data /\ u.inbound_shutdown = s.inbound_shutdown
        /\ u.outbound_shutdown = s.outbound_shutdown
    BY <2>4 DEF TCPFields, SockFields
  <2>6. Sound(a, s, s.pair, s.net, rm, ty, ok)
    BY DEF TCPGood
  <2>7. Sound(a, u, u.pair, u.net, rm, ty, ok)
    BY <2>5, <2>6 DEF Sound, TCPTypes, OutTCP, InTCP
  <2>8. TCPGood(u, a, rm, ty, ok)
    BY <2>2, <2>4, <2>5, <2>7 DEF TCPGood, Yes
  <2>9. TCPOnward(s, u)
    <3>1. Len(s.pair.to["tcp"]) \in Nat
      BY <1>2, LenIsNat
    <3> QED
      BY <2>5, <3>1 DEF TCPOnward
  <2> QED
    BY <2>2, <2>8, <2>9 DEF u
<1>12. CASE data = << >> \/ "app" \notin s.pair.shut
  <2>1. PICK last \in BOOLEAN : last <=> IsFinished(in) \/ in.error
    BY <1>6 DEF IsFinished, Stream
  <2>2. u = IF last THEN ended ELSE wrote
    <3> HIDE DEF ended, wrote, in
    <3> QED
      BY <1>8, <1>10, <1>12, <2>1
  <2>3. /\ IsRecord(u, TCPFields) /\ u.killed = s.killed /\ u.peer = peer /\ u.net = nt
        /\ u.thread_data = s.thread_data /\ u.outbound_shutdown = s.outbound_shutdown
        /\ u.pair = IF last THEN ShutWrite(pr, "tcp") ELSE pr
        /\ u.inbound_shutdown = IF last THEN Yes ELSE s.inbound_shutdown
    <3>1. /\ "pair" \in TCPFields /\ "peer" \in TCPFields \ {"pair"}
          /\ "inbound_shutdown" \in TCPFields \ {"pair"}
      BY DEF TCPFields, SockFields
    <3>2. /\ IsRecord(wrote, TCPFields) /\ wrote["pair"] = pr /\ wrote["peer"] = peer
          /\ \A g \in TCPFields \ {"pair", "peer"} : wrote[g] = s[g]
      <4> HIDE DEF pr, peer
      <4> QED
        BY <1>1, <3>1, PutTwo
    <3> DEFINE shut == ShutWrite(pr, "tcp")
    <3>3. /\ IsRecord(ended, TCPFields) /\ ended["pair"] = shut /\ ended["inbound_shutdown"] = Yes
          /\ \A g \in TCPFields \ {"pair", "inbound_shutdown"} : ended[g] = wrote[g]
      <4> HIDE DEF pr, peer, wrote, shut
      <4> QED
        BY <3>1, <3>2, PutTwo DEF shut
    <3> HIDE DEF ended, wrote, peer, pr, shut
    <3>4. CASE last
      BY <3>4, <2>2, <3>2, <3>3 DEF TCPFields, SockFields, shut
    <3>5. CASE ~last
      BY <3>5, <2>2, <3>2 DEF TCPFields, SockFields
    <3> QED
      BY <3>4, <3>5
  <2> HIDE DEF wrote, ended, pr, in, peer
  <2>4. /\ u.pair \in Pipes
        /\ u.pair.shut = IF last THEN s.pair.shut \cup {"app"} ELSE s.pair.shut
        /\ u.pair.to["app"] = s.pair.to["app"] \o data /\ u.pair.to["tcp"] = s.pair.to["tcp"]
    BY <1>5, <2>3, ShutFields
  <2>5. TCPTypes(u)
    BY <1>1, <1>6, <1>9, <2>3 DEF TCPTypes, Yes
  <2>6. OutApp(a, u.pair, ok) /\ OutTCP(u, u.pair)
    BY <1>1, <1>9, <2>3, <2>4 DEF OutApp, OutTCP
  <2>7. InApp(a, u.pair, ok)
    <3>1. ok /\ a.inbound.closed => data = << >>
      BY <1>1, <1>7 DEF InApp, InTCP, IsFinished
    <3>2. data = << >> => s.pair.to["app"] \o data = s.pair.to["app"]
      BY <1>2, NothingMore
    <3> QED
      BY <1>1, <2>4, <3>1, <3>2 DEF InApp
  <2>8. InTCP(u, u.pair, u.net, rm, ok)
    BY <1>1, <1>6, <1>7, <1>9, <2>1, <2>3, <2>4 DEF InTCP, IsFinished, Yes
  <2>9. Filling(u.peer) /\ NotIdle(u.peer) /\ Answers(u.peer, u.net, rm)
    BY <1>1, <1>9, <2>3 DEF Filling, NotIdle, Answers, SynAcked
  <2>10. OutChain(a, u.peer, u.pair, u.net, rm, ty)
    <3>1. Fresh(u.peer, u.net) = Fresh(p, nt)
      BY <1>9, <2>3 DEF Fresh, SynAcked
    <3> QED
      BY <1>1, <1>9, <2>3, <2>4, <3>1 DEF OutChain
  <2>11. InChain(a, u.peer, u.pair, u.net, rm)
    <3> DEFINE x == a.stdout.printed \o a.inbound.buf
               z == (x \o s.pair.to["app"]) \o q
    <3>1. x \in Seq(Byte)
      <4> HIDE DEF p, nt
      <4> QED
        BY <1>1, <1>2, ChainTypes
    <3>2. BytesFrom(101, rm.sent) = z \o nt.data
      BY <1>1 DEF InChain
    <3>3. (x \o (s.pair.to["app"] \o SubSeq(q, 1, n))) \o SubSeq(q, n + 1, Len(q)) = z
      <4> HIDE DEF x
      <4> QED
        BY <3>1, <1>2, <1>4, MovesOn
    <3> HIDE DEF z
    <3>4. (x \o u.pair.to["app"]) \o u.peer.in.buf = z
      BY <3>3, <1>4, <1>6, <1>9, <2>3, <2>4
    <3> QED
      BY <3>2, <3>4, <2>3 DEF InChain
  <2>12. TCPGood(u, a, rm, ty, ok)
    <3>1. Sound(a, u, u.pair, u.net, rm, ty, ok)
      BY <1>1, <2>3, <2>4, <2>5, <2>6, <2>7, <2>8, <2>9, <2>10, <2>11 DEF Sound
    <3> QED
      BY <1>1, <2>3, <3>1 DEF TCPGood
  <2>13. s.pair.to["app"] # << >> => s.pair.to["app"] \o data # << >>
    BY <1>2, <1>4, ConcatEqualIffEmpty
  <2>14. TCPOnward(s, u)
    <3>1. Len(s.pair.to["tcp"]) \in Nat
      BY <1>2, LenIsNat
    <3> QED
      BY <1>9, <2>3, <2>4, <2>13, <3>1 DEF TCPOnward
  <2>15. ASSUME q = << >>, ~IsFinished(p.in), ~p.in.error PROVE ~TCPInterest(InboundRule, u)
    <3>1. in.buf = << >> /\ ~IsFinished(in) /\ ~in.error
      BY <1>6, <1>7, <2>15 DEF IsFinished
    <3> QED
      BY <3>1, <1>9, <2>3, TCPInterests
  <2> QED
    BY <2>12, <2>14, <2>15 DEF u
<1> QED
  BY <1>11, <1>12

-----------------------------------------------------------------------------
(***************************************************************************)
(* What is left of the first k rules: some of them, in their order.        *)
(***************************************************************************)
Walked(rules, k, kept) ==
    /\ InOrder(kept)
    /\ \A i \in 1 .. Len(kept) : \E j \in 1 .. k : kept[i] = rules[j]

Stays(rule, kept) == \E i \in 1 .. Len(kept) : kept[i] = rule

(***************************************************************************)
(* The next rule stays, or goes.                                           *)
(***************************************************************************)
LEMMA RuleStays ==
    ASSUME NEW S, NEW rules \in Seq(S), InOrder(rules), NEW k \in 1 .. Len(rules),
           NEW kept \in Seq(S), Walked(rules, k - 1, kept)
    PROVE  LET r == Append(kept, rules[k])
           IN  /\ r \in Seq(S) /\ Len(r) = Len(kept) + 1 /\ Walked(rules, k, r)
               /\ Stays(rules[k], r)
               /\ \A rule : Stays(rule, kept) => Stays(rule, r)
<1> DEFINE r == Append(kept, rules[k])
           n == Len(kept)
<1>1. /\ r \in Seq(S) /\ Len(r) = n + 1 /\ n \in Nat /\ Len(rules) \in Nat
      /\ \A i \in 1 .. n : r[i] = kept[i]
      /\ r[n + 1] = rules[k]
  BY LenIsNat
<1> HIDE DEF r, n
<1>2. \A i \in 1 .. n + 1 : i \in 1 .. n \/ i = n + 1
  BY <1>1
<1>3. \A i \in 1 .. n : i \in 1 .. n + 1
  BY <1>1
<1>4. \A j \in 1 .. k - 1 : j \in 1 .. k /\ j < k /\ j \in 1 .. Len(rules)
  BY <1>1
<1>5. \A i \in 1 .. n : \E j \in 1 .. k - 1 : kept[i] = rules[j]
  BY DEF Walked, n
<1>6. \A i \in 1 .. n + 1 : \E j \in 1 .. k : r[i] = rules[j]
  <2> SUFFICES ASSUME NEW i \in 1 .. n + 1 PROVE \E j \in 1 .. k : r[i] = rules[j]
    OBVIOUS
  <2>1. CASE i \in 1 .. n
    BY <2>1, <1>1, <1>4, <1>5
  <2>2. CASE i = n + 1
    <3>1. k \in 1 .. k
      OBVIOUS
    <3> QED
      BY <2>2, <3>1, <1>1
  <2> QED
    BY <1>2, <2>1, <2>2
<1>7. ASSUME NEW i \in 1 .. n + 1, NEW j \in 1 .. n + 1, i < j PROVE Place(r[i]) < Place(r[j])
  <2>1. i \in 1 .. n
    BY <1>1, <1>7
  <2>2. CASE j \in 1 .. n
    BY <1>1, <1>7, <2>1, <2>2 DEF Walked, InOrder, n
  <2>3. CASE j = n + 1
    <3>1. PICK l \in 1 .. k - 1 : kept[i] = rules[l]
      BY <1>5, <2>1
    <3>2. Place(rules[l]) < Place(rules[k])
      BY <1>4 DEF InOrder
    <3> QED
      BY <3>1, <3>2, <2>1, <2>3, <1>1
  <2> QED
    BY <1>2, <2>2, <2>3
<1>8. Walked(rules, k, r)
  BY <1>1, <1>6, <1>7 DEF Walked, InOrder
<1>9. Stays(rules[k], r)
  <2>1. n + 1 \in 1 .. n + 1
    BY <1>1
  <2> QED
    BY <1>1, <2>1 DEF Stays
<1>10. \A rule : Stays(rule, kept) => Stays(rule, r)
  BY <1>1, <1>3 DEF Stays, n
<1> QED
  BY <1>1, <1>8, <1>9, <1>10 DEF r, n

(***************************************************************************)
(* A rule that is dropped lengthens the walked part and leaves the kept    *)
(* rules in order.                                                         *)
(***************************************************************************)
LEMMA RuleGoes ==
    ASSUME NEW rules, NEW k \in Nat \ {0}, NEW kept, Walked(rules, k - 1, kept)
    PROVE  Walked(rules, k, kept)
BY DEF Walked

\* before the first rule
LEMMA NoRules ==
    ASSUME NEW rules
    PROVE  << >> \in Seq(CopyRuleSet) /\ << >> \in Seq(TCPRuleSet) /\ Walked(rules, 0, << >>)
BY DEF Walked, InOrder

(***************************************************************************)
(* The owner's rules: a rule that is ready is served, and does something   *)
(* or has no interest afterwards.                                          *)
(***************************************************************************)
LEMMA CopyServed ==
    ASSUME NEW s, NEW t, NEW nt, NEW rm, NEW ty, NEW ok, CopyGood(s, t, nt, rm, ty, ok), ~s.killed,
           NEW rule \in CopyRuleSet, NEW r, CopyFacts(rule, r, s, s.pair), r.ready,
           NEW o \in CopyCallback(rule, s)
    PROVE  /\ CopyGood(o.s, t, nt, rm, ty, ok) /\ CopyOnward(s, o.s)
           /\ o.served \/ CopyClosed(rule, o.s) \/ ~CopyInterest(rule, o.s)
<1>1. CASE rule = InputRule
  <2>1. o.s = FromInput(s) /\ o.served
    BY <1>1, RulesDiffer DEF CopyCallback
  <2>2. /\ ~s.outbound.closed /\ AvailableCapacity(s.outbound) > 0
        /\ s.stdin.unread # << >> \/ s.stdin.end = "eof"
    BY <1>1 DEF CopyFacts
  <2> QED
    BY <2>1, <2>2, FromInputGood
<1>2. CASE rule = OutboundRule
  <2>1. o.s = ToSocket(s) /\ o.served = (ToSocket(s) # s)
    BY <1>2, RulesDiffer DEF CopyCallback
  <2>2. Len(s.pair.to["tcp"]) < PipeCapacity
    BY <1>2 DEF CopyFacts
  <2> QED
    BY <1>2, <2>1, <2>2, ToSocketGood
<1>3. CASE rule = SocketRule
  <2>1. o.s = FromSocket(s) /\ o.served
    BY <1>3, RulesDiffer DEF CopyCallback
  <2>2. /\ ~s.inbound.closed /\ AvailableCapacity(s.inbound) > 0
        /\ s.pair.to["app"] # << >> \/ "app" \in s.pair.shut
    BY <1>3 DEF CopyFacts
  <2> QED
    BY <2>1, <2>2, FromSocketGood
<1>4. CASE rule = OutputRule
  <2>1. o.s = ToOutput(s) /\ o.served = (s.inbound.buf # << >>)
    BY <1>4, RulesDiffer DEF CopyCallback
  <2>2. CopyClosed(rule, o.s) = o.s.output.closed
    BY <1>4, RulesDiffer DEF CopyClosed, DescriptorOf
  <2> QED
    BY <1>4, <2>1, <2>2, ToOutputGood
<1> QED
  BY <1>1, <1>2, <1>3, <1>4 DEF CopyRuleSet

(***************************************************************************)
(* A rule that an error or a hang-up takes away leaves what poll has said  *)
(* of the rules behind it.                                                 *)
(***************************************************************************)
LEMMA CopyTakenAway ==
    ASSUME NEW s, NEW t, NEW nt, NEW rm, NEW ty, NEW ok, CopyGood(s, t, nt, rm, ty, ok),
           NEW rule \in CopyRuleSet, NEW r, CopyFacts(rule, r, s, s.pair),
           NEW u, \/ r.err /\ u = CopyCancel(rule, CopyError(rule, s))
                  \/ ~r.err /\ CopyLoop!HungUp(rule, r) /\ u = CopyCancel(rule, s)
    PROVE  /\ CopyGood(u, t, nt, rm, ty, ok) /\ CopyOnward(s, u) /\ u.killed = s.killed
           /\ CopyGone(rule, u, u.pair, ok)
           /\ \A later \in CopyRuleSet : \A p :
                Place(rule) < Place(later) /\ CopyFacts(later, p, s, s.pair) => CopyFacts(later, p, u, u.pair)
<1>1. /\ Place(InputRule) = 1 /\ Place(OutboundRule) = 2 /\ Place(SocketRule) = 3 /\ Place(OutputRule) = 4
  BY RulesDiffer DEF Place
<1>2. OutApp(s, s.pair, ok) /\ s.pair \in Pipes
  BY DEF CopyGood, Sound
<1>3. CASE r.err
  <2>1. rule = OutputRule /\ s.stdout.broken /\ u = CopyCancel(OutputRule, CopyError(OutputRule, s))
    BY <1>3 DEF CopyFacts
  <2>2. CopyGood(u, t, nt, rm, ty, ok) /\ CopyOnward(s, u) /\ u.killed = s.killed /\ ~ok
    BY <2>1, OutputFailed
  <2>3. CopyGone(rule, u, u.pair, ok)
    BY <2>1, <2>2, RulesDiffer DEF CopyGone
  <2>4. \A later \in CopyRuleSet : ~(Place(rule) < Place(later))
    BY <1>1, <2>1 DEF CopyRuleSet
  <2> QED
    BY <2>2, <2>3, <2>4
<1>4. CASE ~r.err
  <2>1. CopyLoop!HungUp(rule, r) /\ u = CopyCancel(rule, s)
    BY <1>4
  <2>2. r.hup /\ ((r.events /\ ~r.ready) \/ rule.direction = "Out")
    BY <2>1 DEF CopyLoop!HungUp
  <2>3. rule \in {InputRule, OutboundRule}
    <3>1. rule # OutputRule
      BY <2>2 DEF CopyFacts
    <3>2. rule # SocketRule
      <4> SUFFICES ASSUME rule = SocketRule PROVE FALSE
        OBVIOUS
      <4>1. rule.direction = "In"
        BY Directions
      <4>2. ~(r.hup /\ r.events /\ ~r.ready)
        BY DEF CopyFacts
      <4> QED
        BY <2>2, <4>1, <4>2
    <3> QED
      BY <3>1, <3>2 DEF CopyRuleSet
  <2>4. ok => s.stdin.end # "open" /\ s.stdin.unread = << >>
    <3>1. CASE rule = InputRule
      <4>1. rule.direction = "In"
        BY <3>1, Directions
      <4>2. r.hup /\ r.events /\ ~r.ready
        BY <2>2, <4>1
      <4> QED
        BY <3>1, <4>2 DEF CopyFacts
    <3>2. CASE rule = OutboundRule
      <4>1. s.pair.shut = PipeEnds
        BY <2>2, <3>2 DEF CopyFacts
      <4>2. "tcp" \in s.pair.shut
        BY <4>1 DEF PipeEnds
      <4> QED
        BY <1>2, <4>2 DEF OutApp, IsFinished
    <3> QED
      BY <2>3, <3>1, <3>2
  <2>5. /\ CopyGood(u, t, nt, rm, ty, ok) /\ CopyOnward(s, u) /\ u.killed = s.killed
        /\ u.outbound.closed /\ u.stdout = s.stdout /\ u.pair = s.pair /\ u.inbound = s.inbound
    BY <2>1, <2>3, <2>4, OutboundCancelled
  <2>6. CopyGone(rule, u, u.pair, ok)
    <3>1. CASE rule = InputRule
      BY <3>1, <2>5, RulesDiffer DEF CopyGone
    <3>2. CASE rule = OutboundRule
      <4>1. u.pair.shut = PipeEnds
        BY <2>2, <2>5, <3>2 DEF CopyFacts
      <4> QED
        BY <3>2, <4>1, RulesDiffer DEF CopyGone
    <3> QED
      BY <2>3, <3>1, <3>2
  <2>7. \A later \in CopyRuleSet : Place(rule) < Place(later) => later # InputRule
    BY <1>1, <2>3 DEF CopyRuleSet
  <2>8. ASSUME NEW later \in CopyRuleSet, NEW p, later # InputRule, CopyFacts(later, p, s, s.pair)
        PROVE  CopyFacts(later, p, u, u.pair)
    BY <2>5, <2>8 DEF CopyFacts
  <2> QED
    BY <2>5, <2>6, <2>7, <2>8
<1> QED
  BY <1>3, <1>4

(***************************************************************************)
(* What holds after k rules have been visited.                             *)
(***************************************************************************)
Visiting == {"s", "rules", "served", "threw"}

CopyWalk(c, k, s, rules, revents, t, nt, rm, ty, ok) ==
    /\ IsRecord(c, Visiting) /\ c.threw = FALSE
    /\ CopyGood(c.s, t, nt, rm, ty, ok) /\ CopyOnward(s, c.s)
    /\ c.rules \in Seq(CopyRuleSet) /\ Walked(rules, k, c.rules)
    /\ \A j \in 1 .. k : Stays(rules[j], c.rules) \/ CopyGone(rules[j], c.s, c.s.pair, ok)
    /\ \/ c.served
       \/ /\ ~c.s.killed
          /\ \A j \in k + 1 .. Len(rules) : CopyFacts(rules[j], revents[j], c.s, c.s.pair)

(***************************************************************************)
(* What nobody takes back.                                                 *)
(***************************************************************************)
LEMMA OnwardOnward ==
    ASSUME NEW s, NEW u, NEW w, CopyOnward(s, u), CopyOnward(u, w)
    PROVE  CopyOnward(s, w)
BY DEF CopyOnward

(***************************************************************************)
(* A rule of the owner's loop that was dropped stays one that had to be:   *)
(* later callbacks do not bring its condition back.                        *)
(***************************************************************************)
LEMMA StaysGone ==
    ASSUME NEW rule, NEW s, NEW u, NEW ok, CopyOnward(s, u), u.pair \in Pipes, CopyGone(rule, s, s.pair, ok)
    PROVE  CopyGone(rule, u, u.pair, ok)
BY DEF CopyOnward, CopyGone, Pipes

(***************************************************************************)
(* One more rule is visited.                                               *)
(***************************************************************************)
LEMMA CopyVisit ==
    ASSUME NEW s, NEW rules \in Seq(CopyRuleSet), InOrder(rules), NEW revents,
           NEW t, NEW nt, NEW rm, NEW ty, NEW ok, NEW k \in 1 .. Len(rules),
           NEW c, CopyWalk(c, k - 1, s, rules, revents, t, nt, rm, ty, ok),
           NEW d \in CopyLoop!Visit(c, rules[k], revents[k])
    PROVE  CopyWalk(d, k, s, rules, revents, t, nt, rm, ty, ok)
<1> DEFINE rule == rules[k]
           p == revents[k]
           kept == Put(c, "rules", Append(c.rules, rule))
<1>1. rule \in CopyRuleSet /\ k \in Nat \ {0} /\ Len(rules) \in Nat /\ k <= Len(rules)
  BY LenIsNat
<1>2. /\ IsRecord(c, Visiting) /\ c.threw = FALSE
      /\ CopyGood(c.s, t, nt, rm, ty, ok) /\ CopyOnward(s, c.s)
      /\ c.rules \in Seq(CopyRuleSet) /\ Walked(rules, k - 1, c.rules)
      /\ \A j \in 1 .. k - 1 : Stays(rules[j], c.rules) \/ CopyGone(rules[j], c.s, c.s.pair, ok)
      /\ \/ c.served
         \/ /\ ~c.s.killed
            /\ \A j \in k .. Len(rules) : CopyFacts(rules[j], revents[j], c.s, c.s.pair)
  <2>1. (k - 1) + 1 = k
    BY <1>1
  <2> QED
    BY <2>1 DEF CopyWalk
<1>3. /\ {"s", "rules", "served", "threw"} = Visiting
      /\ "s" \in Visiting /\ "rules" \in Visiting /\ "served" \in Visiting /\ "threw" \in Visiting
      /\ "served" \in Visiting \ {"s"} /\ "threw" \in Visiting \ {"s", "served"}
  BY DEF Visiting
<1> DEFINE longer == Append(c.rules, rule)
<1>4. /\ longer \in Seq(CopyRuleSet) /\ Walked(rules, k, longer) /\ Stays(rule, longer)
      /\ \A r : Stays(r, c.rules) => Stays(r, longer)
  BY <1>2, RuleStays
<1> HIDE DEF longer
<1>5. /\ IsRecord(kept, Visiting) /\ kept.rules = longer /\ kept.s = c.s
      /\ kept.served = c.served /\ kept.threw = c.threw
  <2>1. kept = Put(c, "rules", longer)
    BY DEF longer
  <2> HIDE DEF kept
  <2>2. IsRecord(kept, Visiting) /\ kept["rules"] = longer /\ \A g \in Visiting \ {"rules"} : kept[g] = c[g]
    BY <1>2, <1>3, <2>1, PutOne
  <2> QED
    BY <2>2 DEF Visiting
<1>6. \A j \in 1 .. k : j \in 1 .. k - 1 \/ (j = k /\ rules[j] = rule)
  BY <1>1
<1>7. k \in k .. Len(rules) /\ \A j \in k + 1 .. Len(rules) : j \in k .. Len(rules) /\ k < j /\ j \in 1 .. Len(rules)
  BY <1>1
<1>8. CopyLoop!Visit(c, rule, p) =
          IF c.served THEN {kept}
          ELSE IF p.err THEN {Put(c, "s", CopyCancel(rule, CopyError(rule, c.s)))}
          ELSE IF CopyLoop!HungUp(rule, p) THEN {Put(c, "s", CopyCancel(rule, c.s))}
          ELSE IF ~p.ready THEN {kept}
          ELSE {[kept EXCEPT !.s = o.s, !.served = TRUE,
                             !.threw = ~o.served /\ ~CopyClosed(rule, o.s) /\ CopyInterest(rule, o.s)]
                  : o \in CopyCallback(rule, c.s)}
  BY Zenon DEF CopyLoop!Visit, Put
<1> HIDE DEF kept
<1>9. d \in CopyLoop!Visit(c, rule, p)
  OBVIOUS
<1> HIDE DEF rule, p
<1>10. ASSUME d = kept, c.served \/ ~p.ready PROVE CopyWalk(d, k, s, rules, revents, t, nt, rm, ty, ok)
  <2>1. \A j \in 1 .. k : Stays(rules[j], longer) \/ CopyGone(rules[j], c.s, c.s.pair, ok)
    BY <1>2, <1>4, <1>6
  <2>2. c.served \/ \A j \in k + 1 .. Len(rules) : CopyFacts(rules[j], revents[j], c.s, c.s.pair)
    BY <1>2, <1>7
  <2> QED
    BY <1>2, <1>4, <1>5, <1>10, <2>1, <2>2 DEF CopyWalk
<1>11. CASE c.served
  <2>1. d = kept
    BY <1>8, <1>9, <1>11
  <2> QED
    BY <1>10, <1>11, <2>1
<1>12. CASE ~c.served
  <2>1. ~c.s.killed /\ \A j \in k .. Len(rules) : CopyFacts(rules[j], revents[j], c.s, c.s.pair)
    BY <1>2, <1>12
  <2>2. CopyFacts(rule, p, c.s, c.s.pair)
    BY <1>7, <2>1 DEF rule, p
  <2>3. ASSUME NEW u, \/ p.err /\ u = CopyCancel(rule, CopyError(rule, c.s))
                      \/ ~p.err /\ CopyLoop!HungUp(rule, p) /\ u = CopyCancel(rule, c.s),
               d = Put(c, "s", u)
        PROVE  CopyWalk(d, k, s, rules, revents, t, nt, rm, ty, ok)
    <3>1. /\ CopyGood(u, t, nt, rm, ty, ok) /\ CopyOnward(c.s, u) /\ u.killed = c.s.killed
          /\ CopyGone(rule, u, u.pair, ok)
          /\ \A later \in CopyRuleSet : \A q :
               Place(rule) < Place(later) /\ CopyFacts(later, q, c.s, c.s.pair) => CopyFacts(later, q, u, u.pair)
      BY <1>1, <1>2, <2>2, <2>3, CopyTakenAway
    <3>2. u.pair \in Pipes
      BY <3>1 DEF CopyGood, Sound
    <3>3. /\ IsRecord(d, Visiting) /\ d.s = u /\ d.rules = c.rules /\ d.served = c.served /\ d.threw = c.threw
      <4>1. IsRecord(d, Visiting) /\ d["s"] = u /\ \A g \in Visiting \ {"s"} : d[g] = c[g]
        BY <1>2, <1>3, <2>3, PutOne
      <4> QED
        BY <4>1 DEF Visiting
    <3>4. CopyOnward(s, u)
      BY <1>2, <3>1, OnwardOnward
    <3>5. Walked(rules, k, c.rules)
      BY <1>1, <1>2, RuleGoes
    <3>6. \A j \in 1 .. k : Stays(rules[j], c.rules) \/ CopyGone(rules[j], u, u.pair, ok)
      <4>1. \A j \in 1 .. k - 1 : Stays(rules[j], c.rules) \/ CopyGone(rules[j], u, u.pair, ok)
        BY <1>2, <3>1, <3>2, StaysGone
      <4> QED
        BY <1>6, <3>1, <4>1
    <3>7. \A j \in k + 1 .. Len(rules) : CopyFacts(rules[j], revents[j], u, u.pair)
      <4> SUFFICES ASSUME NEW j \in k + 1 .. Len(rules) PROVE CopyFacts(rules[j], revents[j], u, u.pair)
        OBVIOUS
      <4>1. j \in k .. Len(rules) /\ k < j /\ j \in 1 .. Len(rules) /\ rules[j] \in CopyRuleSet
        BY <1>7
      <4>2. Place(rule) < Place(rules[j])
        BY <4>1 DEF InOrder, rule
      <4> QED
        BY <2>1, <3>1, <4>1, <4>2
    <3> QED
      BY <1>2, <2>1, <3>1, <3>3, <3>4, <3>5, <3>6, <3>7 DEF CopyWalk
  <2>4. CASE p.err
    <3>1. d = Put(c, "s", CopyCancel(rule, CopyError(rule, c.s)))
      BY <1>8, <1>9, <1>12, <2>4
    <3> QED
      BY <2>3, <2>4, <3>1
  <2>5. CASE ~p.err /\ CopyLoop!HungUp(rule, p)
    <3>1. d = Put(c, "s", CopyCancel(rule, c.s))
      BY <1>8, <1>9, <1>12, <2>5
    <3> QED
      BY <2>3, <2>5, <3>1
  <2>6. CASE ~p.err /\ ~CopyLoop!HungUp(rule, p) /\ ~p.ready
    <3>1. d = kept
      BY <1>8, <1>9, <1>12, <2>6
    <3> QED
      BY <1>10, <2>6, <3>1
  <2>7. CASE ~p.err /\ ~CopyLoop!HungUp(rule, p) /\ p.ready
    <3>1. PICK o \in CopyCallback(rule, c.s) :
            d = [kept EXCEPT !.s = o.s, !.served = TRUE,
                             !.threw = ~o.served /\ ~CopyClosed(rule, o.s) /\ CopyInterest(rule, o.s)]
      BY <1>8, <1>9, <1>12, <2>7
    <3>2. /\ CopyGood(o.s, t, nt, rm, ty, ok) /\ CopyOnward(c.s, o.s)
          /\ o.served \/ CopyClosed(rule, o.s) \/ ~CopyInterest(rule, o.s)
      BY <1>1, <1>2, <2>1, <2>2, <2>7, CopyServed
    <3> DEFINE u == o.s
               no == ~o.served /\ ~CopyClosed(rule, o.s) /\ CopyInterest(rule, o.s)
    <3>3. no = FALSE
      BY <3>2
    <3>4. d = Put(Put(Put(kept, "s", u), "served", Yes), "threw", no)
      <4> HIDE DEF no, u
      <4>1. d = [kept EXCEPT !.s = u, !.served = TRUE, !.threw = no]
        BY <3>1, Zenon DEF no, u
      <4> QED
        BY <4>1, Zenon DEF Put, Yes
    <3> HIDE DEF no, u
    <3>5. /\ IsRecord(d, Visiting) /\ d.s = u /\ d.rules = longer /\ d.served = Yes /\ d.threw = no
      <4>1. /\ IsRecord(d, Visiting) /\ d["s"] = u /\ d["served"] = Yes /\ d["threw"] = no
            /\ \A g \in Visiting \ {"s", "served", "threw"} : d[g] = kept[g]
        BY <1>3, <1>5, <3>4, PutThree
      <4> QED
        BY <1>5, <4>1 DEF Visiting
    <3>6. CopyGood(u, t, nt, rm, ty, ok) /\ CopyOnward(c.s, u)
      BY <3>2 DEF u
    <3>7. u.pair \in Pipes
      BY <3>6 DEF CopyGood, Sound
    <3>8. CopyOnward(s, u)
      BY <1>2, <3>6, OnwardOnward
    <3>9. \A j \in 1 .. k : Stays(rules[j], longer) \/ CopyGone(rules[j], u, u.pair, ok)
      <4>1. \A j \in 1 .. k - 1 : Stays(rules[j], longer) \/ CopyGone(rules[j], u, u.pair, ok)
        BY <1>2, <1>4, <3>6, <3>7, StaysGone
      <4> QED
        BY <1>4, <1>6, <4>1
    <3> QED
      BY <1>4, <3>3, <3>5, <3>6, <3>8, <3>9 DEF CopyWalk, Yes
  <2> QED
    BY <2>4, <2>5, <2>6, <2>7
<1> QED
  BY <1>11, <1>12

(***************************************************************************)
(* CopyLoop!Dispatch visits one rule after the other.                      *)
(***************************************************************************)
CopyTurn(cs, rule, p) == UNION {CopyLoop!Visit(c, rule, p) : c \in cs}

(***************************************************************************)
(* The walk of the owner's loop over its rules after poll, rule by rule.   *)
(***************************************************************************)
LEMMA CopyDispatchUnfold ==
    ASSUME NEW rules, NEW n \in Nat, n = Len(rules), NEW revents, NEW s
    PROVE  \E after :
             /\ CopyLoop!Dispatch(rules, revents, s) = after[n]
             /\ after[0] = {[s |-> s, rules |-> << >>, served |-> FALSE, threw |-> FALSE]}
             /\ \A k \in 1 .. n :
                  after[k] = CopyTurn(after[k - 1], rules[k], revents[k])
<1> DEFINE start == {[s |-> s, rules |-> << >>, served |-> FALSE, threw |-> FALSE]}
           Turn(cs, k) == CopyTurn(cs, rules[k], revents[k])
           Runs(g, m) == g = [k \in 0 .. m |-> IF k = 0 THEN start ELSE Turn(g[k - 1], k)]
           after == CHOOSE g : Runs(g, n)
<1>1. CopyLoop!Dispatch(rules, revents, s) = after[n]
  BY Zenon DEF CopyLoop!Dispatch, CopyTurn
<1> HIDE DEF start, Turn
<1> DEFINE built == {m \in 0 .. n : \E g : Runs(g, m)}
<1>2. 0 \in built
  <2> DEFINE g == [k \in 0 .. 0 |-> start]
  <2>1. g[0] = start
    OBVIOUS
  <2>2. g = [k \in 0 .. 0 |-> IF k = 0 THEN start ELSE Turn(g[k - 1], k)]
    OBVIOUS
  <2> HIDE DEF g
  <2>3. \E h : Runs(h, 0)
    BY <2>2
  <2> QED
    BY <2>3
<1>3. ASSUME NEW m \in built, m < n PROVE m + 1 \in built
  <2>1. m \in Nat /\ m + 1 \in 0 .. n
    BY <1>3
  <2>2. PICK g : Runs(g, m)
    BY <1>3
  <2> DEFINE last == Turn(g[m], m + 1)
             h == [k \in 0 .. m + 1 |-> IF k <= m THEN g[k] ELSE last]
  <2> HIDE DEF last
  <2>3. \A k \in 0 .. m : g[k] = IF k = 0 THEN start ELSE Turn(g[k - 1], k)
    BY <2>2
  <2>4. \A k \in 0 .. m : h[k] = g[k]
    BY <2>1
  <2>5. h[m + 1] = last
    BY <2>1
  <2>6. ASSUME NEW k \in 0 .. m + 1 PROVE h[k] = IF k = 0 THEN start ELSE Turn(h[k - 1], k)
    <3>1. CASE k = 0
      BY <3>1, <2>1, <2>3, <2>4
    <3>2. CASE k \in 1 .. m
      <4>1. k - 1 \in 0 .. m /\ k \in 0 .. m /\ k # 0
        BY <2>1, <3>2
      <4> HIDE DEF h
      <4> QED
        BY <2>3, <2>4, <4>1
    <3>3. CASE k = m + 1
      <4>1. k - 1 = m /\ m \in 0 .. m /\ k # 0
        BY <2>1, <3>3
      <4> HIDE DEF h
      <4> QED
        BY <2>4, <2>5, <3>3, <4>1 DEF last
    <3> QED
      BY <2>1, <3>1, <3>2, <3>3
  <2>7. Runs(h, m + 1)
    <3> DEFINE hh == [k \in 0 .. m + 1 |-> IF k = 0 THEN start ELSE Turn(h[k - 1], k)]
    <3>1. DOMAIN h = 0 .. m + 1 /\ h = [k \in 0 .. m + 1 |-> h[k]]
      OBVIOUS
    <3> HIDE DEF h
    <3> QED
      BY <2>6, <3>1, Zenon
  <2> HIDE DEF h
  <2> QED
    BY <2>1, <2>7
<1>4. n \in built
  <2>1. built \in SUBSET (0 .. n)
    OBVIOUS
  <2> HIDE DEF built
  <2>2. built = 0 .. n
    BY <1>2, <1>3, <2>1, BoundedInduction
  <2> QED
    BY <2>2
<1>5. Runs(after, n)
  <2>1. \E g : Runs(g, n)
    BY <1>4
  <2> HIDE DEF Runs
  <2> QED
    BY <2>1
<1> HIDE DEF after
<1>6. \A k \in 0 .. n : after[k] = IF k = 0 THEN start ELSE Turn(after[k - 1], k)
  BY <1>5
<1>7. after[0] = start /\ \A k \in 1 .. n : after[k] = Turn(after[k - 1], k)
  BY <1>6
<1> QED
  BY <1>1, <1>7 DEF start, Turn

(***************************************************************************)
(* The second half of a call of wait_next_event in the owner's loop.       *)
(***************************************************************************)
LEMMA CopyDispatched ==
    ASSUME NEW s, NEW t, NEW nt, NEW rm, NEW ty, NEW ok, CopyGood(s, t, nt, rm, ty, ok), ~s.killed,
           NEW rules, CopyRulesLeft(rules, s, s.pair, ok),
           NEW revents, \A k \in 1 .. Len(rules) : CopyFacts(rules[k], revents[k], s, s.pair),
           NEW c \in CopyLoop!Dispatch(rules, revents, s)
    PROVE  /\ CopyGood(c.s, t, nt, rm, ty, ok) /\ CopyOnward(s, c.s) /\ c.threw = FALSE
           /\ CopyRulesLeft(c.rules, c.s, c.s.pair, ok)
<1>0. PICK n \in Nat : n = Len(rules)
  BY LenIsNat DEF CopyRulesLeft
<1> DEFINE W(d, k) == CopyWalk(d, k, s, rules, revents, t, nt, rm, ty, ok)
           start == [s |-> s, rules |-> << >>, served |-> FALSE, threw |-> FALSE]
<1>1. rules \in Seq(CopyRuleSet) /\ InOrder(rules) /\ n \in Nat /\ n = Len(rules)
  BY <1>0 DEF CopyRulesLeft
<1>2. PICK after :
        /\ CopyLoop!Dispatch(rules, revents, s) = after[n]
        /\ after[0] = {start}
        /\ \A k \in 1 .. n :
             after[k] = CopyTurn(after[k - 1], rules[k], revents[k])
  <2> HIDE DEF start
  <2>1. \E after :
        /\ CopyLoop!Dispatch(rules, revents, s) = after[n]
        /\ after[0] = {[s |-> s, rules |-> << >>, served |-> FALSE, threw |-> FALSE]}
        /\ \A k \in 1 .. n :
             after[k] = CopyTurn(after[k - 1], rules[k], revents[k])
    BY <1>0, CopyDispatchUnfold
  <2> QED
    BY <2>1 DEF start
<1>3. W(start, 0)
  <2>1. /\ start.s = s /\ start.rules = << >> /\ start.threw = FALSE /\ IsRecord(start, Visiting)
    BY DEF IsRecord, Visiting
  <2>2. CopyOnward(s, s)
    BY DEF CopyOnward
  <2>3. \A j \in 0 + 1 .. n : CopyFacts(rules[j], revents[j], s, s.pair)
    BY <1>1
  <2>4. \A j \in 1 .. 0 : FALSE
    OBVIOUS
  <2>5. << >> \in Seq(CopyRuleSet) /\ Walked(rules, 0, << >>)
    BY NoRules
  <2> HIDE DEF start
  <2> QED
    BY <2>1, <2>2, <2>3, <2>4, <2>5 DEF CopyWalk
<1> HIDE DEF start
<1> DEFINE sound == {k \in 0 .. n : \A d \in after[k] : W(d, k)}
<1>4. 0 \in sound
  BY <1>1, <1>2, <1>3
<1>5. ASSUME NEW k \in sound, k < n PROVE k + 1 \in sound
  <2>1. k + 1 \in 1 .. Len(rules) /\ k + 1 \in 0 .. n /\ k + 1 \in 1 .. n /\ (k + 1) - 1 = k
    BY <1>1, <1>5
  <2>2. \A d \in after[k] : W(d, k)
    OBVIOUS
  <2> SUFFICES ASSUME NEW e \in after[k + 1] PROVE W(e, k + 1)
    BY <2>1
  <2>3. PICK d \in after[k] : e \in CopyLoop!Visit(d, rules[k + 1], revents[k + 1])
    BY <1>2, <2>1 DEF CopyTurn
  <2> DEFINE m == k + 1
  <2>4. m \in 1 .. Len(rules) /\ CopyWalk(d, m - 1, s, rules, revents, t, nt, rm, ty, ok)
    BY <2>1, <2>2
  <2> HIDE DEF m
  <2>5. e \in CopyLoop!Visit(d, rules[m], revents[m])
    BY <2>3 DEF m
  <2>6. CopyWalk(e, m, s, rules, revents, t, nt, rm, ty, ok)
    BY <1>1, <2>4, <2>5, CopyVisit
  <2> QED
    BY <2>6 DEF m
<1>6. n \in sound
  <2>1. sound \in SUBSET (0 .. n)
    OBVIOUS
  <2> HIDE DEF sound
  <2>2. sound = 0 .. n
    BY <1>1, <1>4, <1>5, <2>1, BoundedInduction
  <2> QED
    BY <1>1, <2>2
<1>7. W(c, n)
  BY <1>2, <1>6
<1>8. /\ c.threw = FALSE /\ CopyGood(c.s, t, nt, rm, ty, ok) /\ CopyOnward(s, c.s)
      /\ c.rules \in Seq(CopyRuleSet) /\ Walked(rules, n, c.rules)
      /\ \A j \in 1 .. n : Stays(rules[j], c.rules) \/ CopyGone(rules[j], c.s, c.s.pair, ok)
  BY <1>7 DEF CopyWalk
<1>9. ASSUME NEW rule \in CopyRuleSet, Missing(rule, c.rules) PROVE CopyGone(rule, c.s, c.s.pair, ok)
  <2>1. ~Stays(rule, c.rules)
    BY <1>9 DEF Missing, Stays
  <2>2. CASE Missing(rule, rules)
    <3>1. CopyGone(rule, s, s.pair, ok)
      BY <2>2 DEF CopyRulesLeft
    <3>2. c.s.pair \in Pipes
      BY <1>8 DEF CopyGood, Sound
    <3> QED
      BY <1>8, <3>1, <3>2, StaysGone
  <2>3. CASE ~Missing(rule, rules)
    <3>1. PICK j \in 1 .. n : rules[j] = rule
      BY <1>1, <2>3 DEF Missing
    <3> QED
      BY <1>8, <2>1, <3>1
  <2> QED
    BY <2>2, <2>3
<1>10. CopyRulesLeft(c.rules, c.s, c.s.pair, ok)
  BY <1>8, <1>9 DEF CopyRulesLeft, Walked
<1> QED
  BY <1>8, <1>10

-----------------------------------------------------------------------------
(***************************************************************************)
(* What poll says of a rule that has been asked for its interest.          *)
(***************************************************************************)
LEMMA CopyPolled ==
    ASSUME NEW s, NEW t, NEW nt, NEW rm, NEW ty, NEW ok, CopyGood(s, t, nt, rm, ty, ok),
           NEW rule \in CopyRuleSet, NEW r,
           r.events <=> CopyInterest(rule, s),
           r.ready <=> CopyInterest(rule, s) /\ CopyRevents(rule, s).ready,
           r.hup <=> CopyRevents(rule, s).hup, r.err <=> CopyRevents(rule, s).err
    PROVE  CopyFacts(rule, r, s, s.pair)
<1>0. ASSUME NEW x, NEW y, NEW z
      PROVE  LET now == [ready |-> x, hup |-> y, err |-> z]
             IN  now.ready = x /\ now.hup = y /\ now.err = z
  OBVIOUS
<1>1. CASE rule = InputRule
  <2>1. CopyRevents(rule, s) = [ready |-> s.stdin.unread # << >> \/ s.stdin.end = "eof",
                                hup |-> s.stdin.end = "hung up", err |-> FALSE]
    BY <1>1, RulesDiffer DEF CopyRevents
  <2>2. /\ CopyRevents(rule, s).ready <=> s.stdin.unread # << >> \/ s.stdin.end = "eof"
        /\ CopyRevents(rule, s).hup <=> s.stdin.end = "hung up"
        /\ ~CopyRevents(rule, s).err
    <3> DEFINE ready == s.stdin.unread # << >> \/ s.stdin.end = "eof"
               hup == s.stdin.end = "hung up"
    <3> HIDE DEF ready, hup
    <3>1. CopyRevents(rule, s) = [ready |-> ready, hup |-> hup, err |-> ~Yes]
      BY <2>1 DEF ready, hup, Yes
    <3>2. CopyRevents(rule, s).ready = ready /\ CopyRevents(rule, s).hup = hup /\ CopyRevents(rule, s).err = ~Yes
      BY <1>0, <3>1
    <3> QED
      BY <3>2 DEF ready, hup, Yes
  <2> QED
    BY <1>1, <2>2, RulesDiffer, CopyInterests DEF CopyFacts
<1>2. CASE rule = OutputRule
  <2>1. CopyRevents(rule, s) = [ready |-> TRUE, hup |-> FALSE, err |-> s.stdout.broken]
    BY <1>2, RulesDiffer DEF CopyRevents
  <2>2. ~CopyRevents(rule, s).hup /\ (CopyRevents(rule, s).err <=> s.stdout.broken)
    BY <2>1
  <2> QED
    BY <1>2, <2>2, RulesDiffer DEF CopyFacts
<1>3. CASE rule \in {OutboundRule, SocketRule}
  <2>1. CopyRevents(rule, s) = PairRevents(s.pair, "app", rule.direction)
    BY <1>3, RulesDiffer DEF CopyRevents
  <2>2. s.pair \in Pipes
    BY DEF CopyGood, Sound
  <2>3. Len(s.pair.to["tcp"]) \in Nat /\ PipeCapacity \in Nat
    BY <2>2, LenIsNat, DescriptorAssumption DEF Pipes, PipeEnds
  <2>4. Room(s.pair, "app") > 0 => Len(s.pair.to["tcp"]) < PipeCapacity
    BY <2>3, OtherEnds DEF Room
  <2>5. /\ CopyRevents(rule, s).hup <=> s.pair.shut = PipeEnds
        /\ ~CopyRevents(rule, s).err
        /\ rule = OutboundRule /\ CopyRevents(rule, s).ready => Room(s.pair, "app") > 0
        /\ rule = SocketRule => (CopyRevents(rule, s).ready <=> s.pair.to["app"] # << >> \/ "app" \in s.pair.shut)
    <3> DEFINE ready == IF rule.direction = "In" THEN s.pair.to["app"] # << >> \/ "app" \in s.pair.shut
                        ELSE Room(s.pair, "app") > 0
               hup == s.pair.shut = PipeEnds
    <3>1. CopyRevents(rule, s) = [ready |-> ready, hup |-> hup, err |-> FALSE]
      BY <2>1 DEF PairRevents
    <3> HIDE DEF ready, hup
    <3>2. CopyRevents(rule, s).ready = ready /\ CopyRevents(rule, s).hup = hup /\ ~CopyRevents(rule, s).err
      BY <3>1
    <3>3. rule = OutboundRule => (ready <=> Room(s.pair, "app") > 0)
      BY Directions DEF ready
    <3>4. rule = SocketRule => (ready <=> s.pair.to["app"] # << >> \/ "app" \in s.pair.shut)
      BY Directions DEF ready
    <3> QED
      BY <3>2, <3>3, <3>4 DEF hup
  <2>6. "app" \in PipeEnds
    BY DEF PipeEnds
  <2> QED
    BY <1>3, <2>4, <2>5, <2>6, RulesDiffer, CopyInterests DEF CopyFacts
<1> QED
  BY <1>1, <1>2, <1>3 DEF CopyRuleSet

(***************************************************************************)
(* CopyLoop!Prepare asks one rule after the other.                         *)
(***************************************************************************)
CopyAsk(cs, rule) == {CopyLoop!PrepareRule(c, rule) : c \in cs}

(***************************************************************************)
(* The walk of the owner's loop over its rules before poll, rule by rule.  *)
(***************************************************************************)
LEMMA CopyPrepareUnfold ==
    ASSUME NEW rules, NEW n \in Nat, n = Len(rules), NEW s
    PROVE  \E after :
             /\ CopyLoop!Prepare(rules, s) = after[n]
             /\ after[0] = {[s |-> s, rules |-> << >>, events |-> << >>]}
             /\ \A k \in 1 .. n :
                  after[k] = CopyAsk(after[k - 1], rules[k])
<1> DEFINE start == {[s |-> s, rules |-> << >>, events |-> << >>]}
           Turn(cs, k) == CopyAsk(cs, rules[k])
           Runs(g, m) == g = [k \in 0 .. m |-> IF k = 0 THEN start ELSE Turn(g[k - 1], k)]
           after == CHOOSE g : Runs(g, n)
<1>1. CopyLoop!Prepare(rules, s) = after[n]
  BY Zenon DEF CopyLoop!Prepare, CopyAsk
<1> HIDE DEF start, Turn
<1> DEFINE built == {m \in 0 .. n : \E g : Runs(g, m)}
<1>2. 0 \in built
  <2> DEFINE g == [k \in 0 .. 0 |-> start]
  <2>1. g[0] = start
    OBVIOUS
  <2>2. g = [k \in 0 .. 0 |-> IF k = 0 THEN start ELSE Turn(g[k - 1], k)]
    OBVIOUS
  <2> HIDE DEF g
  <2>3. \E h : Runs(h, 0)
    BY <2>2
  <2> QED
    BY <2>3
<1>3. ASSUME NEW m \in built, m < n PROVE m + 1 \in built
  <2>1. m \in Nat /\ m + 1 \in 0 .. n
    BY <1>3
  <2>2. PICK g : Runs(g, m)
    BY <1>3
  <2> DEFINE last == Turn(g[m], m + 1)
             h == [k \in 0 .. m + 1 |-> IF k <= m THEN g[k] ELSE last]
  <2> HIDE DEF last
  <2>3. \A k \in 0 .. m : g[k] = IF k = 0 THEN start ELSE Turn(g[k - 1], k)
    BY <2>2
  <2>4. \A k \in 0 .. m : h[k] = g[k]
    BY <2>1
  <2>5. h[m + 1] = last
    BY <2>1
  <2>6. ASSUME NEW k \in 0 .. m + 1 PROVE h[k] = IF k = 0 THEN start ELSE Turn(h[k - 1], k)
    <3>1. CASE k = 0
      BY <3>1, <2>1, <2>3, <2>4
    <3>2. CASE k \in 1 .. m
      <4>1. k - 1 \in 0 .. m /\ k \in 0 .. m /\ k # 0
        BY <2>1, <3>2
      <4> HIDE DEF h
      <4> QED
        BY <2>3, <2>4, <4>1
    <3>3. CASE k = m + 1
      <4>1. k - 1 = m /\ m \in 0 .. m /\ k # 0
        BY <2>1, <3>3
      <4> HIDE DEF h
      <4> QED
        BY <2>4, <2>5, <3>3, <4>1 DEF last
    <3> QED
      BY <2>1, <3>1, <3>2, <3>3
  <2>7. Runs(h, m + 1)
    <3> DEFINE hh == [k \in 0 .. m + 1 |-> IF k = 0 THEN start ELSE Turn(h[k - 1], k)]
    <3>1. DOMAIN h = 0 .. m + 1 /\ h = [k \in 0 .. m + 1 |-> h[k]]
      OBVIOUS
    <3> HIDE DEF h
    <3> QED
      BY <2>6, <3>1, Zenon
  <2> HIDE DEF h
  <2> QED
    BY <2>1, <2>7
<1>4. n \in built
  <2>1. built \in SUBSET (0 .. n)
    OBVIOUS
  <2> HIDE DEF built
  <2>2. built = 0 .. n
    BY <1>2, <1>3, <2>1, BoundedInduction
  <2> QED
    BY <2>2
<1>5. Runs(after, n)
  <2>1. \E g : Runs(g, n)
    BY <1>4
  <2> HIDE DEF Runs
  <2> QED
    BY <2>1
<1> HIDE DEF after
<1>6. \A k \in 0 .. n : after[k] = IF k = 0 THEN start ELSE Turn(after[k - 1], k)
  BY <1>5
<1>7. after[0] = start /\ \A k \in 1 .. n : after[k] = Turn(after[k - 1], k)
  BY <1>6
<1> QED
  BY <1>1, <1>7 DEF start, Turn

(***************************************************************************)
(* A rule whose descriptor has ended goes, and has nothing to do any more: *)
(* its cancel changes nothing.                                             *)
(***************************************************************************)
LEMMA CopyEnded ==
    ASSUME NEW s, NEW t, NEW nt, NEW rm, NEW ty, NEW ok, CopyGood(s, t, nt, rm, ty, ok),
           NEW rule \in CopyRuleSet,
           CopyClosed(rule, s) \/ (rule.direction = "In" /\ CopyAtEof(rule, s))
    PROVE  CopyCancel(rule, s) = s /\ CopyGone(rule, s, s.pair, ok)
<1>1. IsRecord(s, CopyFields) /\ AppTypes(s) /\ OutApp(s, s.pair, ok) /\ InApp(s, s.pair, ok)
  BY DEF CopyGood, Sound
<1>2. ASSUME NEW f \in CopyFields PROVE [s EXCEPT ![f] = s[f]] = s
  BY <1>1 DEF IsRecord
<1>3. "outbound" \in CopyFields /\ "inbound" \in CopyFields
  BY DEF CopyFields, AppFields
<1>4. s.outbound.closed => [s EXCEPT !.outbound = CloseStream(s.outbound)] = s
  <2>1. s.outbound.closed => CloseStream(s.outbound) = s.outbound
    BY <1>1, CloseFields DEF AppTypes
  <2>2. [s EXCEPT !.outbound = s.outbound] = s
    BY <1>2, <1>3
  <2> QED
    BY <2>1, <2>2
<1>5. s.inbound.closed => [s EXCEPT !.inbound = CloseStream(s.inbound)] = s
  <2>1. s.inbound.closed => CloseStream(s.inbound) = s.inbound
    BY <1>1, CloseFields DEF AppTypes
  <2>2. [s EXCEPT !.inbound = s.inbound] = s
    BY <1>2, <1>3
  <2> QED
    BY <2>1, <2>2
<1>6. CASE rule = InputRule
  <2>1. s.input.closed \/ s.input.eof
    BY <1>6, RulesDiffer DEF CopyClosed, CopyAtEof, DescriptorOf
  <2>2. s.outbound.closed
    BY <1>1, <2>1 DEF OutApp
  <2>3. CopyCancel(rule, s) = [s EXCEPT !.outbound = CloseStream(s.outbound)]
    BY <1>6 DEF CopyCancel
  <2>4. CopyGone(rule, s, s.pair, ok)
    BY <1>6, <2>2, RulesDiffer DEF CopyGone
  <2> QED
    BY <1>4, <2>2, <2>3, <2>4
<1>7. CASE rule = OutboundRule
  <2>1. rule.direction = "Out"
    BY <1>7, Directions
  <2>2. s.socket.closed
    BY <1>7, <2>1, RulesDiffer DEF CopyClosed, DescriptorOf
  <2> QED
    BY <1>1, <2>2 DEF OutApp
<1>8. CASE rule = SocketRule
  <2>1. s.socket.closed \/ s.socket.eof
    BY <1>8, RulesDiffer DEF CopyClosed, CopyAtEof, DescriptorOf
  <2>2. s.inbound.closed
    BY <1>1, <2>1 DEF OutApp, InApp
  <2>3. CopyCancel(rule, s) = [s EXCEPT !.inbound = CloseStream(s.inbound)]
    BY <1>8, RulesDiffer DEF CopyCancel
  <2>4. CopyGone(rule, s, s.pair, ok)
    BY <1>8, <2>2, RulesDiffer DEF CopyGone
  <2> QED
    BY <1>5, <2>2, <2>3, <2>4
<1>9. CASE rule = OutputRule
  <2>1. rule.direction = "Out"
    BY <1>9, Directions
  <2>2. s.output.closed
    BY <1>9, <2>1, RulesDiffer DEF CopyClosed, DescriptorOf
  <2>3. s.inbound.closed /\ s.inbound_shutdown
    BY <1>1, <2>2 DEF InApp, IsFinished
  <2>4. CopyCancel(rule, s) = [s EXCEPT !.inbound = CloseStream(s.inbound)]
    BY <1>9, RulesDiffer DEF CopyCancel
  <2>5. CopyGone(rule, s, s.pair, ok)
    BY <1>9, <2>3, RulesDiffer DEF CopyGone
  <2> QED
    BY <1>5, <2>3, <2>4, <2>5
<1> QED
  BY <1>6, <1>7, <1>8, <1>9 DEF CopyRuleSet

(***************************************************************************)
(* What holds after k rules have been asked.                               *)
(***************************************************************************)
Asking == {"s", "rules", "events"}

CopyAsked(c, k, s, rules, ok) ==
    /\ IsRecord(c, Asking) /\ c.s = s
    /\ c.rules \in Seq(CopyRuleSet) /\ Walked(rules, k, c.rules)
    /\ c.events \in Seq(BOOLEAN) /\ Len(c.events) = Len(c.rules)
    /\ \A i \in 1 .. Len(c.rules) : c.events[i] <=> CopyInterest(c.rules[i], s)
    /\ \A j \in 1 .. k : Stays(rules[j], c.rules) \/ CopyGone(rules[j], s, s.pair, ok)

(***************************************************************************)
(* Two lists grow together.                                                *)
(***************************************************************************)
LEMMA BothGrow ==
    ASSUME NEW S, NEW rules \in Seq(S), NEW events \in Seq(BOOLEAN), Len(events) = Len(rules),
           NEW rule \in S, NEW event \in BOOLEAN
    PROVE  LET more == Append(rules, rule)
               wanted == Append(events, event)
           IN  /\ more \in Seq(S) /\ wanted \in Seq(BOOLEAN) /\ Len(wanted) = Len(more)
               /\ \A i \in 1 .. Len(more) :
                    \/ i \in 1 .. Len(rules) /\ more[i] = rules[i] /\ wanted[i] = events[i]
                    \/ more[i] = rule /\ wanted[i] = event
<1>1. Len(rules) \in Nat
  BY LenIsNat
<1>2. /\ Append(rules, rule) \in Seq(S) /\ Len(Append(rules, rule)) = Len(rules) + 1
      /\ \A i \in 1 .. Len(rules) : Append(rules, rule)[i] = rules[i]
      /\ Append(rules, rule)[Len(rules) + 1] = rule
  OBVIOUS
<1>3. /\ Append(events, event) \in Seq(BOOLEAN) /\ Len(Append(events, event)) = Len(rules) + 1
      /\ \A i \in 1 .. Len(rules) : Append(events, event)[i] = events[i]
      /\ Append(events, event)[Len(rules) + 1] = event
  OBVIOUS
<1>4. \A i \in 1 .. Len(rules) + 1 : i \in 1 .. Len(rules) \/ i = Len(rules) + 1
  BY <1>1
<1> QED
  BY <1>2, <1>3, <1>4

(***************************************************************************)
(* One more rule is asked.                                                 *)
(***************************************************************************)
LEMMA CopyAsks ==
    ASSUME NEW s, NEW t, NEW nt, NEW rm, NEW ty, NEW ok, CopyGood(s, t, nt, rm, ty, ok),
           NEW rules \in Seq(CopyRuleSet), InOrder(rules), NEW k \in 1 .. Len(rules),
           NEW c, CopyAsked(c, k - 1, s, rules, ok)
    PROVE  CopyAsked(CopyLoop!PrepareRule(c, rules[k]), k, s, rules, ok)
<1> DEFINE rule == rules[k]
           d == CopyLoop!PrepareRule(c, rule)
           ended == CopyClosed(rule, s) \/ (rule.direction = "In" /\ CopyAtEof(rule, s))
<1>1. rule \in CopyRuleSet /\ k \in Nat \ {0}
  BY LenIsNat
<1>2. /\ IsRecord(c, Asking) /\ c.s = s
      /\ c.rules \in Seq(CopyRuleSet) /\ Walked(rules, k - 1, c.rules)
      /\ c.events \in Seq(BOOLEAN) /\ Len(c.events) = Len(c.rules)
      /\ \A i \in 1 .. Len(c.rules) : c.events[i] <=> CopyInterest(c.rules[i], s)
      /\ \A j \in 1 .. k - 1 : Stays(rules[j], c.rules) \/ CopyGone(rules[j], s, s.pair, ok)
  BY DEF CopyAsked
<1>3. \A j \in 1 .. k : j \in 1 .. k - 1 \/ (j = k /\ rules[j] = rule)
  BY <1>1
<1>4. "s" \in Asking /\ "rules" \in Asking /\ "events" \in Asking \ {"rules"}
  BY DEF Asking
<1>5. PICK event \in BOOLEAN : event <=> CopyInterest(rule, s)
  OBVIOUS
<1>6. d = IF ended THEN Put(c, "s", CopyCancel(rule, s))
          ELSE Put(Put(c, "rules", Append(c.rules, rule)), "events", Append(c.events, CopyInterest(rule, s)))
  BY <1>2, Zenon DEF CopyLoop!PrepareRule, Put
<1>7. CopyInterest(rule, s) = event
  <2>1. CopyInterest(rule, s) \in BOOLEAN
    BY <1>1, RulesDiffer DEF CopyInterest, CopyRuleSet, HasErrors, IsFinished
  <2> QED
    BY <1>5, <2>1
<1> HIDE DEF d
<1>8. CASE ended
  <2>1. CopyCancel(rule, s) = s /\ CopyGone(rule, s, s.pair, ok)
    BY <1>1, <1>8, CopyEnded
  <2>2. d = Put(c, "s", s)
    BY <1>6, <1>8, <2>1
  <2>3. IsRecord(d, Asking) /\ d.s = s /\ d.rules = c.rules /\ d.events = c.events
    <3>1. IsRecord(d, Asking) /\ d["s"] = s /\ \A g \in Asking \ {"s"} : d[g] = c[g]
      BY <1>2, <1>4, <2>2, PutOne
    <3> QED
      BY <3>1 DEF Asking
  <2>4. Walked(rules, k, c.rules)
    BY <1>1, <1>2, RuleGoes
  <2>5. \A j \in 1 .. k : Stays(rules[j], c.rules) \/ CopyGone(rules[j], s, s.pair, ok)
    BY <1>2, <1>3, <2>1
  <2> QED
    BY <1>2, <2>3, <2>4, <2>5 DEF CopyAsked, d
<1>9. CASE ~ended
  <2> DEFINE more == Append(c.rules, rule)
             wanted == Append(c.events, event)
  <2>1. d = Put(Put(c, "rules", more), "events", wanted)
    BY <1>6, <1>7, <1>9
  <2>2. /\ more \in Seq(CopyRuleSet) /\ Walked(rules, k, more) /\ Stays(rule, more)
        /\ \A r : Stays(r, c.rules) => Stays(r, more)
    BY <1>2, RuleStays
  <2>3. /\ wanted \in Seq(BOOLEAN) /\ Len(wanted) = Len(more)
        /\ \A i \in 1 .. Len(more) :
             \/ i \in 1 .. Len(c.rules) /\ more[i] = c.rules[i] /\ wanted[i] = c.events[i]
             \/ more[i] = rule /\ wanted[i] = event
    <3> DEFINE old == c.rules
               asked == c.events
    <3>1. /\ old \in Seq(CopyRuleSet) /\ asked \in Seq(BOOLEAN) /\ Len(asked) = Len(old)
          /\ more = Append(old, rule) /\ wanted = Append(asked, event)
      BY <1>2
    <3> HIDE DEF old, asked, rule, more, wanted
    <3>2. /\ wanted \in Seq(BOOLEAN) /\ Len(wanted) = Len(more)
          /\ \A i \in 1 .. Len(more) :
               \/ i \in 1 .. Len(old) /\ more[i] = old[i] /\ wanted[i] = asked[i]
               \/ more[i] = rule /\ wanted[i] = event
      BY <1>1, <3>1, BothGrow
    <3> QED
      BY <3>2 DEF old, asked
  <2> HIDE DEF more, wanted, rule
  <2>4. IsRecord(d, Asking) /\ d.s = s /\ d.rules = more /\ d.events = wanted
    <3>1. IsRecord(d, Asking) /\ d["rules"] = more /\ d["events"] = wanted
          /\ \A g \in Asking \ {"rules", "events"} : d[g] = c[g]
      BY <1>2, <1>4, <2>1, PutTwo
    <3> QED
      BY <1>2, <3>1 DEF Asking
  <2>5. \A i \in 1 .. Len(more) : wanted[i] <=> CopyInterest(more[i], s)
    BY <1>2, <1>5, <2>3
  <2>6. \A j \in 1 .. k : Stays(rules[j], more) \/ CopyGone(rules[j], s, s.pair, ok)
    BY <1>2, <1>3, <2>2
  <2> QED
    BY <2>2, <2>3, <2>4, <2>5, <2>6 DEF CopyAsked, d, rule
<1> QED
  BY <1>8, <1>9

(***************************************************************************)
(* The first half of a call of wait_next_event in the owner's loop: it     *)
(* changes nothing but the list of rules, and what poll says is sound.     *)
(***************************************************************************)
LEMMA CopyPrepared ==
    ASSUME NEW s, NEW t, NEW nt, NEW rm, NEW ty, NEW ok, CopyGood(s, t, nt, rm, ty, ok),
           NEW rules, CopyRulesLeft(rules, s, s.pair, ok), NEW c \in CopyLoop!Prepare(rules, s)
    PROVE  /\ c.s = s /\ CopyRulesLeft(c.rules, s, s.pair, ok)
           /\ c.events \in Seq(BOOLEAN) /\ Len(c.events) = Len(c.rules)
           /\ \A i \in 1 .. Len(c.rules) : c.events[i] <=> CopyInterest(c.rules[i], s)
           /\ \A i \in 1 .. Len(c.rules) : CopyFacts(c.rules[i], CopyLoop!Poll(c)[i], s, s.pair)
<1> DEFINE A(d, k) == CopyAsked(d, k, s, rules, ok)
           start == [s |-> s, rules |-> << >>, events |-> << >>]
<1>0. PICK n \in Nat : n = Len(rules)
  BY LenIsNat DEF CopyRulesLeft
<1>1. rules \in Seq(CopyRuleSet) /\ InOrder(rules) /\ n \in Nat /\ n = Len(rules)
  BY <1>0 DEF CopyRulesLeft
<1>2. PICK after :
        /\ CopyLoop!Prepare(rules, s) = after[n]
        /\ after[0] = {start}
        /\ \A k \in 1 .. n : after[k] = CopyAsk(after[k - 1], rules[k])
  <2> HIDE DEF start
  <2>1. \E after :
        /\ CopyLoop!Prepare(rules, s) = after[n]
        /\ after[0] = {[s |-> s, rules |-> << >>, events |-> << >>]}
        /\ \A k \in 1 .. n : after[k] = CopyAsk(after[k - 1], rules[k])
    BY <1>0, CopyPrepareUnfold
  <2> QED
    BY <2>1 DEF start
<1>3. A(start, 0)
  <2>1. /\ start.s = s /\ start.rules = << >> /\ start.events = << >> /\ IsRecord(start, Asking)
    BY DEF IsRecord, Asking
  <2>2. \A j \in 1 .. 0 : FALSE
    OBVIOUS
  <2>3. << >> \in Seq(CopyRuleSet) /\ << >> \in Seq(BOOLEAN) /\ Len(<< >>) = 0 /\ Walked(rules, 0, << >>)
    BY NoRules
  <2> HIDE DEF start
  <2> QED
    BY <2>1, <2>2, <2>3 DEF CopyAsked
<1> HIDE DEF start
<1> DEFINE sound == {k \in 0 .. n : \A d \in after[k] : A(d, k)}
<1>4. 0 \in sound
  BY <1>1, <1>2, <1>3
<1>5. ASSUME NEW k \in sound, k < n PROVE k + 1 \in sound
  <2>1. k + 1 \in 1 .. Len(rules) /\ k + 1 \in 0 .. n /\ k + 1 \in 1 .. n /\ (k + 1) - 1 = k
    BY <1>1, <1>5
  <2>2. \A d \in after[k] : A(d, k)
    OBVIOUS
  <2> SUFFICES ASSUME NEW e \in after[k + 1] PROVE A(e, k + 1)
    BY <2>1
  <2>3. PICK d \in after[k] : e = CopyLoop!PrepareRule(d, rules[k + 1])
    BY <1>2, <2>1 DEF CopyAsk
  <2> DEFINE m == k + 1
  <2>4. m \in 1 .. Len(rules) /\ CopyAsked(d, m - 1, s, rules, ok)
    BY <2>1, <2>2
  <2> HIDE DEF m
  <2>5. e = CopyLoop!PrepareRule(d, rules[m])
    BY <2>3 DEF m
  <2>6. CopyAsked(e, m, s, rules, ok)
    BY <1>1, <2>4, <2>5, CopyAsks
  <2> QED
    BY <2>6 DEF m
<1>6. n \in sound
  <2>1. sound \in SUBSET (0 .. n)
    OBVIOUS
  <2> HIDE DEF sound
  <2>2. sound = 0 .. n
    BY <1>1, <1>4, <1>5, <2>1, BoundedInduction
  <2> QED
    BY <1>1, <2>2
<1>7. A(c, n)
  BY <1>2, <1>6
<1>8. /\ IsRecord(c, Asking) /\ c.s = s
      /\ c.rules \in Seq(CopyRuleSet) /\ Walked(rules, n, c.rules)
      /\ c.events \in Seq(BOOLEAN) /\ Len(c.events) = Len(c.rules)
      /\ \A i \in 1 .. Len(c.rules) : c.events[i] <=> CopyInterest(c.rules[i], s)
      /\ \A j \in 1 .. n : Stays(rules[j], c.rules) \/ CopyGone(rules[j], s, s.pair, ok)
  BY <1>7 DEF CopyAsked
<1>9. ASSUME NEW rule \in CopyRuleSet, Missing(rule, c.rules) PROVE CopyGone(rule, s, s.pair, ok)
  <2>1. ~Stays(rule, c.rules)
    BY <1>9 DEF Missing, Stays
  <2>2. CASE Missing(rule, rules)
    BY <2>2 DEF CopyRulesLeft
  <2>3. CASE ~Missing(rule, rules)
    <3>1. PICK j \in 1 .. n : rules[j] = rule
      BY <1>1, <2>3 DEF Missing
    <3> QED
      BY <1>8, <2>1, <3>1
  <2> QED
    BY <2>2, <2>3
<1>10. CopyRulesLeft(c.rules, s, s.pair, ok)
  BY <1>8, <1>9 DEF CopyRulesLeft, Walked
<1>11. ASSUME NEW i \in 1 .. Len(c.rules) PROVE CopyFacts(c.rules[i], CopyLoop!Poll(c)[i], s, s.pair)
  <2> DEFINE rule == c.rules[i]
             now == CopyRevents(rule, s)
             ready == c.events[i] /\ now.ready
             r == [events |-> c.events[i], ready |-> ready, hup |-> now.hup, err |-> now.err]
  <2>1. rule \in CopyRuleSet /\ i \in DOMAIN c.rules /\ (c.events[i] <=> CopyInterest(rule, s))
    BY <1>8
  <2>2. CopyLoop!Poll(c)[i] = r
    BY <1>8, <2>1, Zenon DEF CopyLoop!Poll
  <2>3. ready <=> CopyInterest(rule, s) /\ now.ready
    BY <2>1
  <2> HIDE DEF ready, now
  <2>4. r.events = c.events[i] /\ r.ready = ready /\ r.hup = now.hup /\ r.err = now.err
    OBVIOUS
  <2> HIDE DEF r
  <2>5. CopyFacts(rule, r, s, s.pair)
    <3> HIDE DEF rule
    <3>1. /\ r.events <=> CopyInterest(rule, s)
          /\ r.ready <=> CopyInterest(rule, s) /\ CopyRevents(rule, s).ready
          /\ r.hup <=> CopyRevents(rule, s).hup
          /\ r.err <=> CopyRevents(rule, s).err
      BY <2>1, <2>3, <2>4 DEF now
    <3> QED
      BY <2>1, <3>1, CopyPolled
  <2> QED
    BY <2>2, <2>5
<1> QED
  BY <1>8, <1>10, <1>11

-----------------------------------------------------------------------------
(***************************************************************************)
(* The socket's rules: a rule that is ready is served, and does something  *)
(* or has no interest afterwards.                                          *)
(***************************************************************************)
LEMMA TCPServed ==
    ASSUME NEW s, NEW a, NEW rm, NEW ty, NEW ok, TCPGood(s, a, rm, ty, ok), ~s.killed,
           NEW rule \in TCPRuleSet, NEW r, TCPFacts(rule, r, s, s.pair, s.net), r.ready,
           NEW o \in TCPCallback(rule, s)
    PROVE  /\ TCPGood(o.s, a, rm, ty, ok) /\ TCPOnward(s, o.s)
           /\ o.served \/ TCPClosed(rule, o.s) \/ ~TCPInterest(rule, o.s)
<1>1. CASE rule = ReceiveRule
  <2>1. o.s = Received(s) /\ o.served
    BY <1>1, RulesDiffer DEF TCPCallback
  <2>2. Active(s.peer)
    BY <1>1 DEF TCPFacts
  <2> QED
    BY <2>1, <2>2, ReceivedGood
<1>2. CASE rule = PushRule
  <2>1. o.s = Pushed(s) /\ o.served
    BY <1>2, RulesDiffer DEF TCPCallback
  <2>2. /\ ~s.peer.out.closed /\ AvailableCapacity(s.peer.out) > 0
        /\ s.pair.to["tcp"] # << >> \/ "tcp" \in s.pair.shut
    BY <1>2 DEF TCPFacts
  <2> QED
    BY <2>1, <2>2, PushedGood
<1>3. CASE rule = InboundRule
  <2>1. /\ o.s = Delivered(s)
        /\ o.served = (s.peer.in.buf # << >> \/ IsFinished(s.peer.in) \/ s.peer.in.error)
    BY <1>3, RulesDiffer DEF TCPCallback
  <2> QED
    BY <1>3, <2>1, DeliveredGood
<1> QED
  BY <1>1, <1>2, <1>3 DEF TCPRuleSet

(***************************************************************************)
(* A rule that a hang-up takes away changes nothing.                       *)
(***************************************************************************)
LEMMA TCPTakenAway ==
    ASSUME NEW s, NEW rule \in TCPRuleSet, NEW r, TCPFacts(rule, r, s, s.pair, s.net)
    PROVE  /\ ~r.err
           /\ TCPLoop!HungUp(rule, r) => TCPCancel(rule, s) = s /\ TCPGone(rule, s.pair)
<1>1. ~r.err
  BY DEF TCPFacts
<1>2. ASSUME TCPLoop!HungUp(rule, r) PROVE TCPCancel(rule, s) = s /\ TCPGone(rule, s.pair)
  <2>1. r.hup /\ ((r.events /\ ~r.ready) \/ rule.direction = "Out")
    BY <1>2 DEF TCPLoop!HungUp
  <2>2. rule # ReceiveRule
    BY <2>1 DEF TCPFacts
  <2>3. rule # PushRule
    <3> SUFFICES ASSUME rule = PushRule PROVE FALSE
      OBVIOUS
    <3>1. rule.direction = "In"
      BY Directions
    <3>2. ~(r.hup /\ r.events /\ ~r.ready)
      BY DEF TCPFacts
    <3> QED
      BY <2>1, <3>1, <3>2
  <2>4. rule = InboundRule
    BY <2>2, <2>3 DEF TCPRuleSet
  <2>5. s.pair.shut = PipeEnds
    BY <2>1, <2>4 DEF TCPFacts
  <2> QED
    BY <2>3, <2>4, <2>5, RulesDiffer DEF TCPCancel, TCPGone
<1> QED
  BY <1>1, <1>2

(***************************************************************************)
(* A rule whose descriptor has ended changes nothing when it goes.         *)
(***************************************************************************)
LEMMA TCPEnded ==
    ASSUME NEW s, NEW a, NEW rm, NEW ty, NEW ok, TCPGood(s, a, rm, ty, ok), NEW rule \in TCPRuleSet,
           TCPClosed(rule, s) \/ (rule.direction = "In" /\ TCPAtEof(rule, s))
    PROVE  TCPCancel(rule, s) = s /\ TCPGone(rule, s.pair)
<1>1. IsRecord(s, TCPFields) /\ TCPTypes(s) /\ OutTCP(s, s.pair)
  BY DEF TCPGood, Sound
<1>2. rule # ReceiveRule /\ rule.direction = "In" /\ s.thread_data.eof
  BY <1>1 DEF TCPClosed, TCPAtEof, OutTCP
<1>3. rule # InboundRule
  <2> SUFFICES ASSUME rule = InboundRule PROVE FALSE
    OBVIOUS
  <2> QED
    BY <1>2, Directions
<1>4. rule = PushRule
  BY <1>2, <1>3 DEF TCPRuleSet
<1>5. s.peer.out.closed /\ s.outbound_shutdown = Yes
  BY <1>1, <1>2 DEF OutTCP, TCPTypes, Yes
<1>6. s.peer \in Peers /\ s.peer.out \in Stream
  BY <1>1 DEF TCPTypes, Peers
<1>7. CloseStream(s.peer.out) = s.peer.out
  BY <1>5, <1>6, CloseFields
<1> DEFINE peer == [s.peer EXCEPT !.out = CloseStream(s.peer.out)]
<1>8. peer = s.peer
  <2>1. [s.peer EXCEPT !.out = s.peer.out] = s.peer
    BY <1>6 DEF Peers
  <2> QED
    BY <1>7, <2>1
<1>9. TCPCancel(rule, s) = [s EXCEPT !.peer = peer, !.outbound_shutdown = TRUE]
  BY <1>4, Zenon DEF TCPCancel
<1> HIDE DEF peer
<1>10. [s EXCEPT !.peer = s.peer, !.outbound_shutdown = s.outbound_shutdown] = s
  BY <1>1 DEF IsRecord
<1>11. TCPCancel(rule, s) = s
  BY <1>5, <1>8, <1>9, <1>10, Zenon DEF Yes
<1> QED
  BY <1>4, <1>11, RulesDiffer DEF TCPGone

(***************************************************************************)
(* What poll says of a rule that has been asked for its interest.          *)
(***************************************************************************)
LEMMA TCPPolled ==
    ASSUME NEW s, NEW a, NEW rm, NEW ty, NEW ok, TCPGood(s, a, rm, ty, ok),
           NEW rule \in TCPRuleSet, NEW r,
           r.events <=> TCPInterest(rule, s),
           r.ready <=> TCPInterest(rule, s) /\ TCPRevents(rule, s).ready,
           r.hup <=> TCPRevents(rule, s).hup, r.err <=> TCPRevents(rule, s).err
    PROVE  TCPFacts(rule, r, s, s.pair, s.net)
<1>1. CASE rule = ReceiveRule
  <2>1. TCPRevents(rule, s) = [ready |-> s.net # NoSegment, hup |-> FALSE, err |-> FALSE]
    BY <1>1 DEF TCPRevents
  <2> DEFINE ready == s.net # NoSegment
  <2> HIDE DEF ready
  <2>2. TCPRevents(rule, s) = [ready |-> ready, hup |-> FALSE, err |-> FALSE]
    BY <2>1 DEF ready
  <2>3. /\ TCPRevents(rule, s).ready = ready
        /\ ~TCPRevents(rule, s).hup
        /\ ~TCPRevents(rule, s).err
    BY <2>2
  <2> QED
    BY <1>1, <2>3, RulesDiffer, TCPInterests DEF TCPFacts, ready
<1>2. CASE rule \in {PushRule, InboundRule}
  <2>1. TCPRevents(rule, s) = PairRevents(s.pair, "tcp", rule.direction)
    BY <1>2, RulesDiffer DEF TCPRevents
  <2>2. s.pair \in Pipes /\ OutTCP(s, s.pair)
    BY DEF TCPGood, Sound
  <2>3. /\ TCPRevents(rule, s).hup <=> s.pair.shut = PipeEnds
        /\ ~TCPRevents(rule, s).err
        /\ rule = PushRule => (TCPRevents(rule, s).ready <=> s.pair.to["tcp"] # << >> \/ "tcp" \in s.pair.shut)
    <3> DEFINE ready == IF rule.direction = "In" THEN s.pair.to["tcp"] # << >> \/ "tcp" \in s.pair.shut
                        ELSE Room(s.pair, "tcp") > 0
               hup == s.pair.shut = PipeEnds
    <3>1. TCPRevents(rule, s) = [ready |-> ready, hup |-> hup, err |-> FALSE]
      BY <2>1 DEF PairRevents
    <3> HIDE DEF ready, hup
    <3>2. TCPRevents(rule, s).ready = ready /\ TCPRevents(rule, s).hup = hup /\ ~TCPRevents(rule, s).err
      BY <3>1
    <3>3. rule = PushRule => (ready <=> s.pair.to["tcp"] # << >> \/ "tcp" \in s.pair.shut)
      BY Directions DEF ready
    <3> QED
      BY <3>2, <3>3 DEF hup
  <2>4. "tcp" \in PipeEnds
    BY DEF PipeEnds
  <2> QED
    BY <1>2, <2>2, <2>3, <2>4, RulesDiffer, TCPInterests DEF TCPFacts, OutTCP
<1> QED
  BY <1>1, <1>2 DEF TCPRuleSet

(***************************************************************************)
(* What holds after k rules have been visited: as long as none is served,  *)
(* nothing has changed.                                                    *)
(***************************************************************************)
TCPWalk(c, k, s, rules, a, rm, ty, ok) ==
    /\ IsRecord(c, Visiting) /\ c.threw = FALSE
    /\ TCPGood(c.s, a, rm, ty, ok) /\ TCPOnward(s, c.s)
    /\ c.rules \in Seq(TCPRuleSet) /\ Walked(rules, k, c.rules)
    /\ \A j \in 1 .. k : Stays(rules[j], c.rules) \/ TCPGone(rules[j], c.s.pair)
    /\ c.served \/ c.s = s

(***************************************************************************)
(* A rule of the TCP thread's loop that was dropped stays one that had to  *)
(* be.                                                                     *)
(***************************************************************************)
LEMMA TCPStaysGone ==
    ASSUME NEW rule, NEW s, NEW u, TCPOnward(s, u), u.pair \in Pipes, TCPGone(rule, s.pair)
    PROVE  TCPGone(rule, u.pair)
BY DEF TCPOnward, TCPGone, Pipes

(***************************************************************************)
(* One more rule is visited.                                               *)
(***************************************************************************)
LEMMA TCPVisit ==
    ASSUME NEW s, NEW rules \in Seq(TCPRuleSet), InOrder(rules), NEW revents, ~s.killed,
           NEW a, NEW rm, NEW ty, NEW ok, NEW k \in 1 .. Len(rules),
           TCPFacts(rules[k], revents[k], s, s.pair, s.net),
           NEW c, TCPWalk(c, k - 1, s, rules, a, rm, ty, ok),
           NEW d \in TCPLoop!Visit(c, rules[k], revents[k])
    PROVE  TCPWalk(d, k, s, rules, a, rm, ty, ok)
<1> DEFINE rule == rules[k]
           p == revents[k]
           kept == Put(c, "rules", Append(c.rules, rule))
<1>1. rule \in TCPRuleSet /\ k \in Nat \ {0} /\ Len(rules) \in Nat /\ k <= Len(rules)
  BY LenIsNat
<1>2. /\ IsRecord(c, Visiting) /\ c.threw = FALSE
      /\ TCPGood(c.s, a, rm, ty, ok) /\ TCPOnward(s, c.s)
      /\ c.rules \in Seq(TCPRuleSet) /\ Walked(rules, k - 1, c.rules)
      /\ \A j \in 1 .. k - 1 : Stays(rules[j], c.rules) \/ TCPGone(rules[j], c.s.pair)
      /\ c.served \/ c.s = s
  BY DEF TCPWalk
<1>3. /\ "s" \in Visiting /\ "rules" \in Visiting
      /\ "served" \in Visiting \ {"s"} /\ "threw" \in Visiting \ {"s", "served"}
  BY DEF Visiting
<1> DEFINE longer == Append(c.rules, rule)
<1>4. /\ longer \in Seq(TCPRuleSet) /\ Walked(rules, k, longer) /\ Stays(rule, longer)
      /\ \A r : Stays(r, c.rules) => Stays(r, longer)
  BY <1>2, RuleStays
<1> HIDE DEF longer
<1>5. /\ IsRecord(kept, Visiting) /\ kept.rules = longer /\ kept.s = c.s
      /\ kept.served = c.served /\ kept.threw = c.threw
  <2>1. kept = Put(c, "rules", longer)
    BY DEF longer
  <2> HIDE DEF kept
  <2>2. IsRecord(kept, Visiting) /\ kept["rules"] = longer /\ \A g \in Visiting \ {"rules"} : kept[g] = c[g]
    BY <1>2, <1>3, <2>1, PutOne
  <2> QED
    BY <2>2 DEF Visiting
<1>6. \A j \in 1 .. k : j \in 1 .. k - 1 \/ (j = k /\ rules[j] = rule)
  BY <1>1
<1>7. TCPLoop!Visit(c, rule, p) =
          IF c.served THEN {kept}
          ELSE IF p.err THEN {Put(c, "s", TCPCancel(rule, TCPError(rule, c.s)))}
          ELSE IF TCPLoop!HungUp(rule, p) THEN {Put(c, "s", TCPCancel(rule, c.s))}
          ELSE IF ~p.ready THEN {kept}
          ELSE {[kept EXCEPT !.s = o.s, !.served = TRUE,
                             !.threw = ~o.served /\ ~TCPClosed(rule, o.s) /\ TCPInterest(rule, o.s)]
                  : o \in TCPCallback(rule, c.s)}
  BY Zenon DEF TCPLoop!Visit, Put
<1> HIDE DEF kept
<1>8. d \in TCPLoop!Visit(c, rule, p) /\ TCPFacts(rule, p, s, s.pair, s.net)
  OBVIOUS
<1> HIDE DEF rule, p
<1>9. ASSUME d = kept PROVE TCPWalk(d, k, s, rules, a, rm, ty, ok)
  <2>1. \A j \in 1 .. k : Stays(rules[j], longer) \/ TCPGone(rules[j], c.s.pair)
    BY <1>2, <1>4, <1>6
  <2> QED
    BY <1>2, <1>4, <1>5, <1>9, <2>1 DEF TCPWalk
<1>10. CASE c.served
  <2>1. d = kept
    BY <1>7, <1>8, <1>10
  <2> QED
    BY <1>9, <2>1
<1>11. CASE ~c.served
  <2>1. c.s = s /\ ~p.err
    BY <1>1, <1>2, <1>8, <1>11, TCPTakenAway
  <2>2. CASE TCPLoop!HungUp(rule, p)
    <3>1. TCPCancel(rule, s) = s /\ TCPGone(rule, s.pair)
      BY <1>1, <1>8, <2>2, TCPTakenAway
    <3>2. d = Put(c, "s", s)
      BY <1>7, <1>8, <1>11, <2>1, <2>2, <3>1
    <3>3. /\ IsRecord(d, Visiting) /\ d.s = s /\ d.rules = c.rules /\ d.served = c.served /\ d.threw = c.threw
      <4>1. IsRecord(d, Visiting) /\ d["s"] = s /\ \A g \in Visiting \ {"s"} : d[g] = c[g]
        BY <1>2, <1>3, <3>2, PutOne
      <4> QED
        BY <4>1 DEF Visiting
    <3>4. Walked(rules, k, c.rules)
      BY <1>1, <1>2, RuleGoes
    <3>5. \A j \in 1 .. k : Stays(rules[j], c.rules) \/ TCPGone(rules[j], s.pair)
      BY <1>2, <1>6, <2>1, <3>1
    <3> QED
      BY <1>2, <2>1, <3>3, <3>4, <3>5 DEF TCPWalk
  <2>3. CASE ~TCPLoop!HungUp(rule, p) /\ ~p.ready
    <3>1. d = kept
      BY <1>7, <1>8, <1>11, <2>1, <2>3
    <3> QED
      BY <1>9, <3>1
  <2>4. CASE ~TCPLoop!HungUp(rule, p) /\ p.ready
    <3>1. PICK o \in TCPCallback(rule, s) :
            d = [kept EXCEPT !.s = o.s, !.served = TRUE,
                             !.threw = ~o.served /\ ~TCPClosed(rule, o.s) /\ TCPInterest(rule, o.s)]
      BY <1>7, <1>8, <1>11, <2>1, <2>4
    <3>2. /\ TCPGood(o.s, a, rm, ty, ok) /\ TCPOnward(s, o.s)
          /\ o.served \/ TCPClosed(rule, o.s) \/ ~TCPInterest(rule, o.s)
      BY <1>1, <1>2, <1>8, <2>1, <2>4, TCPServed
    <3> DEFINE u == o.s
               no == ~o.served /\ ~TCPClosed(rule, o.s) /\ TCPInterest(rule, o.s)
    <3>3. no = FALSE
      BY <3>2
    <3>4. d = Put(Put(Put(kept, "s", u), "served", Yes), "threw", no)
      <4> HIDE DEF no, u
      <4>1. d = [kept EXCEPT !.s = u, !.served = TRUE, !.threw = no]
        BY <3>1, Zenon DEF no, u
      <4> QED
        BY <4>1, Zenon DEF Put, Yes
    <3> HIDE DEF no, u
    <3>5. /\ IsRecord(d, Visiting) /\ d.s = u /\ d.rules = longer /\ d.served = Yes /\ d.threw = no
      <4>1. /\ IsRecord(d, Visiting) /\ d["s"] = u /\ d["served"] = Yes /\ d["threw"] = no
            /\ \A g \in Visiting \ {"s", "served", "threw"} : d[g] = kept[g]
        BY <1>3, <1>5, <3>4, PutThree
      <4> QED
        BY <1>5, <4>1 DEF Visiting
    <3>6. TCPGood(u, a, rm, ty, ok) /\ TCPOnward(s, u)
      BY <3>2 DEF u
    <3>7. u.pair \in Pipes
      BY <3>6 DEF TCPGood, Sound
    <3>8. \A j \in 1 .. k : Stays(rules[j], longer) \/ TCPGone(rules[j], u.pair)
      <4>1. \A j \in 1 .. k - 1 : Stays(rules[j], longer) \/ TCPGone(rules[j], u.pair)
        BY <1>2, <1>4, <2>1, <3>6, <3>7, TCPStaysGone
      <4> QED
        BY <1>4, <1>6, <4>1
    <3> QED
      BY <1>4, <3>3, <3>5, <3>6, <3>8 DEF TCPWalk, Yes
  <2> QED
    BY <2>2, <2>3, <2>4
<1> QED
  BY <1>10, <1>11

(***************************************************************************)
(* TCPLoop!Dispatch visits one rule after the other.                      *)
(***************************************************************************)
TCPTurn(cs, rule, p) == UNION {TCPLoop!Visit(c, rule, p) : c \in cs}

(***************************************************************************)
(* The walk of the TCP thread's loop over its rules after poll, rule by    *)
(* rule.                                                                   *)
(***************************************************************************)
LEMMA TCPDispatchUnfold ==
    ASSUME NEW rules, NEW n \in Nat, n = Len(rules), NEW revents, NEW s
    PROVE  \E after :
             /\ TCPLoop!Dispatch(rules, revents, s) = after[n]
             /\ after[0] = {[s |-> s, rules |-> << >>, served |-> FALSE, threw |-> FALSE]}
             /\ \A k \in 1 .. n :
                  after[k] = TCPTurn(after[k - 1], rules[k], revents[k])
<1> DEFINE start == {[s |-> s, rules |-> << >>, served |-> FALSE, threw |-> FALSE]}
           Turn(cs, k) == TCPTurn(cs, rules[k], revents[k])
           Runs(g, m) == g = [k \in 0 .. m |-> IF k = 0 THEN start ELSE Turn(g[k - 1], k)]
           after == CHOOSE g : Runs(g, n)
<1>1. TCPLoop!Dispatch(rules, revents, s) = after[n]
  BY Zenon DEF TCPLoop!Dispatch, TCPTurn
<1> HIDE DEF start, Turn
<1> DEFINE built == {m \in 0 .. n : \E g : Runs(g, m)}
<1>2. 0 \in built
  <2> DEFINE g == [k \in 0 .. 0 |-> start]
  <2>1. g[0] = start
    OBVIOUS
  <2>2. g = [k \in 0 .. 0 |-> IF k = 0 THEN start ELSE Turn(g[k - 1], k)]
    OBVIOUS
  <2> HIDE DEF g
  <2>3. \E h : Runs(h, 0)
    BY <2>2
  <2> QED
    BY <2>3
<1>3. ASSUME NEW m \in built, m < n PROVE m + 1 \in built
  <2>1. m \in Nat /\ m + 1 \in 0 .. n
    BY <1>3
  <2>2. PICK g : Runs(g, m)
    BY <1>3
  <2> DEFINE last == Turn(g[m], m + 1)
             h == [k \in 0 .. m + 1 |-> IF k <= m THEN g[k] ELSE last]
  <2> HIDE DEF last
  <2>3. \A k \in 0 .. m : g[k] = IF k = 0 THEN start ELSE Turn(g[k - 1], k)
    BY <2>2
  <2>4. \A k \in 0 .. m : h[k] = g[k]
    BY <2>1
  <2>5. h[m + 1] = last
    BY <2>1
  <2>6. ASSUME NEW k \in 0 .. m + 1 PROVE h[k] = IF k = 0 THEN start ELSE Turn(h[k - 1], k)
    <3>1. CASE k = 0
      BY <3>1, <2>1, <2>3, <2>4
    <3>2. CASE k \in 1 .. m
      <4>1. k - 1 \in 0 .. m /\ k \in 0 .. m /\ k # 0
        BY <2>1, <3>2
      <4> HIDE DEF h
      <4> QED
        BY <2>3, <2>4, <4>1
    <3>3. CASE k = m + 1
      <4>1. k - 1 = m /\ m \in 0 .. m /\ k # 0
        BY <2>1, <3>3
      <4> HIDE DEF h
      <4> QED
        BY <2>4, <2>5, <3>3, <4>1 DEF last
    <3> QED
      BY <2>1, <3>1, <3>2, <3>3
  <2>7. Runs(h, m + 1)
    <3> DEFINE hh == [k \in 0 .. m + 1 |-> IF k = 0 THEN start ELSE Turn(h[k - 1], k)]
    <3>1. DOMAIN h = 0 .. m + 1 /\ h = [k \in 0 .. m + 1 |-> h[k]]
      OBVIOUS
    <3> HIDE DEF h
    <3> QED
      BY <2>6, <3>1, Zenon
  <2> HIDE DEF h
  <2> QED
    BY <2>1, <2>7
<1>4. n \in built
  <2>1. built \in SUBSET (0 .. n)
    OBVIOUS
  <2> HIDE DEF built
  <2>2. built = 0 .. n
    BY <1>2, <1>3, <2>1, BoundedInduction
  <2> QED
    BY <2>2
<1>5. Runs(after, n)
  <2>1. \E g : Runs(g, n)
    BY <1>4
  <2> HIDE DEF Runs
  <2> QED
    BY <2>1
<1> HIDE DEF after
<1>6. \A k \in 0 .. n : after[k] = IF k = 0 THEN start ELSE Turn(after[k - 1], k)
  BY <1>5
<1>7. after[0] = start /\ \A k \in 1 .. n : after[k] = Turn(after[k - 1], k)
  BY <1>6
<1> QED
  BY <1>1, <1>7 DEF start, Turn

(***************************************************************************)
(* The second half of a call of wait_next_event in the TCP loop.       *)
(***************************************************************************)
LEMMA TCPDispatched ==
    ASSUME NEW s, NEW a, NEW rm, NEW ty, NEW ok, TCPGood(s, a, rm, ty, ok), ~s.killed,
           NEW rules, TCPRulesLeft(rules, s.pair),
           NEW revents, \A k \in 1 .. Len(rules) : TCPFacts(rules[k], revents[k], s, s.pair, s.net),
           NEW c \in TCPLoop!Dispatch(rules, revents, s)
    PROVE  /\ TCPGood(c.s, a, rm, ty, ok) /\ TCPOnward(s, c.s) /\ c.threw = FALSE
           /\ TCPRulesLeft(c.rules, c.s.pair)
<1>0. PICK n \in Nat : n = Len(rules)
  BY LenIsNat DEF TCPRulesLeft
<1> DEFINE W(d, k) == TCPWalk(d, k, s, rules, a, rm, ty, ok)
           start == [s |-> s, rules |-> << >>, served |-> FALSE, threw |-> FALSE]
<1>1. rules \in Seq(TCPRuleSet) /\ InOrder(rules) /\ n \in Nat /\ n = Len(rules)
  BY <1>0 DEF TCPRulesLeft
<1>2. PICK after :
        /\ TCPLoop!Dispatch(rules, revents, s) = after[n]
        /\ after[0] = {start}
        /\ \A k \in 1 .. n :
             after[k] = TCPTurn(after[k - 1], rules[k], revents[k])
  <2> HIDE DEF start
  <2>1. \E after :
        /\ TCPLoop!Dispatch(rules, revents, s) = after[n]
        /\ after[0] = {[s |-> s, rules |-> << >>, served |-> FALSE, threw |-> FALSE]}
        /\ \A k \in 1 .. n :
             after[k] = TCPTurn(after[k - 1], rules[k], revents[k])
    BY <1>0, TCPDispatchUnfold
  <2> QED
    BY <2>1 DEF start
<1>3. W(start, 0)
  <2>1. /\ start.s = s /\ start.rules = << >> /\ start.threw = FALSE /\ IsRecord(start, Visiting)
    BY DEF IsRecord, Visiting
  <2>2. TCPOnward(s, s)
    BY DEF TCPOnward
  <2>3. \A j \in 0 + 1 .. n : TCPFacts(rules[j], revents[j], s, s.pair, s.net)
    BY <1>1
  <2>4. \A j \in 1 .. 0 : FALSE
    OBVIOUS
  <2>5. << >> \in Seq(TCPRuleSet) /\ Walked(rules, 0, << >>)
    BY NoRules
  <2> HIDE DEF start
  <2> QED
    BY <2>1, <2>2, <2>3, <2>4, <2>5 DEF TCPWalk
<1> HIDE DEF start
<1> DEFINE sound == {k \in 0 .. n : \A d \in after[k] : W(d, k)}
<1>4. 0 \in sound
  BY <1>1, <1>2, <1>3
<1>5. ASSUME NEW k \in sound, k < n PROVE k + 1 \in sound
  <2>1. k + 1 \in 1 .. Len(rules) /\ k + 1 \in 0 .. n /\ k + 1 \in 1 .. n /\ (k + 1) - 1 = k
    BY <1>1, <1>5
  <2>2. \A d \in after[k] : W(d, k)
    OBVIOUS
  <2> SUFFICES ASSUME NEW e \in after[k + 1] PROVE W(e, k + 1)
    BY <2>1
  <2>3. PICK d \in after[k] : e \in TCPLoop!Visit(d, rules[k + 1], revents[k + 1])
    BY <1>2, <2>1 DEF TCPTurn
  <2> DEFINE m == k + 1
  <2>4. m \in 1 .. Len(rules) /\ TCPWalk(d, m - 1, s, rules, a, rm, ty, ok)
    BY <2>1, <2>2
  <2> HIDE DEF m
  <2>5. e \in TCPLoop!Visit(d, rules[m], revents[m])
    BY <2>3 DEF m
  <2>6. TCPWalk(e, m, s, rules, a, rm, ty, ok)
    BY <1>1, <2>4, <2>5, TCPVisit
  <2> QED
    BY <2>6 DEF m
<1>6. n \in sound
  <2>1. sound \in SUBSET (0 .. n)
    OBVIOUS
  <2> HIDE DEF sound
  <2>2. sound = 0 .. n
    BY <1>1, <1>4, <1>5, <2>1, BoundedInduction
  <2> QED
    BY <1>1, <2>2
<1>7. W(c, n)
  BY <1>2, <1>6
<1>8. /\ c.threw = FALSE /\ TCPGood(c.s, a, rm, ty, ok) /\ TCPOnward(s, c.s)
      /\ c.rules \in Seq(TCPRuleSet) /\ Walked(rules, n, c.rules)
      /\ \A j \in 1 .. n : Stays(rules[j], c.rules) \/ TCPGone(rules[j], c.s.pair)
  BY <1>7 DEF TCPWalk
<1>9. ASSUME NEW rule \in TCPRuleSet, Missing(rule, c.rules) PROVE TCPGone(rule, c.s.pair)
  <2>1. ~Stays(rule, c.rules)
    BY <1>9 DEF Missing, Stays
  <2>2. CASE Missing(rule, rules)
    <3>1. TCPGone(rule, s.pair)
      BY <2>2 DEF TCPRulesLeft
    <3>2. c.s.pair \in Pipes
      BY <1>8 DEF TCPGood, Sound
    <3> QED
      BY <1>8, <3>1, <3>2, TCPStaysGone
  <2>3. CASE ~Missing(rule, rules)
    <3>1. PICK j \in 1 .. n : rules[j] = rule
      BY <1>1, <2>3 DEF Missing
    <3> QED
      BY <1>8, <2>1, <3>1
  <2> QED
    BY <2>2, <2>3
<1>10. TCPRulesLeft(c.rules, c.s.pair)
  BY <1>8, <1>9 DEF TCPRulesLeft, Walked
<1> QED
  BY <1>8, <1>10

(***************************************************************************)
(* TCPLoop!Prepare asks one rule after the other.                         *)
(***************************************************************************)
TCPAsk(cs, rule) == {TCPLoop!PrepareRule(c, rule) : c \in cs}

(***************************************************************************)
(* The walk of the TCP thread's loop over its rules before poll, rule by   *)
(* rule.                                                                   *)
(***************************************************************************)
LEMMA TCPPrepareUnfold ==
    ASSUME NEW rules, NEW n \in Nat, n = Len(rules), NEW s
    PROVE  \E after :
             /\ TCPLoop!Prepare(rules, s) = after[n]
             /\ after[0] = {[s |-> s, rules |-> << >>, events |-> << >>]}
             /\ \A k \in 1 .. n :
                  after[k] = TCPAsk(after[k - 1], rules[k])
<1> DEFINE start == {[s |-> s, rules |-> << >>, events |-> << >>]}
           Turn(cs, k) == TCPAsk(cs, rules[k])
           Runs(g, m) == g = [k \in 0 .. m |-> IF k = 0 THEN start ELSE Turn(g[k - 1], k)]
           after == CHOOSE g : Runs(g, n)
<1>1. TCPLoop!Prepare(rules, s) = after[n]
  BY Zenon DEF TCPLoop!Prepare, TCPAsk
<1> HIDE DEF start, Turn
<1> DEFINE built == {m \in 0 .. n : \E g : Runs(g, m)}
<1>2. 0 \in built
  <2> DEFINE g == [k \in 0 .. 0 |-> start]
  <2>1. g[0] = start
    OBVIOUS
  <2>2. g = [k \in 0 .. 0 |-> IF k = 0 THEN start ELSE Turn(g[k - 1], k)]
    OBVIOUS
  <2> HIDE DEF g
  <2>3. \E h : Runs(h, 0)
    BY <2>2
  <2> QED
    BY <2>3
<1>3. ASSUME NEW m \in built, m < n PROVE m + 1 \in built
  <2>1. m \in Nat /\ m + 1 \in 0 .. n
    BY <1>3
  <2>2. PICK g : Runs(g, m)
    BY <1>3
  <2> DEFINE last == Turn(g[m], m + 1)
             h == [k \in 0 .. m + 1 |-> IF k <= m THEN g[k] ELSE last]
  <2> HIDE DEF last
  <2>3. \A k \in 0 .. m : g[k] = IF k = 0 THEN start ELSE Turn(g[k - 1], k)
    BY <2>2
  <2>4. \A k \in 0 .. m : h[k] = g[k]
    BY <2>1
  <2>5. h[m + 1] = last
    BY <2>1
  <2>6. ASSUME NEW k \in 0 .. m + 1 PROVE h[k] = IF k = 0 THEN start ELSE Turn(h[k - 1], k)
    <3>1. CASE k = 0
      BY <3>1, <2>1, <2>3, <2>4
    <3>2. CASE k \in 1 .. m
      <4>1. k - 1 \in 0 .. m /\ k \in 0 .. m /\ k # 0
        BY <2>1, <3>2
      <4> HIDE DEF h
      <4> QED
        BY <2>3, <2>4, <4>1
    <3>3. CASE k = m + 1
      <4>1. k - 1 = m /\ m \in 0 .. m /\ k # 0
        BY <2>1, <3>3
      <4> HIDE DEF h
      <4> QED
        BY <2>4, <2>5, <3>3, <4>1 DEF last
    <3> QED
      BY <2>1, <3>1, <3>2, <3>3
  <2>7. Runs(h, m + 1)
    <3> DEFINE hh == [k \in 0 .. m + 1 |-> IF k = 0 THEN start ELSE Turn(h[k - 1], k)]
    <3>1. DOMAIN h = 0 .. m + 1 /\ h = [k \in 0 .. m + 1 |-> h[k]]
      OBVIOUS
    <3> HIDE DEF h
    <3> QED
      BY <2>6, <3>1, Zenon
  <2> HIDE DEF h
  <2> QED
    BY <2>1, <2>7
<1>4. n \in built
  <2>1. built \in SUBSET (0 .. n)
    OBVIOUS
  <2> HIDE DEF built
  <2>2. built = 0 .. n
    BY <1>2, <1>3, <2>1, BoundedInduction
  <2> QED
    BY <2>2
<1>5. Runs(after, n)
  <2>1. \E g : Runs(g, n)
    BY <1>4
  <2> HIDE DEF Runs
  <2> QED
    BY <2>1
<1> HIDE DEF after
<1>6. \A k \in 0 .. n : after[k] = IF k = 0 THEN start ELSE Turn(after[k - 1], k)
  BY <1>5
<1>7. after[0] = start /\ \A k \in 1 .. n : after[k] = Turn(after[k - 1], k)
  BY <1>6
<1> QED
  BY <1>1, <1>7 DEF start, Turn

(***************************************************************************)
(* What holds after k of the socket's rules have been asked.               *)
(***************************************************************************)
TCPAsked(c, k, s, rules) ==
    /\ IsRecord(c, Asking) /\ c.s = s
    /\ c.rules \in Seq(TCPRuleSet) /\ Walked(rules, k, c.rules)
    /\ c.events \in Seq(BOOLEAN) /\ Len(c.events) = Len(c.rules)
    /\ \A i \in 1 .. Len(c.rules) : c.events[i] <=> TCPInterest(c.rules[i], s)
    /\ \A j \in 1 .. k : Stays(rules[j], c.rules) \/ TCPGone(rules[j], s.pair)

(***************************************************************************)
(* One more rule is asked.                                                 *)
(***************************************************************************)
LEMMA TCPAsks ==
    ASSUME NEW s, NEW a, NEW rm, NEW ty, NEW ok, TCPGood(s, a, rm, ty, ok),
           NEW rules \in Seq(TCPRuleSet), InOrder(rules), NEW k \in 1 .. Len(rules),
           NEW c, TCPAsked(c, k - 1, s, rules)
    PROVE  TCPAsked(TCPLoop!PrepareRule(c, rules[k]), k, s, rules)
<1> DEFINE rule == rules[k]
           d == TCPLoop!PrepareRule(c, rule)
           ended == TCPClosed(rule, s) \/ (rule.direction = "In" /\ TCPAtEof(rule, s))
<1>1. rule \in TCPRuleSet /\ k \in Nat \ {0}
  BY LenIsNat
<1>2. /\ IsRecord(c, Asking) /\ c.s = s
      /\ c.rules \in Seq(TCPRuleSet) /\ Walked(rules, k - 1, c.rules)
      /\ c.events \in Seq(BOOLEAN) /\ Len(c.events) = Len(c.rules)
      /\ \A i \in 1 .. Len(c.rules) : c.events[i] <=> TCPInterest(c.rules[i], s)
      /\ \A j \in 1 .. k - 1 : Stays(rules[j], c.rules) \/ TCPGone(rules[j], s.pair)
  BY DEF TCPAsked
<1>3. \A j \in 1 .. k : j \in 1 .. k - 1 \/ (j = k /\ rules[j] = rule)
  BY <1>1
<1>4. "s" \in Asking /\ "rules" \in Asking /\ "events" \in Asking \ {"rules"}
  BY DEF Asking
<1>5. PICK event \in BOOLEAN : event <=> TCPInterest(rule, s)
  OBVIOUS
<1>6. d = IF ended THEN Put(c, "s", TCPCancel(rule, s))
          ELSE Put(Put(c, "rules", Append(c.rules, rule)), "events", Append(c.events, TCPInterest(rule, s)))
  BY <1>2, Zenon DEF TCPLoop!PrepareRule, Put
<1>7. TCPInterest(rule, s) = event
  <2>1. TCPInterest(rule, s) \in BOOLEAN
    BY <1>1, RulesDiffer DEF TCPInterest, TCPRuleSet, Active
  <2> QED
    BY <1>5, <2>1
<1> HIDE DEF d
<1>8. CASE ended
  <2>1. TCPCancel(rule, s) = s /\ TCPGone(rule, s.pair)
    BY <1>1, <1>8, TCPEnded
  <2>2. d = Put(c, "s", s)
    BY <1>6, <1>8, <2>1
  <2>3. IsRecord(d, Asking) /\ d.s = s /\ d.rules = c.rules /\ d.events = c.events
    <3>1. IsRecord(d, Asking) /\ d["s"] = s /\ \A g \in Asking \ {"s"} : d[g] = c[g]
      BY <1>2, <1>4, <2>2, PutOne
    <3> QED
      BY <3>1 DEF Asking
  <2>4. Walked(rules, k, c.rules)
    BY <1>1, <1>2, RuleGoes
  <2>5. \A j \in 1 .. k : Stays(rules[j], c.rules) \/ TCPGone(rules[j], s.pair)
    BY <1>2, <1>3, <2>1
  <2> QED
    BY <1>2, <2>3, <2>4, <2>5 DEF TCPAsked, d
<1>9. CASE ~ended
  <2> DEFINE more == Append(c.rules, rule)
             wanted == Append(c.events, event)
  <2>1. d = Put(Put(c, "rules", more), "events", wanted)
    BY <1>6, <1>7, <1>9
  <2>2. /\ more \in Seq(TCPRuleSet) /\ Walked(rules, k, more) /\ Stays(rule, more)
        /\ \A r : Stays(r, c.rules) => Stays(r, more)
    BY <1>2, RuleStays
  <2>3. /\ wanted \in Seq(BOOLEAN) /\ Len(wanted) = Len(more)
        /\ \A i \in 1 .. Len(more) :
             \/ i \in 1 .. Len(c.rules) /\ more[i] = c.rules[i] /\ wanted[i] = c.events[i]
             \/ more[i] = rule /\ wanted[i] = event
    <3> DEFINE old == c.rules
               asked == c.events
    <3>1. /\ old \in Seq(TCPRuleSet) /\ asked \in Seq(BOOLEAN) /\ Len(asked) = Len(old)
          /\ more = Append(old, rule) /\ wanted = Append(asked, event)
      BY <1>2
    <3> HIDE DEF old, asked, rule, more, wanted
    <3>2. /\ wanted \in Seq(BOOLEAN) /\ Len(wanted) = Len(more)
          /\ \A i \in 1 .. Len(more) :
               \/ i \in 1 .. Len(old) /\ more[i] = old[i] /\ wanted[i] = asked[i]
               \/ more[i] = rule /\ wanted[i] = event
      BY <1>1, <3>1, BothGrow
    <3> QED
      BY <3>2 DEF old, asked
  <2> HIDE DEF more, wanted, rule
  <2>4. IsRecord(d, Asking) /\ d.s = s /\ d.rules = more /\ d.events = wanted
    <3>1. IsRecord(d, Asking) /\ d["rules"] = more /\ d["events"] = wanted
          /\ \A g \in Asking \ {"rules", "events"} : d[g] = c[g]
      BY <1>2, <1>4, <2>1, PutTwo
    <3> QED
      BY <1>2, <3>1 DEF Asking
  <2>5. \A i \in 1 .. Len(more) : wanted[i] <=> TCPInterest(more[i], s)
    BY <1>2, <1>5, <2>3
  <2>6. \A j \in 1 .. k : Stays(rules[j], more) \/ TCPGone(rules[j], s.pair)
    BY <1>2, <1>3, <2>2
  <2> QED
    BY <2>2, <2>3, <2>4, <2>5, <2>6 DEF TCPAsked, d, rule
<1> QED
  BY <1>8, <1>9

(***************************************************************************)
(* The first half of a call of wait_next_event in the TCP loop: it     *)
(* changes nothing but the list of rules, and what poll says is sound.     *)
(***************************************************************************)
LEMMA TCPPrepared ==
    ASSUME NEW s, NEW a, NEW rm, NEW ty, NEW ok, TCPGood(s, a, rm, ty, ok),
           NEW rules, TCPRulesLeft(rules, s.pair), NEW c \in TCPLoop!Prepare(rules, s)
    PROVE  /\ c.s = s /\ TCPRulesLeft(c.rules, s.pair)
           /\ c.events \in Seq(BOOLEAN) /\ Len(c.events) = Len(c.rules)
           /\ \A i \in 1 .. Len(c.rules) : c.events[i] <=> TCPInterest(c.rules[i], s)
           /\ \A i \in 1 .. Len(c.rules) : TCPFacts(c.rules[i], TCPLoop!Poll(c)[i], s, s.pair, s.net)
<1> DEFINE A(d, k) == TCPAsked(d, k, s, rules)
           start == [s |-> s, rules |-> << >>, events |-> << >>]
<1>0. PICK n \in Nat : n = Len(rules)
  BY LenIsNat DEF TCPRulesLeft
<1>1. rules \in Seq(TCPRuleSet) /\ InOrder(rules) /\ n \in Nat /\ n = Len(rules)
  BY <1>0 DEF TCPRulesLeft
<1>2. PICK after :
        /\ TCPLoop!Prepare(rules, s) = after[n]
        /\ after[0] = {start}
        /\ \A k \in 1 .. n : after[k] = TCPAsk(after[k - 1], rules[k])
  <2> HIDE DEF start
  <2>1. \E after :
        /\ TCPLoop!Prepare(rules, s) = after[n]
        /\ after[0] = {[s |-> s, rules |-> << >>, events |-> << >>]}
        /\ \A k \in 1 .. n : after[k] = TCPAsk(after[k - 1], rules[k])
    BY <1>0, TCPPrepareUnfold
  <2> QED
    BY <2>1 DEF start
<1>3. A(start, 0)
  <2>1. /\ start.s = s /\ start.rules = << >> /\ start.events = << >> /\ IsRecord(start, Asking)
    BY DEF IsRecord, Asking
  <2>2. \A j \in 1 .. 0 : FALSE
    OBVIOUS
  <2>3. << >> \in Seq(TCPRuleSet) /\ << >> \in Seq(BOOLEAN) /\ Len(<< >>) = 0 /\ Walked(rules, 0, << >>)
    BY NoRules
  <2> HIDE DEF start
  <2> QED
    BY <2>1, <2>2, <2>3 DEF TCPAsked
<1> HIDE DEF start
<1> DEFINE sound == {k \in 0 .. n : \A d \in after[k] : A(d, k)}
<1>4. 0 \in sound
  BY <1>1, <1>2, <1>3
<1>5. ASSUME NEW k \in sound, k < n PROVE k + 1 \in sound
  <2>1. k + 1 \in 1 .. Len(rules) /\ k + 1 \in 0 .. n /\ k + 1 \in 1 .. n /\ (k + 1) - 1 = k
    BY <1>1, <1>5
  <2>2. \A d \in after[k] : A(d, k)
    OBVIOUS
  <2> SUFFICES ASSUME NEW e \in after[k + 1] PROVE A(e, k + 1)
    BY <2>1
  <2>3. PICK d \in after[k] : e = TCPLoop!PrepareRule(d, rules[k + 1])
    BY <1>2, <2>1 DEF TCPAsk
  <2> DEFINE m == k + 1
  <2>4. m \in 1 .. Len(rules) /\ TCPAsked(d, m - 1, s, rules)
    BY <2>1, <2>2
  <2> HIDE DEF m
  <2>5. e = TCPLoop!PrepareRule(d, rules[m])
    BY <2>3 DEF m
  <2>6. TCPAsked(e, m, s, rules)
    BY <1>1, <2>4, <2>5, TCPAsks
  <2> QED
    BY <2>6 DEF m
<1>6. n \in sound
  <2>1. sound \in SUBSET (0 .. n)
    OBVIOUS
  <2> HIDE DEF sound
  <2>2. sound = 0 .. n
    BY <1>1, <1>4, <1>5, <2>1, BoundedInduction
  <2> QED
    BY <1>1, <2>2
<1>7. A(c, n)
  BY <1>2, <1>6
<1>8. /\ IsRecord(c, Asking) /\ c.s = s
      /\ c.rules \in Seq(TCPRuleSet) /\ Walked(rules, n, c.rules)
      /\ c.events \in Seq(BOOLEAN) /\ Len(c.events) = Len(c.rules)
      /\ \A i \in 1 .. Len(c.rules) : c.events[i] <=> TCPInterest(c.rules[i], s)
      /\ \A j \in 1 .. n : Stays(rules[j], c.rules) \/ TCPGone(rules[j], s.pair)
  BY <1>7 DEF TCPAsked
<1>9. ASSUME NEW rule \in TCPRuleSet, Missing(rule, c.rules) PROVE TCPGone(rule, s.pair)
  <2>1. ~Stays(rule, c.rules)
    BY <1>9 DEF Missing, Stays
  <2>2. CASE Missing(rule, rules)
    BY <2>2 DEF TCPRulesLeft
  <2>3. CASE ~Missing(rule, rules)
    <3>1. PICK j \in 1 .. n : rules[j] = rule
      BY <1>1, <2>3 DEF Missing
    <3> QED
      BY <1>8, <2>1, <3>1
  <2> QED
    BY <2>2, <2>3
<1>10. TCPRulesLeft(c.rules, s.pair)
  BY <1>8, <1>9 DEF TCPRulesLeft, Walked
<1>11. ASSUME NEW i \in 1 .. Len(c.rules) PROVE TCPFacts(c.rules[i], TCPLoop!Poll(c)[i], s, s.pair, s.net)
  <2> DEFINE rule == c.rules[i]
             now == TCPRevents(rule, s)
             ready == c.events[i] /\ now.ready
             r == [events |-> c.events[i], ready |-> ready, hup |-> now.hup, err |-> now.err]
  <2>1. rule \in TCPRuleSet /\ i \in DOMAIN c.rules /\ (c.events[i] <=> TCPInterest(rule, s))
    BY <1>8
  <2>2. TCPLoop!Poll(c)[i] = r
    BY <1>8, <2>1, Zenon DEF TCPLoop!Poll
  <2>3. ready <=> TCPInterest(rule, s) /\ now.ready
    BY <2>1
  <2> HIDE DEF ready, now
  <2>4. r.events = c.events[i] /\ r.ready = ready /\ r.hup = now.hup /\ r.err = now.err
    OBVIOUS
  <2> HIDE DEF r
  <2>5. TCPFacts(rule, r, s, s.pair, s.net)
    <3> HIDE DEF rule
    <3>1. /\ r.events <=> TCPInterest(rule, s)
          /\ r.ready <=> TCPInterest(rule, s) /\ TCPRevents(rule, s).ready
          /\ r.hup <=> TCPRevents(rule, s).hup
          /\ r.err <=> TCPRevents(rule, s).err
      BY <2>1, <2>3, <2>4 DEF now
    <3> QED
      BY <2>1, <3>1, TCPPolled
  <2> QED
    BY <2>2, <2>5
<1> QED
  BY <1>8, <1>10, <1>11

(***************************************************************************)
(* The first half of a call always comes to its end.                       *)
(***************************************************************************)
LEMMA TCPAlwaysAnswers ==
    ASSUME NEW s, NEW rules \in Seq(TCPRuleSet)
    PROVE  \E c : c \in TCPLoop!Prepare(rules, s)
<1>1. PICK n \in Nat : n = Len(rules)
  BY LenIsNat
<1>2. PICK after :
        /\ TCPLoop!Prepare(rules, s) = after[n]
        /\ after[0] = {[s |-> s, rules |-> << >>, events |-> << >>]}
        /\ \A k \in 1 .. n : after[k] = TCPAsk(after[k - 1], rules[k])
  BY <1>1, TCPPrepareUnfold
<1> DEFINE some == {k \in 0 .. n : \E c : c \in after[k]}
<1>3. 0 \in some
  <2>1. [s |-> s, rules |-> << >>, events |-> << >>] \in after[0] /\ 0 \in 0 .. n
    BY <1>1, <1>2
  <2> QED
    BY <2>1
<1>4. ASSUME NEW k \in some, k < n PROVE k + 1 \in some
  <2>1. k + 1 \in 0 .. n /\ k + 1 \in 1 .. n /\ (k + 1) - 1 = k
    BY <1>1, <1>4
  <2>2. PICK c : c \in after[k]
    OBVIOUS
  <2>3. TCPLoop!PrepareRule(c, rules[k + 1]) \in after[k + 1]
    BY <1>2, <2>1, <2>2 DEF TCPAsk
  <2> QED
    BY <2>1, <2>3
<1>5. n \in some
  <2>1. some \in SUBSET (0 .. n)
    OBVIOUS
  <2> HIDE DEF some
  <2>2. some = 0 .. n
    BY <1>1, <1>3, <1>4, <2>1, BoundedInduction
  <2> QED
    BY <1>1, <2>2
<1> QED
  BY <1>2, <1>5

-----------------------------------------------------------------------------
(***************************************************************************)
(* The soundness of the owner's and the socket's state depends on their    *)
(* fields only, so it passes between the states of the loops and the       *)
(* program's variables.                                                    *)
(***************************************************************************)
SameApp(a, b) == \A f \in AppFields : a[f] = b[f]
SameSock(t, u) == \A f \in SockFields : t[f] = u[f]

(***************************************************************************)
(* States of the owner that agree field by field.                          *)
(***************************************************************************)
LEMMA SameAppFields ==
    ASSUME NEW a, NEW b, SameApp(a, b)
    PROVE  /\ a.outbound = b.outbound /\ a.inbound = b.inbound
           /\ a.outbound_shutdown = b.outbound_shutdown /\ a.inbound_shutdown = b.inbound_shutdown
           /\ a.socket = b.socket /\ a.input = b.input /\ a.output = b.output
           /\ a.stdin = b.stdin /\ a.stdout = b.stdout
BY DEF SameApp, AppFields

(***************************************************************************)
(* States of the socket that agree field by field.                         *)
(***************************************************************************)
LEMMA SameSockFields ==
    ASSUME NEW t, NEW u, SameSock(t, u)
    PROVE  /\ t.peer = u.peer /\ t.thread_data = u.thread_data
           /\ t.inbound_shutdown = u.inbound_shutdown /\ t.outbound_shutdown = u.outbound_shutdown
BY DEF SameSock, SockFields

(***************************************************************************)
(* The invariant of the data reads nothing but these fields.               *)
(***************************************************************************)
LEMMA SameSound ==
    ASSUME NEW a, NEW b, SameApp(a, b), NEW t, NEW u, SameSock(t, u),
           NEW pr, NEW nt, NEW rm, NEW ty, NEW ok, Sound(a, t, pr, nt, rm, ty, ok)
    PROVE  Sound(b, u, pr, nt, rm, ty, ok)
<1>1. /\ a.outbound = b.outbound /\ a.inbound = b.inbound
      /\ a.outbound_shutdown = b.outbound_shutdown /\ a.inbound_shutdown = b.inbound_shutdown
      /\ a.socket = b.socket /\ a.input = b.input /\ a.output = b.output
      /\ a.stdin = b.stdin /\ a.stdout = b.stdout
  BY SameAppFields
<1>2. /\ t.peer = u.peer /\ t.thread_data = u.thread_data
      /\ t.inbound_shutdown = u.inbound_shutdown /\ t.outbound_shutdown = u.outbound_shutdown
  BY SameSockFields
<1>3. AppTypes(b) /\ TCPTypes(u) /\ pr \in Pipes /\ nt \in Segments /\ rm \in Remotes /\ ty \in Nat /\ ok \in BOOLEAN
  BY <1>1, <1>2 DEF Sound, AppTypes, TCPTypes
<1>4. OutApp(b, pr, ok)
  BY <1>1 DEF Sound, OutApp
<1>8. InApp(b, pr, ok)
  BY <1>1 DEF Sound, InApp
<1>5. OutTCP(u, pr) /\ InTCP(u, pr, nt, rm, ok)
  BY <1>2, Zenon DEF Sound, OutTCP, InTCP
<1>6. Filling(u.peer) /\ NotIdle(u.peer) /\ Answers(u.peer, nt, rm)
  BY <1>2 DEF Sound
<1>7. OutChain(b, u.peer, pr, nt, rm, ty) /\ InChain(b, u.peer, pr, nt, rm)
  BY <1>1, <1>2, Zenon DEF Sound, OutChain, InChain
<1> QED
  BY <1>3, <1>4, <1>5, <1>6, <1>7, <1>8 DEF Sound

(***************************************************************************)
(* The states that the two loops run on.                                   *)
(***************************************************************************)
LEMMA CopyStateFields ==
    ASSUME IsRecord(app, AppFields)
    PROVE  /\ IsRecord(CopyState, CopyFields) /\ SameApp(app, CopyState)
           /\ CopyState.pair = pair /\ CopyState.killed = killed
<1>1. DOMAIN app = AppFields
  BY DEF IsRecord
<1>2. CopyState = [f \in CopyFields |->
                      IF f = "pair" THEN pair ELSE IF f = "killed" THEN killed ELSE app[f]]
  BY <1>1 DEF CopyState, CopyFields
<1>3. "pair" \in CopyFields /\ "killed" \in CopyFields /\ "pair" \notin AppFields /\ "killed" \notin AppFields
      /\ AppFields \subseteq CopyFields
  BY DEF CopyFields, AppFields
<1> QED
  BY <1>2, <1>3 DEF IsRecord, SameApp

(***************************************************************************)
(* The state handed to the TCP thread's callbacks holds the variables it   *)
(* is built from.                                                          *)
(***************************************************************************)
LEMMA TCPStateFields ==
    ASSUME IsRecord(tcp, SockFields)
    PROVE  /\ IsRecord(TCPState, TCPFields) /\ SameSock(tcp, TCPState)
           /\ TCPState.pair = pair /\ TCPState.net = net /\ TCPState.killed = killed
<1>1. DOMAIN tcp = SockFields
  BY DEF IsRecord
<1>2. TCPState = [f \in TCPFields |->
                     IF f = "pair" THEN pair ELSE IF f = "net" THEN net
                     ELSE IF f = "killed" THEN killed ELSE tcp[f]]
  BY <1>1 DEF TCPState, TCPFields
<1>3. {"pair", "net", "killed"} \subseteq TCPFields /\ {"pair", "net", "killed"} \cap SockFields = {}
      /\ SockFields \subseteq TCPFields
  BY DEF TCPFields, SockFields
<1> QED
  BY <1>2, <1>3 DEF IsRecord, SameSock

(***************************************************************************)
(* The state handed to the owner's callbacks is good when the variables    *)
(* are.                                                                    *)
(***************************************************************************)
LEMMA CopyStateGood ==
    ASSUME Data
    PROVE  CopyGood(CopyState, tcp, net, remote, typed, Ok)
<1>1. /\ IsRecord(CopyState, CopyFields) /\ SameApp(app, CopyState)
      /\ CopyState.pair = pair /\ CopyState.killed = killed
  BY CopyStateFields DEF Data
<1>2. SameSock(tcp, tcp)
  BY DEF SameSock
<1> HIDE DEF CopyState
<1>3. Sound(app, tcp, pair, net, remote, typed, Ok) /\ killed \in BOOLEAN /\ (killed => ~Ok)
  BY DEF Data
<1>4. Sound(CopyState, tcp, pair, net, remote, typed, Ok)
  BY <1>1, <1>2, <1>3, SameSound
<1> QED
  BY <1>1, <1>3, <1>4 DEF CopyGood

(***************************************************************************)
(* The state handed to the TCP thread's callbacks is good when the         *)
(* variables are.                                                          *)
(***************************************************************************)
LEMMA TCPStateGood ==
    ASSUME Data
    PROVE  TCPGood(TCPState, app, remote, typed, Ok)
<1>1. /\ IsRecord(TCPState, TCPFields) /\ SameSock(tcp, TCPState)
      /\ TCPState.pair = pair /\ TCPState.net = net /\ TCPState.killed = killed
  BY TCPStateFields DEF Data
<1>2. SameApp(app, app)
  BY DEF SameApp
<1> HIDE DEF TCPState
<1>3. Sound(app, tcp, pair, net, remote, typed, Ok) /\ killed \in BOOLEAN /\ (killed => ~Ok)
  BY DEF Data
<1>4. Sound(app, TCPState, pair, net, remote, typed, Ok)
  BY <1>1, <1>2, <1>3, SameSound
<1> QED
  BY <1>1, <1>3, <1>4 DEF TCPGood

(***************************************************************************)
(* What a loop's step leaves in the variables.                             *)
(***************************************************************************)
LEMMA CopyKept ==
    ASSUME IsRecord(app, AppFields), NEW s, KeepCopy(s)
    PROVE  IsRecord(app', AppFields) /\ SameApp(s, app')
<1>1. DOMAIN app = AppFields
  BY DEF IsRecord
<1>2. app' = [f \in AppFields |-> s[f]]
  BY <1>1 DEF KeepCopy
<1> QED
  BY <1>2 DEF IsRecord, SameApp

(***************************************************************************)
(* What the TCP thread's callbacks leave behind is what the socket's       *)
(* variables become.                                                       *)
(***************************************************************************)
LEMMA TCPKept ==
    ASSUME IsRecord(tcp, SockFields), NEW s, KeepTCP(s)
    PROVE  IsRecord(tcp', SockFields) /\ SameSock(s, tcp')
<1>1. DOMAIN tcp = SockFields
  BY DEF IsRecord
<1>2. tcp' = [f \in SockFields |-> s[f]]
  BY <1>1 DEF KeepTCP
<1> QED
  BY <1>2 DEF IsRecord, SameSock

\* to ask the rules changes neither
LEMMA CopySame ==
    ASSUME IsRecord(app, AppFields), KeepCopy(CopyState)
    PROVE  app' = app
<1>1. IsRecord(app', AppFields) /\ SameApp(CopyState, app') /\ SameApp(app, CopyState)
  BY CopyKept, CopyStateFields
<1> HIDE DEF CopyState
<1>2. \A f \in AppFields : app'[f] = app[f]
  BY <1>1 DEF SameApp
<1> QED
  BY <1>1, <1>2 DEF IsRecord

(***************************************************************************)
(* Keeping an unchanged state leaves the socket's variables as they were.  *)
(***************************************************************************)
LEMMA TCPSame ==
    ASSUME IsRecord(tcp, SockFields), KeepTCP(TCPState)
    PROVE  tcp' = tcp
<1>1. IsRecord(tcp', SockFields) /\ SameSock(TCPState, tcp') /\ SameSock(tcp, TCPState)
  BY TCPKept, TCPStateFields
<1> HIDE DEF TCPState
<1>2. \A f \in SockFields : tcp'[f] = tcp[f]
  BY <1>1 DEF SameSock
<1> QED
  BY <1>1, <1>2 DEF IsRecord

-----------------------------------------------------------------------------
(***************************************************************************)
(* As soon as something has gone wrong, less is required.                  *)
(***************************************************************************)
LEMMA SoundWeaker ==
    ASSUME NEW a, NEW t, NEW pr, NEW nt, NEW rm, NEW ty, NEW ok, Sound(a, t, pr, nt, rm, ty, ok)
    PROVE  Sound(a, t, pr, nt, rm, ty, FALSE)
<1>1. OutApp(a, pr, FALSE) /\ InApp(a, pr, FALSE)
  BY DEF Sound, OutApp, InApp
<1>2. InTCP(t, pr, nt, rm, FALSE)
  BY DEF Sound, InTCP
<1> QED
  BY <1>1, <1>2 DEF Sound

(***************************************************************************)
(* The end of a thread, and wait_until_closed, shut both directions of the *)
(* pipe down: nothing is in either when nothing has gone wrong.            *)
(***************************************************************************)
LEMMA ShutBothFields ==
    ASSUME NEW pr \in Pipes
    PROVE  ShutBoth(pr) \in Pipes /\ ShutBoth(pr).to = pr.to /\ ShutBoth(pr).shut = PipeEnds
BY DEF ShutBoth, Pipes

(***************************************************************************)
(* Closing the TCP thread's end of the pipe keeps the invariant: while     *)
(* nothing has gone wrong it comes after both directions have ended.       *)
(***************************************************************************)
LEMMA ShutBothSound ==
    ASSUME NEW a, NEW t, NEW pr, NEW nt, NEW rm, NEW ty, NEW ok, Sound(a, t, pr, nt, rm, ty, ok),
           ok => a.outbound_shutdown /\ IsFinished(t.peer.in)
    PROVE  Sound(a, t, ShutBoth(pr), nt, rm, ty, ok)
<1> DEFINE both == ShutBoth(pr)
<1>1. pr \in Pipes
  BY DEF Sound
<1>2. both \in Pipes /\ both.to = pr.to /\ both.shut = PipeEnds /\ "tcp" \in both.shut /\ "app" \in both.shut
  BY <1>1, ShutBothFields DEF PipeEnds
<1> HIDE DEF both
<1>3. OutApp(a, both, ok)
  BY <1>2 DEF Sound, OutApp
<1>4. InApp(a, both, ok)
  BY <1>2 DEF Sound, InApp
<1>5. OutTCP(t, both)
  BY <1>2 DEF Sound, OutTCP
<1>6. InTCP(t, both, nt, rm, ok)
  BY <1>2 DEF Sound, InTCP
<1>7. OutChain(a, t.peer, both, nt, rm, ty) /\ InChain(a, t.peer, both, nt, rm)
  BY <1>2 DEF Sound, OutChain, InChain
<1> QED
  BY <1>2, <1>3, <1>4, <1>5, <1>6, <1>7 DEF Sound, both

(***************************************************************************)
(* What the one thread does to the pipe while the other may be between     *)
(* poll and its callbacks: the TCP thread, the owner.                      *)
(***************************************************************************)
ForCopy(pr, next) ==
    /\ next \in Pipes
    /\ pr.shut \subseteq next.shut
    /\ Len(next.to["tcp"]) <= Len(pr.to["tcp"])
    /\ pr.to["app"] # << >> => next.to["app"] # << >>

ForTCP(pr, next) ==
    /\ next \in Pipes
    /\ pr.shut \subseteq next.shut
    /\ pr.to["tcp"] # << >> => next.to["tcp"] # << >>

(***************************************************************************)
(* An unchanged pipe, or one whose ends are closed, keeps what either loop *)
(* knows of it.                                                            *)
(***************************************************************************)
LEMMA PipeStays ==
    ASSUME NEW pr \in Pipes
    PROVE  /\ ForCopy(pr, pr) /\ ForTCP(pr, pr)
           /\ ForCopy(pr, ShutBoth(pr)) /\ ForTCP(pr, ShutBoth(pr))
<1>1. pr.to["tcp"] \in Seq(Byte) /\ pr.shut \subseteq PipeEnds
  BY DEF Pipes, PipeEnds
<1>2. Len(pr.to["tcp"]) \in Nat
  BY <1>1, LenIsNat
<1> QED
  BY <1>1, <1>2, ShutBothFields DEF ForCopy, ForTCP

(***************************************************************************)
(* Closing an end after other steps keeps what either loop knows of the    *)
(* pipe.                                                                   *)
(***************************************************************************)
LEMMA ShutAfterwards ==
    ASSUME NEW pr \in Pipes, NEW later \in Pipes
    PROVE  /\ ForCopy(pr, later) => ForCopy(pr, ShutBoth(later))
           /\ ForTCP(pr, later) => ForTCP(pr, ShutBoth(later))
<1>1. pr.shut \subseteq PipeEnds
  BY DEF Pipes
<1> QED
  BY <1>1, ShutBothFields DEF ForCopy, ForTCP

(***************************************************************************)
(* What poll has told the one thread is still so after the other's steps.  *)
(***************************************************************************)
LEMMA CopyFactsStay ==
    ASSUME NEW rule, NEW r, NEW a, NEW pr \in Pipes, NEW next, ForCopy(pr, next), CopyFacts(rule, r, a, pr)
    PROVE  CopyFacts(rule, r, a, next)
<1>1. /\ pr.to["tcp"] \in Seq(Byte) /\ next.to["tcp"] \in Seq(Byte)
      /\ next.shut \subseteq PipeEnds /\ pr.shut \subseteq next.shut
      /\ Len(next.to["tcp"]) <= Len(pr.to["tcp"])
      /\ pr.to["app"] # << >> => next.to["app"] # << >>
  BY DEF ForCopy, Pipes, PipeEnds
<1>2. Len(pr.to["tcp"]) \in Nat /\ Len(next.to["tcp"]) \in Nat /\ PipeCapacity \in Nat
  BY <1>1, LenIsNat, DescriptorAssumption
<1>3. Len(pr.to["tcp"]) < PipeCapacity => Len(next.to["tcp"]) < PipeCapacity
  BY <1>1, <1>2
<1>4. pr.shut = PipeEnds => next.shut = PipeEnds
  BY <1>1
<1>5. "app" \in pr.shut => "app" \in next.shut
  BY <1>1
<1> QED
  BY <1>1, <1>3, <1>4, <1>5 DEF CopyFacts

(***************************************************************************)
(* What poll told the TCP thread of a rule stays true while others only    *)
(* add to what it reads, take from what it wrote, or send a segment.       *)
(***************************************************************************)
LEMMA TCPFactsStay ==
    ASSUME NEW rule, NEW r, NEW t, NEW pr \in Pipes, NEW next, ForTCP(pr, next), NEW nt, NEW seg,
           seg = nt \/ nt = NoSegment, TCPFacts(rule, r, t, pr, nt)
    PROVE  TCPFacts(rule, r, t, next, seg)
<1>1. /\ next.shut \subseteq PipeEnds /\ pr.shut \subseteq next.shut
      /\ pr.to["tcp"] # << >> => next.to["tcp"] # << >>
  BY DEF ForTCP, Pipes
<1>2. pr.shut = PipeEnds => next.shut = PipeEnds
  BY <1>1
<1> QED
  BY <1>1, <1>2 DEF TCPFacts

(***************************************************************************)
(* A rule the owner's loop has dropped stays rightly dropped when          *)
(* directions of the pipe end.                                             *)
(***************************************************************************)
LEMMA CopyRulesStay ==
    ASSUME NEW rules, NEW a, NEW pr \in Pipes, NEW next \in Pipes, pr.shut \subseteq next.shut,
           NEW ok, NEW still, still => ok, CopyRulesLeft(rules, a, pr, ok)
    PROVE  CopyRulesLeft(rules, a, next, still)
<1>1. pr.shut = PipeEnds => next.shut = PipeEnds
  BY DEF Pipes
<1> QED
  BY <1>1 DEF CopyRulesLeft, CopyGone

(***************************************************************************)
(* A rule the TCP thread's loop has dropped stays rightly dropped when     *)
(* directions of the pipe end.                                             *)
(***************************************************************************)
LEMMA TCPRulesStay ==
    ASSUME NEW rules, NEW pr \in Pipes, NEW next \in Pipes, pr.shut \subseteq next.shut, TCPRulesLeft(rules, pr)
    PROVE  TCPRulesLeft(rules, next)
<1>1. pr.shut = PipeEnds => next.shut = PipeEnds
  BY DEF Pipes
<1> QED
  BY <1>1 DEF TCPRulesLeft, TCPGone

(***************************************************************************)
(* The loops, as long as their own threads do nothing.                     *)
(***************************************************************************)
LEMMA CopyLoopWaits ==
    ASSUME Data, CopyLoopSound, appLoop' = appLoop, app' = app, ForCopy(pair, pair'), Ok' => Ok
    PROVE  CopyLoopSound'
<1>1. pair \in Pipes /\ pair' \in Pipes /\ pair.shut \subseteq pair'.shut
  BY DEF Data, Sound, ForCopy
<1>2. CopyRulesLeft(appLoop.rules, app, pair', Ok')
  <2> DEFINE still == Ok'
  <2>1. still => Ok
    OBVIOUS
  <2> HIDE DEF still
  <2>2. CopyRulesLeft(appLoop.rules, app, pair', still)
    <3> DEFINE ok == Ok
               rules == appLoop.rules
               next == pair'
    <3>1. CopyRulesLeft(rules, app, pair, ok) /\ (still => ok) /\ next \in Pipes /\ pair.shut \subseteq next.shut
      BY <1>1, <2>1 DEF CopyLoopSound
    <3> HIDE DEF ok, rules, next
    <3>2. CopyRulesLeft(rules, app, next, still)
      BY <1>1, <3>1, CopyRulesStay
    <3> QED
      BY <3>2 DEF rules, next
  <2> QED
    BY <2>2 DEF still
<1>3. ASSUME appLoop.revents # Idle, NEW k \in 1 .. Len(appLoop.rules)
      PROVE  CopyFacts(appLoop.rules[k], appLoop.revents[k], app, pair')
  <2>1. CopyFacts(appLoop.rules[k], appLoop.revents[k], app, pair)
    BY <1>3 DEF CopyLoopSound
  <2> DEFINE rule == appLoop.rules[k]
             r == appLoop.revents[k]
             next == pair'
  <2> HIDE DEF rule, r, next
  <2>2. CopyFacts(rule, r, app, pair) /\ ForCopy(pair, next)
    BY <2>1 DEF rule, r, next
  <2>3. CopyFacts(rule, r, app, next)
    BY <1>1, <2>2, CopyFactsStay
  <2> QED
    BY <2>3 DEF rule, r, next
<1>4. IsRecord(appLoop, {"rules", "revents"})
  BY DEF CopyLoopSound
<1>5. /\ IsRecord(appLoop', {"rules", "revents"})
      /\ CopyRulesLeft(appLoop'.rules, app', pair', Ok')
      /\ appLoop'.revents # Idle => \A k \in 1 .. Len(appLoop'.rules) : CopyFacts(appLoop'.rules[k], appLoop'.revents[k], app', pair')
  BY <1>2, <1>3, <1>4
<1> QED
  BY <1>5 DEF CopyLoopSound, Idle

(***************************************************************************)
(* A step of the owner or of the world leaves the TCP thread's loop sound. *)
(***************************************************************************)
LEMMA TCPLoopWaits ==
    ASSUME Data, TCPLoopSound, tcpLoop' = tcpLoop, tcp' = tcp, ForTCP(pair, pair'), net' = net \/ net = NoSegment
    PROVE  TCPLoopSound'
<1>1. pair \in Pipes /\ pair' \in Pipes /\ pair.shut \subseteq pair'.shut
  BY DEF Data, Sound, ForTCP
<1>2. TCPRulesLeft(tcpLoop.rules, pair')
  <2> DEFINE rules == tcpLoop.rules
             next == pair'
  <2>1. TCPRulesLeft(rules, pair) /\ next \in Pipes /\ pair.shut \subseteq next.shut
    BY <1>1 DEF TCPLoopSound
  <2> HIDE DEF rules, next
  <2>2. TCPRulesLeft(rules, next)
    BY <1>1, <2>1, TCPRulesStay
  <2> QED
    BY <2>2 DEF rules, next
<1>3. ASSUME tcpLoop.revents # Idle, NEW k \in 1 .. Len(tcpLoop.rules)
      PROVE  TCPFacts(tcpLoop.rules[k], tcpLoop.revents[k], tcp, pair', net')
  <2>1. TCPFacts(tcpLoop.rules[k], tcpLoop.revents[k], tcp, pair, net)
    BY <1>3 DEF TCPLoopSound
  <2> DEFINE rule == tcpLoop.rules[k]
             r == tcpLoop.revents[k]
             next == pair'
             seg == net'
  <2> HIDE DEF rule, r, next, seg
  <2>2. TCPFacts(rule, r, tcp, pair, net) /\ ForTCP(pair, next) /\ (seg = net \/ net = NoSegment)
    BY <2>1 DEF rule, r, next, seg
  <2>3. TCPFacts(rule, r, tcp, next, seg)
    BY <1>1, <2>2, TCPFactsStay
  <2> QED
    BY <2>3 DEF rule, r, next, seg
<1>4. IsRecord(tcpLoop, {"rules", "revents"})
  BY DEF TCPLoopSound
<1>5. /\ IsRecord(tcpLoop', {"rules", "revents"})
      /\ TCPRulesLeft(tcpLoop'.rules, pair')
      /\ tcpLoop'.revents # Idle => \A k \in 1 .. Len(tcpLoop'.rules) : TCPFacts(tcpLoop'.rules[k], tcpLoop'.revents[k], tcp', pair', net')
  BY <1>2, <1>3, <1>4
<1> QED
  BY <1>5 DEF TCPLoopSound, Idle

(***************************************************************************)
(* The next byte of a stream.                                              *)
(***************************************************************************)
LEMMA NextByte ==
    ASSUME NEW first \in Nat, NEW n \in Nat
    PROVE  BytesFrom(first, n + 1) = BytesFrom(first, n) \o << first + n >>
<1>1. BytesFrom(first, n) \o BytesFrom(first + n, 1) = BytesFrom(first, n + 1)
  BY BytesFromJoined
<1>2. BytesFrom(first + n, 1) = << first + n >>
  <2> DEFINE second == first + n
  <2>1. second \in Nat
    OBVIOUS
  <2> HIDE DEF second
  <2>2. [i \in 1 .. 1 |-> second + i - 1] = << second >>
    <3> DEFINE one == [i \in 1 .. 1 |-> second + i - 1]
    <3>1. one \in Seq(Nat) /\ Len(one) = 1 /\ one[1] = second
      BY <2>1
    <3>2. << second >> \in Seq(Nat) /\ Len(<< second >>) = 1 /\ << second >>[1] = second
      BY <2>1
    <3> HIDE DEF one
    <3> QED
      BY <3>1, <3>2, SeqEqual
  <2> QED
    BY <2>2 DEF BytesFrom, second
<1> QED
  BY <1>1, <1>2

-----------------------------------------------------------------------------
(***************************************************************************)
(* The steps of the program.  What goes wrong never goes right again.      *)
(***************************************************************************)
LEMMA NoLongerOk ==
    /\ faulted' # {} => Ok' = FALSE
    /\ faulted' = faulted => Ok' = Ok
    /\ Ok \in BOOLEAN /\ Ok' \in BOOLEAN
BY DEF Ok

(***************************************************************************)
(* A step that changes no data keeps the invariant of the data, also when  *)
(* it is the one that goes wrong.                                          *)
(***************************************************************************)
LEMMA DataUnchanged ==
    ASSUME Data, UNCHANGED <<app, tcp, pair, net, killed, threw, remote, typed>>, abort' \in BOOLEAN,
           Ok' = Ok \/ Ok' = FALSE
    PROVE  Data'
<1>1. /\ IsRecord(app, AppFields) /\ IsRecord(tcp, SockFields) /\ killed \in BOOLEAN
      /\ Sound(app, tcp, pair, net, remote, typed, Ok) /\ ~threw /\ (killed => ~Ok)
  BY DEF Data
<1> DEFINE still == Ok'
<1>2. still = Ok \/ still = FALSE
  OBVIOUS
<1> HIDE DEF still
<1>3. Sound(app, tcp, pair, net, remote, typed, still) /\ (killed => ~still)
  <2> DEFINE ok == Ok
  <2>1. Sound(app, tcp, pair, net, remote, typed, ok) /\ (killed => ~ok) /\ (still = ok \/ still = FALSE)
    BY <1>1, <1>2
  <2> HIDE DEF ok
  <2>2. CASE still = FALSE
    <3>1. Sound(app, tcp, pair, net, remote, typed, FALSE)
      BY <2>1, SoundWeaker
    <3> QED
      BY <2>2, <3>1
  <2>3. CASE still = ok
    BY <2>1, <2>3
  <2> QED
    BY <2>1, <2>2, <2>3
<1> QED
  BY <1>1, <1>3 DEF Data, still

\* a step that leaves the program's data alone, and the loops
LEMMA AllUnchanged ==
    ASSUME IInv, UNCHANGED <<app, tcp, pair, net, killed, loops, threw, remote, typed>>, abort' \in BOOLEAN,
           Ok' = Ok \/ Ok' = FALSE, Threads'
    PROVE  IInv'
<1>1. Data /\ CopyLoopSound /\ TCPLoopSound /\ (Ok' => Ok)
  BY DEF IInv
<1>2. UNCHANGED <<app, tcp, pair, net, killed, threw, remote, typed, appLoop, tcpLoop>>
  BY DEF loops
<1>3. pair \in Pipes
  BY <1>1 DEF Data, Sound
<1>4. ForCopy(pair, pair') /\ ForTCP(pair, pair')
  <2>1. ForCopy(pair, pair) /\ ForTCP(pair, pair)
    BY <1>3, PipeStays
  <2> QED
    BY <1>2, <2>1
<1>5. Data'
  BY <1>1, <1>2, DataUnchanged
<1>6. CopyLoopSound' /\ TCPLoopSound'
  BY <1>1, <1>2, <1>4, CopyLoopWaits, TCPLoopWaits
<1> QED
  BY <1>5, <1>6 DEF IInv

(***************************************************************************)
(* An exception in the owner, while its socket is open, keeps the          *)
(* invariant.                                                              *)
(***************************************************************************)
LEMMA ExceptionKeeps ==
    ASSUME IInv, Exception
    PROVE  IInv'
<1>1. faulted' # {} /\ Ok' = FALSE
  BY NoLongerOk DEF Exception
<1>2. /\ UNCHANGED <<app, tcp, pair, net, killed, loops, threw, remote, typed, thread>>
      /\ abort' = TRUE /\ main' = "aborting" /\ main = "copying"
  BY DEF Exception
<1>3. Threads'
  BY <1>1, <1>2 DEF IInv, Threads, loops
<1> QED
  BY <1>1, <1>2, <1>3, AllUnchanged

(***************************************************************************)
(* Joining the TCP thread, once it has ended, keeps the invariant.         *)
(***************************************************************************)
LEMMA JoinKeeps ==
    ASSUME IInv, Join
    PROVE  IInv'
<1>1. Ok' = Ok
  BY NoLongerOk DEF Join, world
<1>2. /\ UNCHANGED <<app, tcp, pair, net, killed, loops, threw, remote, typed, thread, abort>>
      /\ main' = "done" /\ main \in {"closing", "aborting"} /\ thread = "ended"
  BY DEF Join, world
<1>3. Threads'
  BY <1>1, <1>2 DEF IInv, Threads, loops
<1>4. abort' \in BOOLEAN
  BY <1>2 DEF IInv, Data
<1> QED
  BY <1>1, <1>2, <1>3, <1>4, AllUnchanged

(***************************************************************************)
(* A step that changes nothing keeps the invariant.                        *)
(***************************************************************************)
LEMMA StutterKeeps ==
    ASSUME IInv, UNCHANGED vars
    PROVE  IInv'
<1>1. Ok' = Ok
  BY NoLongerOk DEF vars, world
<1>2. UNCHANGED <<app, tcp, pair, net, killed, loops, threw, remote, typed, main, thread, abort>>
  BY DEF vars, world, threads
<1>3. Threads'
  BY <1>1, <1>2 DEF IInv, Threads, loops
<1>4. abort' \in BOOLEAN
  BY <1>2 DEF IInv, Data
<1> QED
  BY <1>1, <1>2, <1>3, <1>4, AllUnchanged

-----------------------------------------------------------------------------
(***************************************************************************)
(* A step of the world on the owner's descriptors.                         *)
(***************************************************************************)
LEMMA WorldOnApp ==
    ASSUME IInv, UNCHANGED <<tcp, pair, net, killed, appLoop, tcpLoop, main, thread, abort, threw, remote>>,
           IsRecord(app', AppFields), Ok' = Ok \/ Ok' = FALSE,
           app'.outbound = app.outbound, app'.inbound = app.inbound,
           app'.outbound_shutdown = app.outbound_shutdown, app'.inbound_shutdown = app.inbound_shutdown,
           Sound(app', tcp, pair, net, remote, typed', Ok'),
           \A rule, r : CopyFacts(rule, r, app, pair) => CopyFacts(rule, r, app', pair)
    PROVE  IInv'
<1>1. Data /\ CopyLoopSound /\ TCPLoopSound /\ Threads /\ (Ok' => Ok)
  BY DEF IInv
<1>2. Data'
  BY <1>1 DEF Data
<1>3. CopyLoopSound'
  <2>1. CopyRulesLeft(appLoop.rules, app', pair, Ok')
    BY <1>1 DEF CopyLoopSound, CopyRulesLeft, CopyGone
  <2> QED
    BY <1>1, <2>1 DEF CopyLoopSound, Idle
<1>4. TCPLoopSound'
  BY <1>1 DEF TCPLoopSound, Idle
<1>5. Threads'
  BY <1>1 DEF Threads
<1> QED
  BY <1>2, <1>3, <1>4, <1>5 DEF IInv

(***************************************************************************)
(* A byte typed at the keyboard keeps the invariant.                       *)
(***************************************************************************)
LEMMA TypeKeeps ==
    ASSUME IInv, Type
    PROVE  IInv'
<1>1. /\ UNCHANGED <<tcp, pair, net, killed, appLoop, tcpLoop, main, thread, abort, threw, remote, faulted>>
      /\ app.stdin.end = "open" /\ typed' = typed + 1
      /\ app' = [app EXCEPT !.stdin.unread = Append(@, typed + 1)]
  BY DEF Type, loops, threads
<1>2. Ok' = Ok
  BY <1>1, NoLongerOk
<1>3. /\ IsRecord(app, AppFields) /\ AppTypes(app) /\ TCPTypes(tcp) /\ pair \in Pipes /\ net \in Segments
      /\ remote \in Remotes /\ typed \in Nat /\ Ok \in BOOLEAN
      /\ OutApp(app, pair, Ok) /\ InApp(app, pair, Ok) /\ OutChain(app, tcp.peer, pair, net, remote, typed)
      /\ InChain(app, tcp.peer, pair, net, remote)
  BY DEF IInv, Data, Sound
<1> DEFINE unread == Append(app.stdin.unread, typed + 1)
           stdin == [app.stdin EXCEPT !.unread = unread]
           next == app'
<1>4. app.stdin \in [unread : Seq(Byte), end : {"open", "eof", "hung up"}]
  BY <1>3 DEF AppTypes
<1>5. unread \in Seq(Byte) /\ unread # << >> /\ unread = app.stdin.unread \o << typed + 1 >>
  <2>1. typed + 1 \in Byte
    BY <1>3 DEF Byte
  <2>2. app.stdin.unread \in Seq(Byte)
    BY <1>4
  <2> QED
    BY <2>1, <2>2
<1> HIDE DEF unread
<1>6. /\ stdin \in [unread : Seq(Byte), end : {"open", "eof", "hung up"}]
      /\ stdin.unread = unread /\ stdin.end = app.stdin.end
  BY <1>4, <1>5
<1>7. next = Put(app, "stdin", stdin)
  BY <1>1, Zenon DEF Put, unread
<1> HIDE DEF stdin, next
<1>8. /\ IsRecord(next, AppFields) /\ next.stdin = stdin
      /\ next.outbound = app.outbound /\ next.inbound = app.inbound
      /\ next.outbound_shutdown = app.outbound_shutdown /\ next.inbound_shutdown = app.inbound_shutdown
      /\ next.socket = app.socket /\ next.input = app.input /\ next.output = app.output
      /\ next.stdout = app.stdout
  <2>1. "stdin" \in AppFields
    BY DEF AppFields
  <2>2. IsRecord(next, AppFields) /\ next["stdin"] = stdin /\ \A g \in AppFields \ {"stdin"} : next[g] = app[g]
    BY <1>3, <1>7, <2>1, PutOne
  <2> QED
    BY <2>2 DEF AppFields
<1>9. AppTypes(next)
  BY <1>3, <1>6, <1>8 DEF AppTypes
<1>10. OutApp(next, pair, Ok) /\ InApp(next, pair, Ok)
  BY <1>1, <1>3, <1>8 DEF OutApp, InApp
<1>11. OutChain(next, tcp.peer, pair, net, remote, typed + 1)
  <2> DEFINE before == (((remote.got \o Fresh(tcp.peer, net)) \o tcp.peer.out.buf) \o pair.to["tcp"]) \o app.outbound.buf
  <2>1. BytesFrom(1, typed) = before \o app.stdin.unread
    BY <1>3 DEF OutChain
  <2>2. before \in Seq(Byte)
    <3>1. tcp.peer \in Peers
      BY <1>3 DEF TCPTypes
    <3>2. /\ remote.got \in Seq(Byte) /\ Fresh(tcp.peer, net) \in Seq(Byte) /\ tcp.peer.out.buf \in Seq(Byte)
          /\ pair.to["tcp"] \in Seq(Byte) /\ app.outbound.buf \in Seq(Byte)
      BY <1>3, <3>1, ChainTypes
    <3> QED
      BY <3>2
  <2>3. BytesFrom(1, typed + 1) = BytesFrom(1, typed) \o << typed + 1 >>
    <3>1. BytesFrom(1, typed + 1) = BytesFrom(1, typed) \o << 1 + typed >>
      BY <1>3, NextByte
    <3>2. 1 + typed = typed + 1
      BY <1>3
    <3> QED
      BY <3>1, <3>2
  <2> HIDE DEF before
  <2>4. app.stdin.unread \in Seq(Byte)
    BY <1>4
  <2>5. << typed + 1 >> \in Seq(Byte)
    <3>1. typed + 1 \in Byte
      BY <1>3 DEF Byte
    <3> QED
      BY <3>1
  <2>6. BytesFrom(1, typed + 1) = before \o unread
    <3> DEFINE last == << typed + 1 >>
               first == app.stdin.unread
               all == BytesFrom(1, typed)
    <3>1. /\ last \in Seq(Byte) /\ first \in Seq(Byte) /\ all = before \o first
          /\ BytesFrom(1, typed + 1) = all \o last /\ unread = first \o last
      BY <1>5, <2>1, <2>3, <2>4, <2>5
    <3> HIDE DEF last, first, all
    <3>2. (before \o first) \o last = before \o (first \o last)
      BY <2>2, <3>1, Regroup
    <3> QED
      BY <3>1, <3>2
  <2> QED
    BY <1>6, <1>8, <2>6 DEF OutChain, before
<1>12. InChain(next, tcp.peer, pair, net, remote)
  BY <1>3, <1>8 DEF InChain
<1>13. Sound(next, tcp, pair, net, remote, typed + 1, Ok)
  BY <1>3, <1>9, <1>10, <1>11, <1>12 DEF IInv, Data, Sound
<1>14. \A rule, r : CopyFacts(rule, r, app, pair) => CopyFacts(rule, r, next, pair)
  <2> SUFFICES ASSUME NEW rule, NEW r, CopyFacts(rule, r, app, pair) PROVE CopyFacts(rule, r, next, pair)
    OBVIOUS
  <2>1. next.stdout = app.stdout /\ next.outbound = app.outbound /\ next.inbound = app.inbound
    BY <1>8
  <2>2. /\ app.stdin.unread # << >> \/ app.stdin.end = "eof" => next.stdin.unread # << >> \/ next.stdin.end = "eof"
        /\ ~(app.stdin.unread = << >> /\ app.stdin.end # "open")
    BY <1>1, <1>5, <1>6, <1>8
  <2> QED
    BY <2>1, <2>2 DEF CopyFacts
<1> QED
  BY <1>1, <1>2, <1>8, <1>13, <1>14, WorldOnApp DEF next

(***************************************************************************)
(* The end of the input, or a hang-up, keeps the invariant.                *)
(***************************************************************************)
LEMMA EndInputKeeps ==
    ASSUME IInv, EndInput
    PROVE  IInv'
<1>1. PICK end : end \in {"eof", "hung up"} /\ app' = [app EXCEPT !.stdin.end = end]
  BY DEF EndInput
<1>2. /\ UNCHANGED <<tcp, pair, net, killed, appLoop, tcpLoop, main, thread, abort, threw, remote, typed, faulted>>
      /\ app.stdin.end = "open"
  BY DEF EndInput, loops, threads, world
<1>3. Ok' = Ok
  BY <1>2, NoLongerOk
<1>4. /\ IsRecord(app, AppFields) /\ AppTypes(app) /\ Ok \in BOOLEAN
      /\ OutApp(app, pair, Ok) /\ InApp(app, pair, Ok) /\ OutChain(app, tcp.peer, pair, net, remote, typed)
      /\ InChain(app, tcp.peer, pair, net, remote)
  BY DEF IInv, Data, Sound
<1> DEFINE stdin == [app.stdin EXCEPT !.end = end]
           next == app'
<1>5. app.stdin \in [unread : Seq(Byte), end : {"open", "eof", "hung up"}]
  BY <1>4 DEF AppTypes
<1>6. /\ stdin \in [unread : Seq(Byte), end : {"open", "eof", "hung up"}]
      /\ stdin.unread = app.stdin.unread /\ stdin.end = end
  BY <1>1, <1>5
<1>7. next = Put(app, "stdin", stdin)
  BY <1>1, Zenon DEF Put
<1> HIDE DEF stdin, next
<1>8. /\ IsRecord(next, AppFields) /\ next.stdin = stdin
      /\ next.outbound = app.outbound /\ next.inbound = app.inbound
      /\ next.outbound_shutdown = app.outbound_shutdown /\ next.inbound_shutdown = app.inbound_shutdown
      /\ next.socket = app.socket /\ next.input = app.input /\ next.output = app.output
      /\ next.stdout = app.stdout
  <2>1. "stdin" \in AppFields
    BY DEF AppFields
  <2>2. IsRecord(next, AppFields) /\ next["stdin"] = stdin /\ \A g \in AppFields \ {"stdin"} : next[g] = app[g]
    BY <1>4, <1>7, <2>1, PutOne
  <2> QED
    BY <2>2 DEF AppFields
<1>9. AppTypes(next)
  BY <1>4, <1>6, <1>8 DEF AppTypes
<1>10. OutApp(next, pair, Ok) /\ InApp(next, pair, Ok)
  BY <1>1, <1>2, <1>4, <1>6, <1>8 DEF OutApp, InApp
<1>11. OutChain(next, tcp.peer, pair, net, remote, typed) /\ InChain(next, tcp.peer, pair, net, remote)
  BY <1>4, <1>6, <1>8 DEF OutChain, InChain
<1>12. Sound(next, tcp, pair, net, remote, typed, Ok)
  BY <1>9, <1>10, <1>11 DEF IInv, Data, Sound
<1>13. \A rule, r : CopyFacts(rule, r, app, pair) => CopyFacts(rule, r, next, pair)
  <2> SUFFICES ASSUME NEW rule, NEW r, CopyFacts(rule, r, app, pair) PROVE CopyFacts(rule, r, next, pair)
    OBVIOUS
  <2>1. next.stdout = app.stdout /\ next.outbound = app.outbound /\ next.inbound = app.inbound
    BY <1>8
  <2>2. /\ app.stdin.unread # << >> \/ app.stdin.end = "eof" => next.stdin.unread # << >> \/ next.stdin.end = "eof"
        /\ ~(app.stdin.unread = << >> /\ app.stdin.end # "open")
    BY <1>1, <1>2, <1>6, <1>8
  <2> QED
    BY <2>1, <2>2 DEF CopyFacts
<1> QED
  BY <1>2, <1>3, <1>8, <1>12, <1>13, WorldOnApp DEF next

(***************************************************************************)
(* The loss of the reader of standard output keeps the invariant.          *)
(***************************************************************************)
LEMMA BreakOutputKeeps ==
    ASSUME IInv, BreakOutput
    PROVE  IInv'
<1>1. /\ UNCHANGED <<tcp, pair, net, killed, appLoop, tcpLoop, main, thread, abort, threw, remote, typed>>
      /\ app' = [app EXCEPT !.stdout.broken = TRUE] /\ faulted' # {}
  BY DEF BreakOutput, loops, threads
<1>2. Ok' = FALSE
  BY <1>1, NoLongerOk
<1>3. IsRecord(app, AppFields) /\ Sound(app, tcp, pair, net, remote, typed, FALSE)
  <2> DEFINE ok == Ok
  <2>1. IsRecord(app, AppFields) /\ Sound(app, tcp, pair, net, remote, typed, ok)
    BY DEF IInv, Data
  <2> HIDE DEF ok
  <2> QED
    BY <2>1, SoundWeaker
<1>4. /\ AppTypes(app)
      /\ OutApp(app, pair, FALSE) /\ InApp(app, pair, FALSE) /\ OutChain(app, tcp.peer, pair, net, remote, typed)
      /\ InChain(app, tcp.peer, pair, net, remote)
  BY <1>3 DEF Sound
<1> DEFINE stdout == [app.stdout EXCEPT !.broken = TRUE]
           next == app'
<1>5. app.stdout \in [printed : Seq(Byte), broken : BOOLEAN]
  BY <1>4 DEF AppTypes
<1>6. /\ stdout \in [printed : Seq(Byte), broken : BOOLEAN]
      /\ stdout.printed = app.stdout.printed /\ stdout.broken
  BY <1>5
<1>7. next = Put(app, "stdout", stdout)
  BY <1>1, Zenon DEF Put
<1> HIDE DEF stdout, next
<1>8. /\ IsRecord(next, AppFields) /\ next.stdout = stdout
      /\ next.outbound = app.outbound /\ next.inbound = app.inbound
      /\ next.outbound_shutdown = app.outbound_shutdown /\ next.inbound_shutdown = app.inbound_shutdown
      /\ next.socket = app.socket /\ next.input = app.input /\ next.output = app.output
      /\ next.stdin = app.stdin
  <2>1. "stdout" \in AppFields
    BY DEF AppFields
  <2>2. IsRecord(next, AppFields) /\ next["stdout"] = stdout /\ \A g \in AppFields \ {"stdout"} : next[g] = app[g]
    BY <1>3, <1>7, <2>1, PutOne
  <2> QED
    BY <2>2 DEF AppFields
<1>9. AppTypes(next)
  BY <1>4, <1>6, <1>8 DEF AppTypes
<1>10. OutApp(next, pair, FALSE) /\ InApp(next, pair, FALSE)
  BY <1>4, <1>8 DEF OutApp, InApp
<1>11. OutChain(next, tcp.peer, pair, net, remote, typed) /\ InChain(next, tcp.peer, pair, net, remote)
  BY <1>4, <1>6, <1>8 DEF OutChain, InChain
<1>12. Sound(next, tcp, pair, net, remote, typed, FALSE)
  BY <1>3, <1>9, <1>10, <1>11 DEF Sound
<1>13. \A rule, r : CopyFacts(rule, r, app, pair) => CopyFacts(rule, r, next, pair)
  BY <1>6, <1>8 DEF CopyFacts
<1> QED
  BY <1>1, <1>2, <1>8, <1>12, <1>13, WorldOnApp DEF next

-----------------------------------------------------------------------------
(***************************************************************************)
(* A step of the world on the segment at the datagram adapter.             *)
(***************************************************************************)
LEMMA WorldOnNet ==
    ASSUME IInv, UNCHANGED <<app, tcp, pair, killed, appLoop, tcpLoop, main, thread, abort, threw, typed>>,
           net = NoSegment, Ok' = Ok \/ Ok' = FALSE, Sound(app, tcp, pair, net', remote', typed, Ok')
    PROVE  IInv'
<1>1. Data /\ CopyLoopSound /\ TCPLoopSound /\ Threads /\ (Ok' => Ok)
  BY DEF IInv
<1>2. pair \in Pipes
  BY <1>1 DEF Data, Sound
<1>3. ForCopy(pair, pair') /\ ForTCP(pair, pair')
  <2>1. ForCopy(pair, pair) /\ ForTCP(pair, pair)
    BY <1>2, PipeStays
  <2> QED
    BY <2>1
<1>4. Data'
  BY <1>1 DEF Data
<1>5. CopyLoopSound' /\ TCPLoopSound'
  BY <1>1, <1>3, CopyLoopWaits, TCPLoopWaits
<1>6. Threads'
  BY <1>1 DEF Threads, Idle
<1> QED
  BY <1>4, <1>5, <1>6 DEF IInv

(***************************************************************************)
(* Without a segment nothing more is acknowledged.                         *)
(***************************************************************************)
LEMMA NoSegmentFields ==
    /\ NoSegment \in Segments /\ ~NoSegment.syn /\ NoSegment.data = << >> /\ ~NoSegment.fin
    /\ NoSegment.acks = 0 /\ ~NoSegment.rst
BY DEF NoSegment, Segments

(***************************************************************************)
(* Under a segment that acknowledges nothing, all the bytes in flight are  *)
(* still unseen.                                                           *)
(***************************************************************************)
LEMMA NothingFresh ==
    ASSUME NEW p \in Peers, NEW nt \in Segments, nt.acks = 0
    PROVE  Fresh(p, nt) = p.flight /\ SynAcked(p, nt) = 0
<1>1. p.flight \in Seq(Byte) /\ Len(p.flight) \in Nat
  BY LenIsNat DEF Peers
<1>2. SynAcked(p, nt) = 0
  BY DEF SynAcked
<1> DEFINE none == 0
           len == Len(p.flight)
<1>3. none \in Int /\ none = Lesser(nt.acks - SynAcked(p, nt), len)
  BY <1>1, <1>2 DEF Lesser
<1>4. none + 1 = 1
  OBVIOUS
<1> HIDE DEF none, len
<1>5. Fresh(p, nt) = SubSeq(p.flight, none + 1, len)
  BY <1>1, <1>3, FreshType DEF len
<1>6. Fresh(p, nt) = SubSeq(p.flight, 1, Len(p.flight))
  BY <1>4, <1>5 DEF len
<1>7. SubSeq(p.flight, 1, Len(p.flight)) = p.flight
  BY <1>1, SubSeqFull
<1> QED
  BY <1>2, <1>6, <1>7

\* a segment that acknowledges nothing takes the place of none
LEMMA SilentSegment ==
    ASSUME NEW a, NEW t, NEW pr, NEW rm, NEW ty, NEW ok, Sound(a, t, pr, NoSegment, rm, ty, ok),
           NEW seg \in Segments, seg.acks = 0, seg.data = << >>, ~seg.fin, ok => ~seg.rst
    PROVE  Sound(a, t, pr, seg, rm, ty, ok)
<1>1. t.peer \in Peers
  BY DEF Sound, TCPTypes
<1>2. /\ Fresh(t.peer, NoSegment) = t.peer.flight /\ Fresh(t.peer, seg) = t.peer.flight
      /\ SynAcked(t.peer, NoSegment) = 0 /\ SynAcked(t.peer, seg) = 0
  BY <1>1, NoSegmentFields, NothingFresh
<1>3. InTCP(t, pr, seg, rm, ok)
  BY DEF Sound, InTCP
<1>4. Answers(t.peer, seg, rm)
  BY <1>2, NoSegmentFields DEF Sound, Answers
<1>5. OutChain(a, t.peer, pr, seg, rm, ty) /\ InChain(a, t.peer, pr, seg, rm)
  BY <1>2, NoSegmentFields DEF Sound, OutChain, InChain
<1> QED
  BY <1>3, <1>4, <1>5 DEF Sound

(***************************************************************************)
(* The other side's SYN keeps the invariant.                               *)
(***************************************************************************)
LEMMA RemoteConnectsKeeps ==
    ASSUME IInv, RemoteConnects
    PROVE  IInv'
<1>1. /\ UNCHANGED <<app, tcp, pair, killed, appLoop, tcpLoop, main, thread, abort, threw, typed, remote, faulted>>
      /\ net = NoSegment /\ net' = [NoSegment EXCEPT !.syn = TRUE]
  BY DEF RemoteConnects, loops, threads, world
<1> DEFINE seg == net'
<1>2. seg \in Segments /\ seg.acks = 0 /\ seg.data = << >> /\ ~seg.fin /\ ~seg.rst
  <2>1. << >> \in Seq(Byte)
    OBVIOUS
  <2>2. seg = [syn |-> TRUE, data |-> << >>, fin |-> FALSE, acks |-> 0, rst |-> FALSE]
    BY <1>1 DEF NoSegment
  <2> HIDE DEF seg
  <2> QED
    BY <2>1, <2>2 DEF Segments
<1>3. Ok' = Ok
  BY <1>1, NoLongerOk
<1>4. Sound(app, tcp, pair, NoSegment, remote, typed, Ok)
  BY <1>1 DEF IInv, Data
<1> DEFINE ok == Ok
<1> HIDE DEF seg, ok
<1>5. Sound(app, tcp, pair, seg, remote, typed, ok)
  BY <1>2, <1>4, SilentSegment DEF ok
<1> QED
  BY <1>1, <1>3, <1>5, WorldOnNet DEF seg, ok

(***************************************************************************)
(* The other side's RST keeps the invariant.                               *)
(***************************************************************************)
LEMMA RemoteResetsKeeps ==
    ASSUME IInv, RemoteResets
    PROVE  IInv'
<1>1. /\ UNCHANGED <<app, tcp, pair, killed, appLoop, tcpLoop, main, thread, abort, threw, typed, remote>>
      /\ net = NoSegment /\ net' = [NoSegment EXCEPT !.rst = TRUE] /\ faulted' # {}
  BY DEF RemoteResets, loops, threads
<1> DEFINE seg == net'
<1>2. seg \in Segments /\ seg.acks = 0 /\ seg.data = << >> /\ ~seg.fin
  <2>1. << >> \in Seq(Byte)
    OBVIOUS
  <2>2. seg = [syn |-> FALSE, data |-> << >>, fin |-> FALSE, acks |-> 0, rst |-> TRUE]
    BY <1>1 DEF NoSegment
  <2> HIDE DEF seg
  <2> QED
    BY <2>1, <2>2 DEF Segments
<1>3. Ok' = FALSE
  BY <1>1, NoLongerOk
<1> DEFINE ok == Ok
<1>4. Sound(app, tcp, pair, NoSegment, remote, typed, ok)
  BY <1>1 DEF IInv, Data
<1> HIDE DEF seg, ok
<1>5. Sound(app, tcp, pair, NoSegment, remote, typed, FALSE)
  BY <1>4, SoundWeaker
<1>6. Sound(app, tcp, pair, seg, remote, typed, FALSE)
  BY <1>2, <1>5, SilentSegment
<1> QED
  BY <1>1, <1>3, <1>6, WorldOnNet DEF seg

(***************************************************************************)
(* The other side's silence changes nothing but what has gone wrong.       *)
(***************************************************************************)
LEMMA RemoteFallsSilentKeeps ==
    ASSUME IInv, RemoteFallsSilent
    PROVE  IInv'
<1>1. faulted' # {}
  BY DEF RemoteFallsSilent
<1>2. Ok' = FALSE
  BY <1>1, NoLongerOk
<1>3. UNCHANGED <<app, tcp, pair, net, killed, loops, threw, remote, typed, main, thread, abort>>
  BY DEF RemoteFallsSilent, threads
<1>4. Threads'
  BY <1>2, <1>3 DEF IInv, Threads, loops
<1>5. abort' \in BOOLEAN
  BY <1>3 DEF IInv, Data
<1> QED
  BY <1>2, <1>3, <1>4, <1>5, AllUnchanged

(***************************************************************************)
(* A segment that acknowledges all that is in flight.                      *)
(***************************************************************************)
LEMMA AllAcknowledged ==
    ASSUME NEW p \in Peers, NEW seg \in Segments, seg.acks = InFlight(p)
    PROVE  /\ Fresh(p, seg) = << >>
           /\ seg.acks - SynAcked(p, seg) > Len(p.flight) => p.fin = "sent"
<1> DEFINE len == Len(p.flight)
           more == IF p.fin = "sent" THEN 1 ELSE 0
           n == Lesser(seg.acks - SynAcked(p, seg), len)
<1>1. p.flight \in Seq(Byte) /\ len \in Nat
  BY LenIsNat DEF Peers
<1>8. more \in {0, 1} /\ (more = 1 <=> p.fin = "sent")
  OBVIOUS
<1>2. seg.acks - SynAcked(p, seg) = len + more
  <2> DEFINE syn == IF p.syn = "sent" THEN 1 ELSE 0
  <2>1. syn \in {0, 1} /\ (syn = 1 <=> p.syn = "sent")
    OBVIOUS
  <2>2. seg.acks = (len + syn) + more
    BY DEF InFlight
  <2> HIDE DEF len, more, syn
  <2>3. SynAcked(p, seg) = syn
    BY <1>1, <1>8, <2>1, <2>2 DEF SynAcked
  <2> QED
    BY <1>1, <1>8, <2>1, <2>2, <2>3
<1>3. n = len
  <2>1. more \in {0, 1}
    OBVIOUS
  <2> HIDE DEF len, more
  <2> QED
    BY <1>1, <1>2, <2>1 DEF Lesser
<1>4. n \in Int
  BY <1>1, <1>3
<1> HIDE DEF n
<1>5. Fresh(p, seg) = SubSeq(p.flight, n + 1, Len(p.flight)) /\ Fresh(p, seg) \in Seq(Byte)
  BY <1>1, <1>4, FreshType DEF n
<1>6. Fresh(p, seg) = << >>
  <2>1. len \in 0 .. Len(p.flight)
    BY <1>1
  <2> HIDE DEF len
  <2>2. Len(SubSeq(p.flight, len + 1, Len(p.flight))) = Len(p.flight) - len
    BY <1>1, <2>1, CutInTwo
  <2>3. Len(p.flight) - len = 0
    BY <1>1 DEF len
  <2>4. Len(Fresh(p, seg)) = 0
    BY <1>3, <1>5, <2>2, <2>3
  <2> QED
    BY <1>5, <2>4, EmptySeq
<1>7. seg.acks - SynAcked(p, seg) > Len(p.flight) => p.fin = "sent"
  <2> HIDE DEF more
  <2> QED
    BY <1>1, <1>2, <1>8
<1> QED
  BY <1>6, <1>7

(***************************************************************************)
(* When the other side takes what is in flight, and sends a byte or its    *)
(* end, no byte of either direction is lost or repeated.                   *)
(***************************************************************************)
LEMMA RemoteSegmentSound ==
    ASSUME NEW a, NEW t, NEW pr, NEW rm, NEW ty, NEW ok, Sound(a, t, pr, NoSegment, rm, ty, ok),
           NEW data \in Seq(Byte), NEW fin \in BOOLEAN,
           data = << >> \/ (data = << 101 + rm.sent >> /\ ~rm.fin),
           NEW seg \in Segments, ~seg.syn, seg.data = data, seg.fin = fin, ~seg.rst, seg.acks = InFlight(t.peer),
           NEW next \in Remotes, next.got = rm.got \o t.peer.flight,
           next.finGot <=> rm.finGot \/ t.peer.fin = "sent",
           next.sent = rm.sent + Len(data), next.fin <=> rm.fin \/ fin
    PROVE  Sound(a, t, pr, seg, next, ty, ok)
<1> DEFINE p == t.peer
<1>1. /\ AppTypes(a) /\ p \in Peers /\ pr \in Pipes /\ rm \in Remotes
      /\ InTCP(t, pr, NoSegment, rm, ok) /\ Answers(p, NoSegment, rm)
      /\ OutChain(a, p, pr, NoSegment, rm, ty) /\ InChain(a, p, pr, NoSegment, rm)
  BY DEF Sound, TCPTypes
<1>2. Fresh(p, NoSegment) = p.flight /\ SynAcked(p, NoSegment) = 0
  BY <1>1, NoSegmentFields, NothingFresh
<1>3. Fresh(p, seg) = << >> /\ (seg.acks - SynAcked(p, seg) > Len(p.flight) => p.fin = "sent")
  BY <1>1, AllAcknowledged
<1>4. InTCP(t, pr, seg, next, ok)
  <2>1. t.peer.in.closed => rm.fin
    BY <1>1 DEF InTCP
  <2>2. t.peer.in.closed \/ seg.fin => next.fin
    BY <2>1
  <2>3. t.peer.in.closed => seg.data = << >>
    BY <2>1
  <2> QED
    BY <1>1, <2>2, <2>3 DEF InTCP
<1>5. Answers(p, seg, next)
  BY <1>1, <1>2, <1>3 DEF Answers
<1>6. /\ rm.got \in Seq(Byte) /\ p.flight \in Seq(Byte) /\ rm.got \o p.flight \in Seq(Byte)
      /\ (a.stdout.printed \o a.inbound.buf) \o pr.to["app"] \in Seq(Byte) /\ p.in.buf \in Seq(Byte)
  <2> HIDE DEF p
  <2>1. /\ rm.got \in Seq(Byte) /\ p.flight \in Seq(Byte)
        /\ (a.stdout.printed \o a.inbound.buf) \o pr.to["app"] \in Seq(Byte) /\ p.in.buf \in Seq(Byte)
        /\ p.in \in Stream
    BY <1>1, NoSegmentFields, ChainTypes
  <2> QED
    BY <2>1, ConcatProperties
<1>7. OutChain(a, p, pr, seg, next, ty)
  <2> DEFINE all == rm.got \o p.flight
  <2>1. all \in Seq(Byte) /\ next.got = all
    BY <1>6
  <2>2. BytesFrom(1, ty) = (((all \o p.out.buf) \o pr.to["tcp"]) \o a.outbound.buf) \o a.stdin.unread
    BY <1>1, <1>2 DEF OutChain
  <2> HIDE DEF all
  <2>3. all \o << >> = all
    BY <2>1, NothingMore
  <2> QED
    BY <1>3, <2>1, <2>2, <2>3 DEF OutChain
<1>8. InChain(a, p, pr, seg, next)
  <2> DEFINE x == ((a.stdout.printed \o a.inbound.buf) \o pr.to["app"]) \o p.in.buf
  <2>1. x \in Seq(Byte)
    BY <1>6, ConcatProperties
  <2>2. BytesFrom(101, rm.sent) = x \o << >>
    BY <1>1, NoSegmentFields DEF InChain
  <2>3. rm.sent \in Nat
    BY <1>1 DEF Remotes
  <2> HIDE DEF x
  <2>4. x \o << >> = x
    BY <2>1, NothingMore
  <2>5. CASE data = << >>
    <3>1. next.sent = rm.sent
      BY <2>3, <2>5
    <3> QED
      BY <2>2, <2>5, <3>1 DEF InChain, x
  <2>6. CASE data = << 101 + rm.sent >>
    <3>1. next.sent = rm.sent + 1
      BY <2>3, <2>6
    <3>2. 101 \in Nat
      OBVIOUS
    <3>3. BytesFrom(101, rm.sent + 1) = BytesFrom(101, rm.sent) \o << 101 + rm.sent >>
      BY <2>3, <3>2, NextByte
    <3>4. BytesFrom(101, next.sent) = x \o data
      BY <2>2, <2>4, <2>6, <3>1, <3>3
    <3> QED
      BY <3>4 DEF InChain, x
  <2> QED
    BY <2>5, <2>6
<1> QED
  BY <1>4, <1>5, <1>7, <1>8 DEF Sound

(***************************************************************************)
(* Such a segment keeps the invariant.                                     *)
(***************************************************************************)
LEMMA RemoteSegmentKeeps ==
    ASSUME IInv, NEW data \in Seq(Byte), NEW fin \in BOOLEAN, RemoteSegment(data, fin),
           data = << >> \/ (data = << 101 + remote.sent >> /\ ~remote.fin)
    PROVE  IInv'
<1> DEFINE acks == InFlight(tcp.peer)
           got == remote.got \o tcp.peer.flight
           finGot == remote.finGot \/ tcp.peer.fin = "sent"
           sent == remote.sent + Len(data)
           ends == remote.fin \/ fin
           ok == Ok
<1>1. /\ UNCHANGED <<app, tcp, pair, killed, appLoop, tcpLoop, main, thread, abort, threw, typed, faulted>>
      /\ net = NoSegment
  BY DEF RemoteSegment, loops, threads
<1>2. net' = [NoSegment EXCEPT !.data = data, !.fin = fin, !.acks = acks]
  BY Zenon DEF RemoteSegment
<1>3. remote' = [got |-> got, finGot |-> finGot, sent |-> sent, fin |-> ends]
  BY Zenon DEF RemoteSegment
<1>4. Sound(app, tcp, pair, NoSegment, remote, typed, ok)
  BY <1>1 DEF IInv, Data
<1>5. tcp.peer \in Peers /\ remote \in Remotes
  BY <1>4 DEF Sound, TCPTypes
<1>6. acks \in Nat
  <2> DEFINE len == Len(tcp.peer.flight)
             syn == IF tcp.peer.syn = "sent" THEN 1 ELSE 0
             last == IF tcp.peer.fin = "sent" THEN 1 ELSE 0
  <2>1. len \in Nat
    BY <1>5, LenIsNat DEF Peers
  <2>2. syn \in Nat /\ last \in Nat
    OBVIOUS
  <2>3. acks = (len + syn) + last
    BY DEF InFlight
  <2> HIDE DEF len, syn, last, acks
  <2> QED
    BY <2>1, <2>2, <2>3
<1>7. got \in Seq(Byte) /\ sent \in Nat /\ finGot \in BOOLEAN /\ ends \in BOOLEAN
  <2>1. remote.got \in Seq(Byte) /\ tcp.peer.flight \in Seq(Byte) /\ remote.sent \in Nat /\ Len(data) \in Nat
        /\ remote.fin \in BOOLEAN
    BY <1>5, LenIsNat DEF Peers, Remotes
  <2> QED
    BY <2>1, ConcatProperties
<1> HIDE DEF acks, got, finGot, sent, ends, ok
<1> DEFINE seg == net'
           next == remote'
<1>8. seg \in Segments /\ ~seg.syn /\ seg.data = data /\ seg.fin = fin /\ ~seg.rst /\ seg.acks = acks
  BY <1>2, <1>6 DEF NoSegment, Segments
<1>9. next \in Remotes /\ next.got = got /\ next.finGot = finGot /\ next.sent = sent /\ next.fin = ends
  BY <1>3, <1>7 DEF Remotes
<1> HIDE DEF seg, next
<1>10. /\ seg.acks = InFlight(tcp.peer) /\ next.got = remote.got \o tcp.peer.flight
       /\ (next.finGot <=> remote.finGot \/ tcp.peer.fin = "sent")
       /\ next.sent = remote.sent + Len(data) /\ (next.fin <=> remote.fin \/ fin)
  BY <1>8, <1>9 DEF acks, got, finGot, sent, ends
<1>11. Sound(app, tcp, pair, seg, next, typed, ok)
  BY <1>4, <1>8, <1>9, <1>10, RemoteSegmentSound
<1>12. Ok' = Ok
  BY <1>1, NoLongerOk
<1> QED
  BY <1>1, <1>11, <1>12, WorldOnNet DEF seg, next, ok

(***************************************************************************)
(* The three steps that send one keep it.                                  *)
(***************************************************************************)
LEMMA RemoteKeeps ==
    ASSUME IInv, RemoteAcks \/ RemoteSends \/ RemoteEnds
    PROVE  IInv'
<1>1. << >> \in Seq(Byte)
  OBVIOUS
<1>2. << 101 + remote.sent >> \in Seq(Byte)
  <2>1. remote.sent \in Nat
    BY DEF IInv, Data, Sound, Remotes
  <2>2. 101 + remote.sent \in Byte
    BY <2>1 DEF Byte
  <2> QED
    BY <2>2
<1>3. CASE RemoteAcks
  BY <1>1, <1>3, RemoteSegmentKeeps DEF RemoteAcks
<1>4. CASE RemoteSends
  <2> DEFINE data == << 101 + remote.sent >>
  <2>1. RemoteSegment(data, FALSE) /\ ~remote.fin /\ data \in Seq(Byte) /\ data = << 101 + remote.sent >>
    BY <1>2, <1>4 DEF RemoteSends
  <2> HIDE DEF data
  <2> QED
    BY <2>1, RemoteSegmentKeeps
<1>5. CASE RemoteEnds
  BY <1>1, <1>5, RemoteSegmentKeeps DEF RemoteEnds
<1> QED
  BY <1>3, <1>4, <1>5

-----------------------------------------------------------------------------
(***************************************************************************)
(* The steps of the event loops, between the variables and the states that *)
(* the loops run on.                                                       *)
(***************************************************************************)
LEMMA CopyFactsSame ==
    ASSUME NEW a, NEW b, SameApp(a, b), NEW rule, NEW r, NEW pr
    PROVE  CopyFacts(rule, r, a, pr) <=> CopyFacts(rule, r, b, pr)
<1>1. a.outbound = b.outbound /\ a.inbound = b.inbound /\ a.stdin = b.stdin /\ a.stdout = b.stdout
  BY SameAppFields
<1> QED
  BY <1>1 DEF CopyFacts

(***************************************************************************)
(* Which rules the owner's loop may have dropped depends on the owner's    *)
(* fields only.                                                            *)
(***************************************************************************)
LEMMA CopyRulesSame ==
    ASSUME NEW a, NEW b, SameApp(a, b), NEW rules, NEW pr, NEW ok
    PROVE  CopyRulesLeft(rules, a, pr, ok) <=> CopyRulesLeft(rules, b, pr, ok)
<1>1. a.outbound = b.outbound /\ a.inbound = b.inbound /\ a.inbound_shutdown = b.inbound_shutdown
  BY SameAppFields
<1> QED
  BY <1>1 DEF CopyRulesLeft, CopyGone

(***************************************************************************)
(* What poll told of a rule depends on the socket's fields only.           *)
(***************************************************************************)
LEMMA TCPFactsSame ==
    ASSUME NEW t, NEW u, SameSock(t, u), NEW rule, NEW r, NEW pr, NEW nt
    PROVE  TCPFacts(rule, r, t, pr, nt) <=> TCPFacts(rule, r, u, pr, nt)
<1>1. t.peer = u.peer
  BY SameSockFields
<1> QED
  BY <1>1 DEF TCPFacts

(***************************************************************************)
(* The TCP thread's poll, with the interests it asks before, keeps the     *)
(* invariant.                                                              *)
(***************************************************************************)
LEMMA TCPPollsKeeps ==
    ASSUME IInv, TCPPolls
    PROVE  IInv'
<1>1. PICK c : /\ c \in TCPLoop!Prepare(tcpLoop.rules, TCPState)
               /\ KeepTCP(c.s) /\ tcpLoop' = [rules |-> c.rules, revents |-> TCPLoop!Poll(c)]
  BY Zenon DEF TCPPolls
<1>2. /\ LoopRuns /\ UNCHANGED <<app, pair, net, killed, appLoop, main, thread, abort, threw, typed, remote, faulted>>
  BY DEF TCPPolls, threads, world
<1>3. Data /\ CopyLoopSound /\ TCPLoopSound /\ Threads
  BY DEF IInv
<1> DEFINE s == TCPState
           ok == Ok
<1>4. /\ TCPGood(s, app, remote, typed, ok) /\ SameSock(tcp, s) /\ s.pair = pair /\ s.net = net
      /\ IsRecord(tcp, SockFields)
  BY <1>3, TCPStateGood, TCPStateFields DEF Data
<1>5. TCPRulesLeft(tcpLoop.rules, s.pair)
  BY <1>3, <1>4 DEF TCPLoopSound
<1> HIDE DEF s, ok
<1>6. c \in TCPLoop!Prepare(tcpLoop.rules, s)
  BY <1>1 DEF s
<1>7. /\ c.s = s /\ TCPRulesLeft(c.rules, s.pair)
      /\ \A i \in 1 .. Len(c.rules) : TCPFacts(c.rules[i], TCPLoop!Poll(c)[i], s, s.pair, s.net)
  BY <1>4, <1>5, <1>6, TCPPrepared
<1>8. tcp' = tcp
  BY <1>1, <1>4, <1>7, TCPSame DEF s
<1>9. Ok' = Ok
  BY <1>2, NoLongerOk
<1>10. Data'
  BY <1>2, <1>3, <1>8, <1>9, DataUnchanged DEF Data
<1>11. CopyLoopSound'
  <2>1. pair \in Pipes
    BY <1>3 DEF Data, Sound
  <2>2. ForCopy(pair, pair')
    <3>1. ForCopy(pair, pair)
      BY <2>1, PipeStays
    <3> QED
      BY <1>2, <3>1
  <2> QED
    BY <1>2, <1>3, <1>9, <2>2, CopyLoopWaits
<1>12. TCPLoopSound'
  <2> DEFINE loop == tcpLoop'
             revents == TCPLoop!Poll(c)
  <2>1. \A i \in 1 .. Len(c.rules) : TCPFacts(c.rules[i], revents[i], tcp, pair, net)
    BY <1>4, <1>7, TCPFactsSame
  <2>2. loop = [rules |-> c.rules, revents |-> revents]
    BY <1>1
  <2> HIDE DEF loop, revents
  <2>3. IsRecord(loop, {"rules", "revents"}) /\ loop.rules = c.rules /\ loop.revents = revents
    BY <2>2 DEF IsRecord
  <2>4. /\ IsRecord(loop, {"rules", "revents"}) /\ TCPRulesLeft(loop.rules, pair)
        /\ \A k \in 1 .. Len(loop.rules) : TCPFacts(loop.rules[k], loop.revents[k], tcp, pair, net)
    BY <1>4, <1>7, <2>1, <2>3
  <2> QED
    BY <1>2, <1>8, <2>4 DEF TCPLoopSound, loop, Idle
<1>13. Threads'
  <2>1. thread # "ended"
    BY <1>2, <1>3 DEF LoopRuns, Connecting, Threads
  <2> QED
    BY <1>2, <1>3, <1>8, <1>9, <2>1 DEF Threads
<1> QED
  BY <1>10, <1>11, <1>12, <1>13 DEF IInv

(***************************************************************************)
(* The owner's poll, with the interests it asks before, keeps the          *)
(* invariant.                                                              *)
(***************************************************************************)
LEMMA CopyPollsKeeps ==
    ASSUME IInv, CopyPolls
    PROVE  IInv'
<1>1. PICK c : /\ c \in CopyLoop!Prepare(appLoop.rules, CopyState)
               /\ KeepCopy(c.s) /\ appLoop' = [rules |-> c.rules, revents |-> CopyLoop!Poll(c)]
  BY Zenon DEF CopyPolls
<1>2. UNCHANGED <<tcp, pair, net, killed, tcpLoop, main, thread, abort, threw, typed, remote, faulted>>
  BY DEF CopyPolls, threads, world
<1>3. Data /\ CopyLoopSound /\ TCPLoopSound /\ Threads
  BY DEF IInv
<1> DEFINE s == CopyState
           ok == Ok
<1>4. /\ CopyGood(s, tcp, net, remote, typed, ok) /\ SameApp(app, s) /\ s.pair = pair
      /\ IsRecord(app, AppFields)
  BY <1>3, CopyStateGood, CopyStateFields DEF Data
<1> HIDE DEF s
<1>5. CopyRulesLeft(appLoop.rules, s, s.pair, ok)
  BY <1>3, <1>4, CopyRulesSame DEF CopyLoopSound
<1>6. c \in CopyLoop!Prepare(appLoop.rules, s)
  BY <1>1 DEF s
<1> HIDE DEF ok
<1>7. /\ c.s = s /\ CopyRulesLeft(c.rules, s, s.pair, ok)
      /\ \A i \in 1 .. Len(c.rules) : CopyFacts(c.rules[i], CopyLoop!Poll(c)[i], s, s.pair)
  BY <1>4, <1>5, <1>6, CopyPrepared
<1>8. app' = app
  BY <1>1, <1>4, <1>7, CopySame DEF s
<1>9. Ok' = Ok
  BY <1>2, NoLongerOk
<1>10. Data'
  BY <1>2, <1>3, <1>8, <1>9, DataUnchanged DEF Data
<1>11. TCPLoopSound'
  <2>1. pair \in Pipes
    BY <1>3 DEF Data, Sound
  <2>2. ForTCP(pair, pair')
    <3>1. ForTCP(pair, pair)
      BY <2>1, PipeStays
    <3> QED
      BY <1>2, <3>1
  <2> QED
    BY <1>2, <1>3, <2>2, TCPLoopWaits
<1>12. CopyLoopSound'
  <2> DEFINE loop == appLoop'
             revents == CopyLoop!Poll(c)
  <2>1. \A i \in 1 .. Len(c.rules) : CopyFacts(c.rules[i], revents[i], app, pair)
    BY <1>4, <1>7, CopyFactsSame
  <2>2. CopyRulesLeft(c.rules, app, pair, ok)
    BY <1>4, <1>7, CopyRulesSame
  <2>3. loop = [rules |-> c.rules, revents |-> revents]
    BY <1>1
  <2> HIDE DEF loop, revents
  <2>4. IsRecord(loop, {"rules", "revents"}) /\ loop.rules = c.rules /\ loop.revents = revents
    BY <2>3 DEF IsRecord
  <2>5. /\ IsRecord(loop, {"rules", "revents"}) /\ CopyRulesLeft(loop.rules, app, pair, ok)
        /\ \A k \in 1 .. Len(loop.rules) : CopyFacts(loop.rules[k], loop.revents[k], app, pair)
    BY <2>1, <2>2, <2>4
  <2> QED
    BY <1>2, <1>8, <1>9, <2>5 DEF CopyLoopSound, loop, Idle, ok
<1>13. Threads'
  BY <1>2, <1>3, <1>8, <1>9 DEF Threads
<1> QED
  BY <1>10, <1>11, <1>12, <1>13 DEF IInv

(***************************************************************************)
(* The TCP thread's callbacks after poll keep the invariant, however the   *)
(* other thread and the world moved in between.                            *)
(***************************************************************************)
LEMMA TCPServesKeeps ==
    ASSUME IInv, TCPServes
    PROVE  IInv'
<1>1. PICK c : /\ c \in TCPLoop!Dispatch(tcpLoop.rules, tcpLoop.revents, TCPState)
               /\ KeepTCP(c.s) /\ net' = c.s.net
               /\ killed' = (c.s.killed \/ c.threw) /\ threw' = c.threw
               /\ tcpLoop' = [rules |-> c.rules, revents |-> Idle]
               /\ IF abort THEN EndThread(c.s.pair) ELSE pair' = c.s.pair /\ UNCHANGED <<main, thread>>
  BY Zenon DEF TCPServes
<1>2. ~killed /\ tcpLoop.revents # Idle /\ UNCHANGED <<app, appLoop, abort, typed, remote, faulted>>
  BY DEF TCPServes, world
<1>3. Data /\ CopyLoopSound /\ TCPLoopSound /\ Threads
  BY DEF IInv
<1> DEFINE s == TCPState
           ok == Ok
           rules == tcpLoop.rules
           revents == tcpLoop.revents
           u == c.s
           pipe == u.pair
<1>4. /\ TCPGood(s, app, remote, typed, ok) /\ SameSock(tcp, s) /\ s.pair = pair /\ s.net = net /\ s.killed = killed
      /\ IsRecord(tcp, SockFields)
  BY <1>3, TCPStateGood, TCPStateFields DEF Data
<1>5. TCPRulesLeft(rules, s.pair)
  BY <1>3, <1>4 DEF TCPLoopSound
<1> HIDE DEF s, ok
<1>6. \A k \in 1 .. Len(rules) : TCPFacts(rules[k], revents[k], s, s.pair, s.net)
  <2>1. \A k \in 1 .. Len(rules) : TCPFacts(rules[k], revents[k], tcp, pair, net)
    BY <1>2, <1>3 DEF TCPLoopSound
  <2> QED
    BY <1>4, <2>1, TCPFactsSame
<1> HIDE DEF rules, revents
<1>7. /\ c \in TCPLoop!Dispatch(rules, revents, s) /\ ~s.killed
  BY <1>1, <1>2, <1>4 DEF s, rules, revents
<1>8. /\ TCPGood(u, app, remote, typed, ok) /\ TCPOnward(s, u) /\ c.threw = FALSE
      /\ TCPRulesLeft(c.rules, pipe)
  BY <1>4, <1>5, <1>6, <1>7, TCPDispatched
<1>9. IsRecord(tcp', SockFields) /\ SameSock(u, tcp')
  BY <1>1, <1>4, TCPKept
<1>10. /\ Sound(app, u, pipe, u.net, remote, typed, ok) /\ u.killed \in BOOLEAN /\ (u.killed => ~ok)
  BY <1>8 DEF TCPGood
<1>11. Sound(app, tcp', pipe, net', remote, typed, ok)
  <2> DEFINE t == tcp'
  <2>1. SameSock(u, t) /\ SameApp(app, app) /\ u.net = net'
    BY <1>1, <1>9 DEF SameApp
  <2> HIDE DEF t, u, pipe
  <2>2. Sound(app, t, pipe, u.net, remote, typed, ok)
    BY <1>10, <2>1, SameSound
  <2> QED
    BY <2>1, <2>2 DEF t
<1>12. abort => ~ok
  BY <1>3 DEF Threads, ok
<1>13. killed' = u.killed /\ ~threw'
  BY <1>1, <1>8, <1>10
<1>14. ForCopy(pair, pipe) /\ pipe \in Pipes /\ pair \in Pipes
  <2>1. pipe \in Pipes
    BY <1>10 DEF Sound
  <2>2. pair \in Pipes
    BY <1>3 DEF Data, Sound
  <2> QED
    BY <1>4, <1>8, <2>1, <2>2 DEF TCPOnward, ForCopy
<1> HIDE DEF pipe
<1>15. \/ abort /\ pair' = ShutBoth(pipe) /\ thread' = "ended" /\ main' = main
       \/ ~abort /\ pair' = pipe /\ thread' = thread /\ main' = main
  BY <1>1 DEF EndThread, pipe
<1>16. Sound(app, tcp', pair', net', remote, typed, ok)
  <2> DEFINE t == tcp'
             nt == net'
  <2>1. Sound(app, t, pipe, nt, remote, typed, ok)
    BY <1>11
  <2> HIDE DEF t, nt
  <2>2. abort => Sound(app, t, ShutBoth(pipe), nt, remote, typed, ok)
    BY <1>12, <2>1, ShutBothSound
  <2> QED
    BY <1>15, <2>1, <2>2 DEF t, nt
<1>17. ForCopy(pair, pair')
  <2>1. ForCopy(pair, ShutBoth(pipe))
    BY <1>14, ShutAfterwards
  <2> QED
    BY <1>14, <1>15, <2>1
<1>18. Ok' = Ok
  BY <1>2, NoLongerOk
<1>19. Data'
  BY <1>2, <1>3, <1>9, <1>10, <1>13, <1>16, <1>18 DEF Data, ok
<1>20. CopyLoopSound'
  BY <1>2, <1>3, <1>17, <1>18, CopyLoopWaits
<1>21. TCPLoopSound'
  <2> DEFINE loop == tcpLoop'
             next == pair'
  <2>1. TCPRulesLeft(c.rules, next)
    <3>1. next \in Pipes
      BY <1>17 DEF ForCopy
    <3>2. pipe.shut \subseteq next.shut
      <4>1. pipe.shut \subseteq PipeEnds
        BY <1>14 DEF Pipes
      <4> QED
        BY <1>14, <1>15, <4>1, ShutBothFields
    <3> HIDE DEF next
    <3> QED
      BY <1>8, <1>14, <3>1, <3>2, TCPRulesStay
  <2>2. loop = [rules |-> c.rules, revents |-> Idle]
    BY <1>1
  <2> HIDE DEF loop
  <2>3. IsRecord(loop, {"rules", "revents"}) /\ loop.rules = c.rules /\ loop.revents = Idle
    BY <2>2 DEF IsRecord
  <2> HIDE DEF next
  <2>4. IsRecord(loop, {"rules", "revents"}) /\ TCPRulesLeft(loop.rules, next) /\ loop.revents = Idle
    BY <2>1, <2>3
  <2> QED
    BY <2>4 DEF TCPLoopSound, loop, next, Idle
<1>22. Threads'
  <2>1. tcpLoop'.revents = Idle
    BY <1>1
  <2>2. thread # "ended"
    BY <1>2, <1>3 DEF Threads
  <2>3. tcp.peer.syn = "acked" => tcp'.peer.syn = "acked"
    <3>1. tcp.peer = s.peer /\ u.peer = tcp'.peer
      BY <1>4, <1>9, SameSockFields
    <3> QED
      BY <1>8, <3>1 DEF TCPOnward
  <2>4. CASE abort
    <3>1. ~Ok' /\ ~Ok
      BY <1>12, <1>18, <2>4 DEF ok
    <3>2. main' = main /\ thread' = "ended" /\ main # "connecting"
      BY <1>3, <1>15, <2>4 DEF Threads
    <3> QED
      BY <1>2, <1>3, <2>1, <3>1, <3>2 DEF Threads, Idle
  <2>5. CASE ~abort
    <3>1. main' = main /\ thread' = thread
      BY <1>15, <2>5
    <3> QED
      BY <1>2, <1>3, <1>18, <2>1, <2>2, <2>3, <3>1 DEF Threads, Idle
  <2> QED
    BY <2>4, <2>5
<1> QED
  BY <1>19, <1>20, <1>21, <1>22 DEF IInv

(***************************************************************************)
(* The owner's callbacks after poll keep the invariant, however the other  *)
(* thread and the world moved in between.                                  *)
(***************************************************************************)
LEMMA CopyServesKeeps ==
    ASSUME IInv, CopyServes
    PROVE  IInv'
<1>1. PICK c : /\ c \in CopyLoop!Dispatch(appLoop.rules, appLoop.revents, CopyState)
               /\ KeepCopy(c.s) /\ pair' = c.s.pair
               /\ killed' = (c.s.killed \/ c.threw) /\ threw' = c.threw
               /\ appLoop' = [rules |-> c.rules, revents |-> Idle]
  BY Zenon DEF CopyServes
<1>2. /\ ~killed /\ appLoop.revents # Idle /\ main = "copying"
      /\ UNCHANGED <<tcp, net, tcpLoop, main, thread, abort, typed, remote, faulted>>
  BY DEF CopyServes, world, threads
<1>3. Data /\ CopyLoopSound /\ TCPLoopSound /\ Threads
  BY DEF IInv
<1> DEFINE s == CopyState
           ok == Ok
           rules == appLoop.rules
           revents == appLoop.revents
           u == c.s
<1>4. /\ CopyGood(s, tcp, net, remote, typed, ok) /\ SameApp(app, s) /\ s.pair = pair /\ s.killed = killed
      /\ IsRecord(app, AppFields)
  BY <1>3, CopyStateGood, CopyStateFields DEF Data
<1> HIDE DEF s
<1>5. CopyRulesLeft(rules, s, s.pair, ok)
  BY <1>3, <1>4, CopyRulesSame DEF CopyLoopSound
<1> HIDE DEF ok
<1>6. \A k \in 1 .. Len(rules) : CopyFacts(rules[k], revents[k], s, s.pair)
  <2>1. \A k \in 1 .. Len(rules) : CopyFacts(rules[k], revents[k], app, pair)
    BY <1>2, <1>3 DEF CopyLoopSound
  <2> QED
    BY <1>4, <2>1, CopyFactsSame
<1> HIDE DEF rules, revents
<1>7. /\ c \in CopyLoop!Dispatch(rules, revents, s) /\ ~s.killed
  BY <1>1, <1>2, <1>4 DEF s, rules, revents
<1>8. /\ CopyGood(u, tcp, net, remote, typed, ok) /\ CopyOnward(s, u) /\ c.threw = FALSE
      /\ CopyRulesLeft(c.rules, u, u.pair, ok)
  BY <1>4, <1>5, <1>6, <1>7, CopyDispatched
<1>9. IsRecord(app', AppFields) /\ SameApp(u, app')
  BY <1>1, <1>4, CopyKept
<1>10. /\ Sound(u, tcp, u.pair, net, remote, typed, ok) /\ u.killed \in BOOLEAN /\ (u.killed => ~ok)
  BY <1>8 DEF CopyGood
<1>11. Sound(app', tcp, pair', net, remote, typed, ok)
  <2> DEFINE a == app'
  <2>1. SameApp(u, a) /\ SameSock(tcp, tcp) /\ pair' = u.pair
    BY <1>1, <1>9 DEF SameSock
  <2> HIDE DEF a, u
  <2>2. Sound(a, tcp, u.pair, net, remote, typed, ok)
    BY <1>10, <2>1, SameSound
  <2> QED
    BY <2>1, <2>2 DEF a
<1>12. killed' = u.killed /\ ~threw'
  BY <1>1, <1>8, <1>10
<1>13. ForTCP(pair, pair')
  <2>1. pair' \in Pipes
    BY <1>11 DEF Sound
  <2> QED
    BY <1>1, <1>4, <1>8, <2>1 DEF CopyOnward, ForTCP
<1>14. Ok' = Ok
  BY <1>2, NoLongerOk
<1>15. Data'
  BY <1>2, <1>3, <1>9, <1>10, <1>11, <1>12, <1>14 DEF Data, ok
<1>16. TCPLoopSound'
  BY <1>2, <1>3, <1>13, TCPLoopWaits
<1>17. CopyLoopSound'
  <2> DEFINE loop == appLoop'
             a == app'
             next == pair'
  <2>1. SameApp(u, a) /\ next = u.pair
    BY <1>1, <1>9
  <2> HIDE DEF a
  <2>2. CopyRulesLeft(c.rules, a, next, ok)
    BY <1>8, <2>1, CopyRulesSame
  <2>3. loop = [rules |-> c.rules, revents |-> Idle]
    BY <1>1
  <2> HIDE DEF loop
  <2>4. IsRecord(loop, {"rules", "revents"}) /\ loop.rules = c.rules /\ loop.revents = Idle
    BY <2>3 DEF IsRecord
  <2> HIDE DEF next
  <2>5. IsRecord(loop, {"rules", "revents"}) /\ CopyRulesLeft(loop.rules, a, next, ok) /\ loop.revents = Idle
    BY <2>2, <2>4
  <2> QED
    BY <1>14, <2>5 DEF CopyLoopSound, loop, next, a, Idle, ok
<1>18. Threads'
  BY <1>2, <1>3, <1>14 DEF Threads
<1> QED
  BY <1>15, <1>16, <1>17, <1>18 DEF IInv

-----------------------------------------------------------------------------
(***************************************************************************)
(* The steps that shut the whole pipe down.                                *)
(***************************************************************************)
LEMMA HangsUp ==
    ASSUME IInv, UNCHANGED <<app, tcp, net, killed, appLoop, tcpLoop, abort, threw, typed, remote, faulted>>,
           pair' = ShutBoth(pair), Ok => app.outbound_shutdown /\ IsFinished(tcp.peer.in)
    PROVE  Data' /\ CopyLoopSound' /\ TCPLoopSound' /\ Ok' = Ok
<1>1. Data /\ CopyLoopSound /\ TCPLoopSound /\ pair \in Pipes
  BY DEF IInv, Data, Sound
<1>2. Ok' = Ok
  BY NoLongerOk
<1>3. ForCopy(pair, pair') /\ ForTCP(pair, pair')
  <2>1. ForCopy(pair, ShutBoth(pair)) /\ ForTCP(pair, ShutBoth(pair))
    BY <1>1, PipeStays
  <2> QED
    BY <2>1
<1>4. CopyLoopSound' /\ TCPLoopSound'
  BY <1>1, <1>2, <1>3, CopyLoopWaits, TCPLoopWaits
<1>5. Sound(app, tcp, ShutBoth(pair), net, remote, typed, Ok)
  <2> DEFINE ok == Ok
  <2>1. Sound(app, tcp, pair, net, remote, typed, ok) /\ (ok => app.outbound_shutdown /\ IsFinished(tcp.peer.in))
    BY <1>1 DEF Data
  <2> HIDE DEF ok
  <2>2. Sound(app, tcp, ShutBoth(pair), net, remote, typed, ok)
    BY <2>1, ShutBothSound
  <2> QED
    BY <2>2 DEF ok
<1>6. Data'
  BY <1>1, <1>2, <1>5 DEF Data
<1> QED
  BY <1>2, <1>4, <1>6

(***************************************************************************)
(* The end of the TCP thread when its owner's destructor asks for it keeps *)
(* the invariant.                                                          *)
(***************************************************************************)
LEMMA TCPAbortsKeeps ==
    ASSUME IInv, TCPAborts
    PROVE  IInv'
<1>1. /\ UNCHANGED <<app, tcp, net, killed, appLoop, tcpLoop, abort, threw, typed, remote, faulted>>
      /\ pair' = ShutBoth(pair) /\ main' = main /\ thread' = "ended" /\ abort /\ thread = "running"
      /\ tcpLoop.revents = Idle
  BY DEF TCPAborts, EndThread, loops, world
<1>2. Threads /\ ~Ok
  BY <1>1 DEF IInv, Threads
<1>3. Data' /\ CopyLoopSound' /\ TCPLoopSound' /\ Ok' = Ok
  BY <1>1, <1>2, HangsUp
<1>4. Threads'
  BY <1>1, <1>2, <1>3 DEF Threads, Idle
<1> QED
  BY <1>3, <1>4 DEF IInv

(***************************************************************************)
(* With nothing gone wrong, a loop in which no rule is interested has      *)
(* nothing left to do: for the TCP thread, both streams have ended and all *)
(* is acknowledged; for the owner, both directions are shut down.          *)
(***************************************************************************)
LEMMA TCPUninterested ==
    ASSUME IInv, \A c \in TCPLoop!Prepare(tcpLoop.rules, TCPState) : ~TCPLoop!SomethingToPoll(c)
    PROVE  /\ ~Active(tcp.peer)
           /\ tcp.peer.in.buf = << >> \/ pair.shut = PipeEnds
<1>1. Data /\ TCPLoopSound
  BY DEF IInv
<1> DEFINE s == TCPState
           ok == Ok
           rules == tcpLoop.rules
<1>2. TCPGood(s, app, remote, typed, ok) /\ SameSock(tcp, s) /\ s.pair = pair
  BY <1>1, TCPStateGood, TCPStateFields DEF Data
<1> HIDE DEF s, ok
<1>3. TCPRulesLeft(rules, s.pair) /\ rules \in Seq(TCPRuleSet)
  BY <1>1, <1>2 DEF TCPLoopSound, TCPRulesLeft
<1> HIDE DEF rules
<1>4. PICK c : c \in TCPLoop!Prepare(rules, s)
  BY <1>3, TCPAlwaysAnswers
<1>5. ~TCPLoop!SomethingToPoll(c)
  BY <1>4 DEF s, rules
<1>6. /\ TCPRulesLeft(c.rules, s.pair)
      /\ c.events \in Seq(BOOLEAN) /\ Len(c.events) = Len(c.rules)
      /\ \A i \in 1 .. Len(c.rules) : c.events[i] <=> TCPInterest(c.rules[i], s)
  BY <1>2, <1>3, <1>4, TCPPrepared
<1>7. \A i \in 1 .. Len(c.rules) : ~TCPInterest(c.rules[i], s)
  <2>1. DOMAIN c.events = 1 .. Len(c.rules)
    BY <1>6
  <2> QED
    BY <1>5, <1>6, <2>1 DEF TCPLoop!SomethingToPoll
<1>8. \A rule \in TCPRuleSet : ~TCPInterest(rule, s) \/ TCPGone(rule, s.pair)
  BY <1>6, <1>7 DEF TCPRulesLeft, Missing
<1>9. ReceiveRule \in TCPRuleSet /\ InboundRule \in TCPRuleSet
  BY DEF TCPRuleSet
<1>10. tcp.peer = s.peer
  BY <1>2, SameSockFields
<1>11. ~Active(tcp.peer)
  <2>1. ~TCPInterest(ReceiveRule, s)
    BY <1>8, <1>9 DEF TCPGone
  <2> QED
    BY <1>10, <2>1, TCPInterests
<1>12. tcp.peer.in.buf = << >> \/ pair.shut = PipeEnds
  <2>1. CASE TCPGone(InboundRule, s.pair)
    BY <1>2, <2>1 DEF TCPGone
  <2>2. CASE ~TCPInterest(InboundRule, s)
    BY <1>10, <2>2, TCPInterests
  <2> QED
    BY <1>8, <1>9, <2>1, <2>2
<1> QED
  BY <1>11, <1>12

(***************************************************************************)
(* When the TCP connection is over, nothing has gone wrong and the peer's  *)
(* inbound stream is empty or the pipe closed, both streams are finished   *)
(* and all that was sent is acknowledged.                                  *)
(***************************************************************************)
LEMMA TCPFinished ==
    ASSUME IInv, Ok, ~Active(tcp.peer), tcp.peer.in.buf = << >> \/ pair.shut = PipeEnds
    PROVE  /\ IsFinished(tcp.peer.out) /\ IsFinished(tcp.peer.in) /\ tcp.peer.flight = << >>
           /\ app.outbound_shutdown
           /\ tcp.peer.syn = "acked" => tcp.peer.fin = "acked"
<1> DEFINE p == tcp.peer
<1>1. /\ p \in Peers /\ OutApp(app, pair, TRUE) /\ OutTCP(tcp, pair) /\ InTCP(tcp, pair, net, remote, TRUE)
      /\ NotIdle(p)
  BY DEF IInv, Data, Sound, TCPTypes, OutApp, InTCP
<1>2. ~p.in.error /\ ~p.out.error
  BY <1>1 DEF InTCP
<1>3. ~(InFlight(p) > 0) /\ IsFinished(p.out) /\ p.in.closed
  BY <1>2 DEF Active
<1>4. p.flight \in Seq(Byte) /\ Len(p.flight) \in Nat /\ p.fin \in {"unsent", "sent", "acked"}
  BY <1>1, LenIsNat DEF Peers
<1>5. Len(p.flight) = 0 /\ p.fin # "sent"
  <2> DEFINE len == Len(p.flight)
             syn == IF p.syn = "sent" THEN 1 ELSE 0
             last == IF p.fin = "sent" THEN 1 ELSE 0
  <2>1. syn \in Nat /\ last \in Nat /\ (last = 0 => p.fin # "sent")
    OBVIOUS
  <2>2. InFlight(p) = (len + syn) + last
    BY DEF InFlight
  <2>3. len \in Nat
    BY <1>4
  <2>4. len = 0 /\ last = 0
    <3> HIDE DEF len, syn, last, p
    <3> QED
      BY <1>3, <2>1, <2>2, <2>3
  <2> QED
    BY <2>1, <2>4
<1>6. p.flight = << >>
  BY <1>4, <1>5, EmptySeq
<1>7. p.syn = "acked" => p.fin = "acked"
  <2>1. Window \in Nat \ {0}
    BY SocketAssumption
  <2>2. ~(0 = Window)
    BY <2>1
  <2> QED
    BY <1>1, <1>3, <1>4, <1>5, <2>2 DEF NotIdle
<1>8. IsFinished(p.in)
  <2>1. CASE p.in.buf = << >>
    BY <1>3, <2>1 DEF IsFinished
  <2>2. CASE pair.shut = PipeEnds
    <3>1. "app" \in pair.shut
      BY <2>2 DEF PipeEnds
    <3> QED
      BY <1>1, <3>1 DEF InTCP
  <2> QED
    BY <2>1, <2>2
<1>9. app.outbound_shutdown
  BY <1>1, <1>3 DEF IsFinished, OutTCP, OutApp
<1> QED
  BY <1>3, <1>6, <1>7, <1>8, <1>9

(***************************************************************************)
(* The end of the TCP loop, with which the connection starts or the thread *)
(* ends, keeps the invariant.                                              *)
(***************************************************************************)
LEMMA TCPLoopEndsKeeps ==
    ASSUME IInv, TCPLoopEnds
    PROVE  IInv'
<1>1. /\ UNCHANGED <<app, tcp, net, killed, appLoop, tcpLoop, abort, threw, typed, remote, faulted>>
      /\ tcpLoop.revents = Idle
  BY DEF TCPLoopEnds, loops, world
<1>2. Threads /\ Data
  BY DEF IInv
<1>3. CASE main = "connecting"
  <2>1. main' = "copying" /\ thread' = "running" /\ pair' = pair
    BY <1>3 DEF TCPLoopEnds, StartThread
  <2>2. Ok' = Ok
    BY <1>1, NoLongerOk
  <2>3. Ok => tcp.peer.syn = "acked"
    <3>1. CASE tcp.peer.syn = "acked"
      BY <3>1
    <3>2. CASE tcp.peer.syn # "acked"
      <4>1. \A c \in TCPLoop!Prepare(tcpLoop.rules, TCPState) : ~TCPLoop!SomethingToPoll(c)
        BY <3>2 DEF TCPLoopEnds
      <4>2. ~Active(tcp.peer) /\ (tcp.peer.in.buf = << >> \/ pair.shut = PipeEnds)
        BY <4>1, TCPUninterested
      <4>3. Ok => app.outbound_shutdown
        BY <4>2, TCPFinished
      <4>4. app.outbound_shutdown => app.outbound.closed
        BY <1>2 DEF Data, Sound, OutApp, IsFinished
      <4> QED
        BY <1>2, <1>3, <4>3, <4>4 DEF Threads
    <3> QED
      BY <3>1, <3>2
  <2>4. Threads'
    BY <1>1, <1>2, <1>3, <2>1, <2>2, <2>3 DEF Threads, Idle
  <2>5. abort' \in BOOLEAN
    BY <1>1, <1>2 DEF Data
  <2> QED
    BY <1>1, <2>1, <2>2, <2>4, <2>5, AllUnchanged DEF loops
<1>4. CASE main # "connecting"
  <2>1. thread = "running" /\ thread' = "ended" /\ pair' = ShutBoth(pair) /\ main' = main
    BY <1>4 DEF TCPLoopEnds, EndThread
  <2>2. \A c \in TCPLoop!Prepare(tcpLoop.rules, TCPState) : ~TCPLoop!SomethingToPoll(c)
    BY <1>4 DEF TCPLoopEnds
  <2>3. ~Active(tcp.peer) /\ (tcp.peer.in.buf = << >> \/ pair.shut = PipeEnds)
    BY <2>2, TCPUninterested
  <2>4. Ok => /\ IsFinished(tcp.peer.out) /\ IsFinished(tcp.peer.in) /\ tcp.peer.flight = << >>
              /\ app.outbound_shutdown /\ tcp.peer.fin = "acked" /\ tcp.peer.syn = "acked"
    BY <1>2, <1>4, <2>3, TCPFinished DEF Threads
  <2>5. Data' /\ CopyLoopSound' /\ TCPLoopSound' /\ Ok' = Ok
    BY <1>1, <2>1, <2>4, HangsUp
  <2>6. Threads'
    BY <1>1, <1>2, <1>4, <2>1, <2>4, <2>5 DEF Threads, Idle
  <2> QED
    BY <2>5, <2>6 DEF IInv
<1> QED
  BY <1>3, <1>4

(***************************************************************************)
(* The owner's loop has no rule left to poll only after both directions    *)
(* are shut down, while nothing has gone wrong.                            *)
(***************************************************************************)
LEMMA CopyUninterested ==
    ASSUME IInv, Ok, NEW c \in CopyLoop!Prepare(appLoop.rules, CopyState), ~CopyLoop!SomethingToPoll(c)
    PROVE  app.outbound_shutdown /\ app.inbound_shutdown /\ c.s = CopyState
<1>1. Data /\ CopyLoopSound
  BY DEF IInv
<1> DEFINE s == CopyState
           ok == Ok
           rules == appLoop.rules
<1>2. CopyGood(s, tcp, net, remote, typed, ok) /\ SameApp(app, s) /\ s.pair = pair
  BY <1>1, CopyStateGood, CopyStateFields DEF Data
<1> HIDE DEF s
<1>3. CopyRulesLeft(rules, s, s.pair, ok)
  BY <1>1, <1>2, CopyRulesSame DEF CopyLoopSound
<1>4. ok
  OBVIOUS
<1> HIDE DEF ok, rules
<1>5. c \in CopyLoop!Prepare(rules, s)
  BY DEF s, rules
<1>6. /\ CopyRulesLeft(c.rules, s, s.pair, ok) /\ c.s = s
      /\ c.events \in Seq(BOOLEAN) /\ Len(c.events) = Len(c.rules)
      /\ \A i \in 1 .. Len(c.rules) : c.events[i] <=> CopyInterest(c.rules[i], s)
  BY <1>2, <1>3, <1>5, CopyPrepared
<1>7. \A i \in 1 .. Len(c.rules) : ~CopyInterest(c.rules[i], s)
  <2>1. DOMAIN c.events = 1 .. Len(c.rules)
    BY <1>6
  <2> QED
    BY <1>6, <2>1 DEF CopyLoop!SomethingToPoll
<1>8. \A rule \in CopyRuleSet : ~CopyInterest(rule, s) \/ CopyGone(rule, s, s.pair, ok)
  BY <1>6, <1>7 DEF CopyRulesLeft, Missing
<1>9. {InputRule, OutboundRule, SocketRule, OutputRule} \subseteq CopyRuleSet
  BY DEF CopyRuleSet
<1>10. AppTypes(s) /\ OutApp(s, s.pair, ok) /\ InApp(s, s.pair, ok)
  BY <1>2 DEF CopyGood, Sound
<1>11. ~HasErrors(s)
  BY <1>4, <1>10 DEF HasErrors, OutApp, InApp
<1>12. s.outbound_shutdown
  <2>1. CASE CopyGone(OutboundRule, s, s.pair, ok)
    <3>1. "tcp" \in s.pair.shut
      BY <2>1 DEF CopyGone, PipeEnds
    <3> QED
      BY <1>4, <1>10, <3>1 DEF OutApp
  <2>2. CASE ~CopyInterest(OutboundRule, s)
    <3>1. s.outbound.buf = << >> /\ (IsFinished(s.outbound) => s.outbound_shutdown)
      BY <2>2, CopyInterests
    <3>2. AvailableCapacity(s.outbound) > 0
      <4>1. s.outbound.capacity = BufferSize /\ Len(s.outbound.buf) = 0
        BY <1>10, <3>1 DEF AppTypes
      <4>2. BufferSize \in Nat /\ BufferSize > 0
        BY StreamCopyAssumption
      <4> QED
        BY <4>1, <4>2 DEF AvailableCapacity
    <3>3. s.outbound.closed
      <4>1. CASE CopyGone(InputRule, s, s.pair, ok)
        BY <4>1 DEF CopyGone
      <4>2. CASE ~CopyInterest(InputRule, s)
        BY <1>11, <3>2, <4>2, CopyInterests
      <4> QED
        BY <1>8, <1>9, <4>1, <4>2
    <3> QED
      BY <3>1, <3>3 DEF IsFinished
  <2> QED
    BY <1>8, <1>9, <2>1, <2>2
<1>13. s.inbound_shutdown
  <2>1. CASE CopyGone(OutputRule, s, s.pair, ok)
    BY <1>4, <2>1 DEF CopyGone
  <2>2. CASE ~CopyInterest(OutputRule, s)
    <3>1. s.inbound.buf = << >> /\ (IsFinished(s.inbound) => s.inbound_shutdown)
      BY <2>2, CopyInterests
    <3>2. AvailableCapacity(s.inbound) > 0
      <4>1. s.inbound.capacity = BufferSize /\ Len(s.inbound.buf) = 0
        BY <1>10, <3>1 DEF AppTypes
      <4>2. BufferSize \in Nat /\ BufferSize > 0
        BY StreamCopyAssumption
      <4> QED
        BY <4>1, <4>2 DEF AvailableCapacity
    <3>3. s.inbound.closed
      <4>1. CASE CopyGone(SocketRule, s, s.pair, ok)
        BY <4>1 DEF CopyGone
      <4>2. CASE ~CopyInterest(SocketRule, s)
        BY <1>11, <3>2, <4>2, CopyInterests
      <4> QED
        BY <1>8, <1>9, <4>1, <4>2
    <3> QED
      BY <3>1, <3>3 DEF IsFinished
  <2> QED
    BY <1>8, <1>9, <2>1, <2>2
<1>14. app.outbound_shutdown = s.outbound_shutdown /\ app.inbound_shutdown = s.inbound_shutdown
  BY <1>2, SameAppFields
<1> QED
  BY <1>6, <1>12, <1>13, <1>14 DEF s

(***************************************************************************)
(* The end of the owner's loop, and the start of its wait for the end of   *)
(* the connection, keep the invariant.                                     *)
(***************************************************************************)
LEMMA WaitUntilClosedKeeps ==
    ASSUME IInv, WaitUntilClosed
    PROVE  IInv'
<1>1. PICK c : c \in CopyLoop!Prepare(appLoop.rules, CopyState) /\ ~CopyLoop!SomethingToPoll(c) /\ KeepCopy(c.s)
  BY Zenon DEF WaitUntilClosed
<1>2. /\ UNCHANGED <<tcp, net, killed, appLoop, tcpLoop, thread, abort, threw, typed, remote, faulted>>
      /\ main = "copying" /\ main' = "closing" /\ pair' = ShutBoth(pair)
  BY DEF WaitUntilClosed, loops, world
<1>3. Data /\ CopyLoopSound /\ Threads
  BY DEF IInv
<1>4. c.s = CopyState
  <2> DEFINE s == CopyState
             ok == Ok
             rules == appLoop.rules
  <2>1. CopyGood(s, tcp, net, remote, typed, ok) /\ SameApp(app, s) /\ s.pair = pair
    BY <1>3, CopyStateGood, CopyStateFields DEF Data
  <2> HIDE DEF s
  <2>2. CopyRulesLeft(rules, s, s.pair, ok)
    BY <1>3, <2>1, CopyRulesSame DEF CopyLoopSound
  <2> HIDE DEF ok, rules
  <2>3. c \in CopyLoop!Prepare(rules, s)
    BY <1>1 DEF s, rules
  <2>4. c.s = s
    BY <2>1, <2>2, <2>3, CopyPrepared
  <2> QED
    BY <2>4 DEF s
<1>5. app' = app
  BY <1>1, <1>3, <1>4, CopySame DEF Data
<1>6. Ok => app.outbound_shutdown /\ app.inbound_shutdown
  BY <1>1, CopyUninterested
<1>7. Ok => IsFinished(tcp.peer.in)
  <2> SUFFICES ASSUME Ok PROVE IsFinished(tcp.peer.in)
    OBVIOUS
  <2>1. InApp(app, pair, TRUE) /\ InTCP(tcp, pair, net, remote, TRUE)
    BY <1>3 DEF Data, Sound, InApp, InTCP
  <2>2. app.inbound.closed
    BY <1>6, <2>1 DEF InApp, IsFinished
  <2> QED
    BY <2>1, <2>2 DEF InApp, InTCP
<1>8. Data' /\ CopyLoopSound' /\ TCPLoopSound' /\ Ok' = Ok
  BY <1>2, <1>5, <1>6, <1>7, HangsUp
<1>9. Threads'
  BY <1>2, <1>3, <1>5, <1>6, <1>8 DEF Threads, Idle
<1> QED
  BY <1>8, <1>9 DEF IInv

-----------------------------------------------------------------------------
(***************************************************************************)
(* A tick that only changes whether the peer is idle.                      *)
(***************************************************************************)
LEMMA TickedSound ==
    ASSUME NEW a, NEW t, NEW pr, NEW nt, NEW rm, NEW ty, NEW ok, Sound(a, t, pr, nt, rm, ty, ok),
           NEW u, NEW p \in Peers, u.peer = p, u.thread_data = t.thread_data,
           u.inbound_shutdown = t.inbound_shutdown, u.outbound_shutdown = t.outbound_shutdown,
           p.syn = t.peer.syn, p.flight = t.peer.flight, p.fin = t.peer.fin,
           p.out.capacity = t.peer.out.capacity, p.out.closed = t.peer.out.closed, p.out.buf = t.peer.out.buf,
           p.in.capacity = t.peer.in.capacity, p.in.closed = t.peer.in.closed, p.in.buf = t.peer.in.buf,
           p.out.error = t.peer.out.error, p.in.error = t.peer.in.error
    PROVE  Sound(a, u, pr, nt, rm, ty, ok)
<1>1. IsFinished(p.out) = IsFinished(t.peer.out) /\ IsFinished(p.in) = IsFinished(t.peer.in)
  BY DEF IsFinished
<1>2. TCPTypes(u)
  BY DEF Sound, TCPTypes
<1>3. OutTCP(u, pr)
  BY DEF Sound, OutTCP
<1>4. InTCP(u, pr, nt, rm, ok)
  BY <1>1 DEF Sound, InTCP
<1>5. Filling(p) /\ NotIdle(p)
  BY <1>1 DEF Sound, Filling, NotIdle
<1>6. SynAcked(p, nt) = SynAcked(t.peer, nt) /\ Fresh(p, nt) = Fresh(t.peer, nt)
  BY DEF SynAcked, Fresh
<1>7. Answers(p, nt, rm)
  BY <1>6 DEF Sound, Answers
<1>8. OutChain(a, p, pr, nt, rm, ty) /\ InChain(a, p, pr, nt, rm)
  BY <1>6 DEF Sound, OutChain, InChain
<1> QED
  BY <1>2, <1>3, <1>4, <1>5, <1>7, <1>8 DEF Sound

(***************************************************************************)
(* The tick that ends lingering keeps the invariant.                       *)
(***************************************************************************)
LEMMA TCPTicksKeeps ==
    ASSUME IInv, TCPTicks
    PROVE  IInv'
<1>1. /\ LoopRuns /\ tcpLoop.revents = Idle
      /\ UNCHANGED <<app, pair, net, killed, appLoop, tcpLoop, main, thread, abort, threw, typed, remote>>
  BY DEF TCPTicks, loops, threads, world
<1>2. Data /\ CopyLoopSound /\ TCPLoopSound /\ Threads
  BY DEF IInv
<1>3. IsRecord(tcp, SockFields) /\ tcp.peer \in Peers /\ tcp.peer.out \in Stream /\ tcp.peer.in \in Stream
  BY <1>2 DEF Data, Sound, TCPTypes, Peers
<1> DEFINE next == tcp'
           p == next.peer
           ok == Ok
           still == Ok'
<1>4. "peer" \in SockFields
  BY DEF SockFields
<1>5. /\ IsRecord(next, SockFields) /\ \A g \in SockFields \ {"peer"} : next[g] = tcp[g]
      /\ p \in Peers /\ p.syn = tcp.peer.syn /\ p.flight = tcp.peer.flight /\ p.fin = tcp.peer.fin
      /\ p.out.capacity = tcp.peer.out.capacity /\ p.out.closed = tcp.peer.out.closed /\ p.out.buf = tcp.peer.out.buf
      /\ p.in.capacity = tcp.peer.in.capacity /\ p.in.closed = tcp.peer.in.closed /\ p.in.buf = tcp.peer.in.buf
      /\ p.out.error = tcp.peer.out.error /\ p.in.error = tcp.peer.in.error
      /\ still = ok
  <2> DEFINE q == [tcp.peer EXCEPT !.idle = TRUE]
  <2>1. tcp' = [tcp EXCEPT !.peer.idle = TRUE] /\ faulted' = faulted
    BY DEF TCPTicks, world
  <2>2. next = Put(tcp, "peer", q)
    BY <2>1, Zenon DEF Put
  <2>3. /\ q \in Peers /\ q.syn = tcp.peer.syn /\ q.flight = tcp.peer.flight /\ q.fin = tcp.peer.fin
        /\ q.out = tcp.peer.out /\ q.in = tcp.peer.in
    BY <1>3 DEF Peers
  <2>4. still = ok
    BY <2>1, NoLongerOk
  <2> HIDE DEF q, next, still, ok
  <2>5. IsRecord(next, SockFields) /\ next["peer"] = q /\ \A g \in SockFields \ {"peer"} : next[g] = tcp[g]
    BY <1>3, <1>4, <2>2, PutOne
  <2> QED
    BY <2>3, <2>4, <2>5
<1>6. /\ next.thread_data = tcp.thread_data
      /\ next.inbound_shutdown = tcp.inbound_shutdown /\ next.outbound_shutdown = tcp.outbound_shutdown
  BY <1>5 DEF SockFields
<1>7. Sound(app, tcp, pair, net, remote, typed, ok) /\ (killed => ~ok)
  BY <1>2 DEF Data
<1> HIDE DEF next, p, ok, still
<1>8. Sound(app, tcp, pair, net, remote, typed, still)
  BY <1>5, <1>7
<1>9. Sound(app, next, pair, net, remote, typed, still)
  BY <1>5, <1>6, <1>8, TickedSound DEF p
<1>10. still => ok
  BY <1>5
<1>11. Data'
  BY <1>1, <1>2, <1>5, <1>7, <1>9, <1>10 DEF Data, next, still, ok
<1>12. ForCopy(pair, pair') /\ ForTCP(pair, pair')
  <2>1. pair \in Pipes
    BY <1>2 DEF Data, Sound
  <2>2. ForCopy(pair, pair) /\ ForTCP(pair, pair)
    BY <2>1, PipeStays
  <2> QED
    BY <1>1, <2>2
<1>13. CopyLoopSound'
  BY <1>1, <1>2, <1>10, <1>12, CopyLoopWaits DEF still, ok
<1>14. TCPLoopSound'
  BY <1>1, <1>2 DEF TCPLoopSound, Idle
<1>15. Threads'
  <2>1. thread # "ended"
    BY <1>1, <1>2 DEF LoopRuns, Connecting, Threads
  <2>2. tcp'.peer.syn = tcp.peer.syn
    BY <1>5 DEF p, next
  <2>3. Ok' => Ok
    BY <1>10 DEF still, ok
  <2> QED
    BY <1>1, <1>2, <2>1, <2>2, <2>3 DEF Threads
<1> QED
  BY <1>11, <1>13, <1>14, <1>15 DEF IInv

-----------------------------------------------------------------------------
(***************************************************************************)
(* The program starts in the invariant.                                    *)
(***************************************************************************)
LEMMA Empty ==
    ASSUME NEW first
    PROVE  BytesFrom(first, 0) = << >> /\ << >> \o << >> = << >> /\ << >> \in Seq(Byte)
<1>1. << >> \in Seq(Byte)
  OBVIOUS
<1>2. BytesFrom(first, 0) = << >>
  BY DEF BytesFrom
<1> QED
  BY <1>1, <1>2, NothingMore

(***************************************************************************)
(* A new ByteStream is empty, open and without error.                      *)
(***************************************************************************)
LEMMA NewStreamFields ==
    ASSUME NEW capacity \in Nat
    PROVE  /\ NewStream(capacity) \in Stream /\ NewStream(capacity).capacity = capacity
           /\ ~NewStream(capacity).error /\ ~NewStream(capacity).closed
           /\ NewStream(capacity).buf = << >> /\ ~IsFinished(NewStream(capacity))
<1>1. << >> \in Seq(Byte)
  OBVIOUS
<1> QED
  BY <1>1 DEF NewStream, Stream, IsFinished

(***************************************************************************)
(* Both loops start with all their rules, in the order they are added.     *)
(***************************************************************************)
LEMMA FirstRules ==
    /\ CopyRules \in Seq(CopyRuleSet) /\ InOrder(CopyRules)
    /\ \A rule \in CopyRuleSet : ~Missing(rule, CopyRules)
    /\ TCPRules \in Seq(TCPRuleSet) /\ InOrder(TCPRules)
    /\ \A rule \in TCPRuleSet : ~Missing(rule, TCPRules)
<1>1. /\ Place(InputRule) = 1 /\ Place(OutboundRule) = 2 /\ Place(SocketRule) = 3 /\ Place(OutputRule) = 4
      /\ Place(ReceiveRule) = 5 /\ Place(PushRule) = 6 /\ Place(InboundRule) = 7
  BY RulesDiffer DEF Place
<1>2. /\ CopyRules \in Seq(CopyRuleSet) /\ Len(CopyRules) = 4
      /\ CopyRules[1] = InputRule /\ CopyRules[2] = OutboundRule
      /\ CopyRules[3] = SocketRule /\ CopyRules[4] = OutputRule
  <2>1. {InputRule, OutboundRule, SocketRule, OutputRule} \subseteq CopyRuleSet
    BY DEF CopyRuleSet
  <2> HIDE DEF InputRule, OutboundRule, SocketRule, OutputRule, CopyRuleSet
  <2> QED
    BY <2>1 DEF CopyRules
<1>3. /\ TCPRules \in Seq(TCPRuleSet) /\ Len(TCPRules) = 3
      /\ TCPRules[1] = ReceiveRule /\ TCPRules[2] = PushRule /\ TCPRules[3] = InboundRule
  <2>1. {ReceiveRule, PushRule, InboundRule} \subseteq TCPRuleSet
    BY DEF TCPRuleSet
  <2> HIDE DEF ReceiveRule, PushRule, InboundRule, TCPRuleSet
  <2> QED
    BY <2>1 DEF TCPRules
<1>4. InOrder(CopyRules)
  <2>1. \A i \in 1 .. 4 : Place(CopyRules[i]) = i
    BY <1>1, <1>2
  <2> QED
    BY <1>2, <2>1 DEF InOrder
<1>5. InOrder(TCPRules)
  <2>1. \A i \in 1 .. 3 : Place(TCPRules[i]) = 4 + i
    BY <1>1, <1>3
  <2> QED
    BY <1>3, <2>1 DEF InOrder
<1>6. \A rule \in CopyRuleSet : ~Missing(rule, CopyRules)
  BY <1>2 DEF Missing, CopyRuleSet
<1>7. \A rule \in TCPRuleSet : ~Missing(rule, TCPRules)
  BY <1>3 DEF Missing, TCPRuleSet
<1> QED
  BY <1>2, <1>3, <1>4, <1>5, <1>6, <1>7

(***************************************************************************)
(* The data of a program that has just started is sound, whichever side    *)
(* connects.                                                               *)
(***************************************************************************)
LEMMA StartsSound ==
    ASSUME NEW syn \in {"unsent", "sent"}, NEW a, a = NewCopy,
           NEW t, t = [peer |-> NewPeer(syn), thread_data |-> OpenFD,
                       inbound_shutdown |-> FALSE, outbound_shutdown |-> FALSE],
           NEW rm, rm = [got |-> << >>, finGot |-> FALSE, sent |-> 0, fin |-> FALSE]
    PROVE  IsRecord(a, AppFields) /\ IsRecord(t, SockFields) /\ Sound(a, t, NewPair, NoSegment, rm, 0, TRUE)
<1>1. BufferSize \in Nat /\ SendCapacity \in Nat /\ RecvCapacity \in Nat /\ Window \in Nat
  BY StreamCopyAssumption, SocketAssumption
<1> DEFINE b == NewStream(BufferSize)
           o == NewStream(SendCapacity)
           i == NewStream(RecvCapacity)
           p == NewPeer(syn)
<1>2. /\ b \in Stream /\ b.capacity = BufferSize /\ ~b.error /\ ~b.closed /\ b.buf = << >> /\ ~IsFinished(b)
      /\ o \in Stream /\ o.capacity = SendCapacity /\ ~o.error /\ ~o.closed /\ o.buf = << >> /\ ~IsFinished(o)
      /\ i \in Stream /\ i.capacity = RecvCapacity /\ ~i.error /\ ~i.closed /\ i.buf = << >> /\ ~IsFinished(i)
  BY <1>1, NewStreamFields
<1>3. << >> \in Seq(Byte) /\ Len(<< >>) = 0
  OBVIOUS
<1>4. OpenFD \in FileDescriptors /\ ~OpenFD.eof /\ ~OpenFD.closed
  BY DEF OpenFD, FileDescriptors
<1>5. NewPair \in Pipes /\ NewPair.to["tcp"] = << >> /\ NewPair.to["app"] = << >> /\ NewPair.shut = {}
  BY <1>3 DEF NewPair, Pipes, PipeEnds
<1> HIDE DEF b, o, i
<1>6. /\ IsRecord(a, AppFields) /\ a.outbound = b /\ a.inbound = b
      /\ a.outbound_shutdown = FALSE /\ a.inbound_shutdown = FALSE
      /\ a.socket = OpenFD /\ a.input = OpenFD /\ a.output = OpenFD
      /\ a.stdin = [unread |-> << >>, end |-> "open"] /\ a.stdout = [printed |-> << >>, broken |-> FALSE]
  <2>1. a = [outbound |-> b, inbound |-> b, outbound_shutdown |-> FALSE, inbound_shutdown |-> FALSE,
             socket |-> OpenFD, input |-> OpenFD, output |-> OpenFD,
             stdin |-> [unread |-> << >>, end |-> "open"], stdout |-> [printed |-> << >>, broken |-> FALSE]]
    BY DEF NewCopy, b
  <2> QED
    BY <2>1 DEF IsRecord, AppFields
<1>7. /\ p \in Peers /\ p.out = o /\ p.in = i /\ p.syn = syn /\ p.flight = << >> /\ p.fin = "unsent"
  <2>1. p = [out |-> o, in |-> i, syn |-> syn, flight |-> << >>, fin |-> "unsent", linger |-> TRUE, idle |-> FALSE]
    BY DEF NewPeer, o, i
  <2> HIDE DEF p
  <2> QED
    BY <1>2, <1>3, <2>1 DEF Peers
<1> HIDE DEF p
<1>8. /\ IsRecord(t, SockFields) /\ t.peer = p /\ t.thread_data = OpenFD
      /\ t.inbound_shutdown = FALSE /\ t.outbound_shutdown = FALSE
  <2>1. t = [peer |-> p, thread_data |-> OpenFD, inbound_shutdown |-> FALSE, outbound_shutdown |-> FALSE]
    BY DEF p
  <2> QED
    BY <2>1 DEF IsRecord, SockFields
<1>9. rm \in Remotes /\ rm.got = << >> /\ ~rm.finGot /\ rm.sent = 0 /\ ~rm.fin
  BY <1>3 DEF Remotes
<1>10. AppTypes(a)
  <2>1. a.outbound \in Stream /\ a.inbound \in Stream
    BY <1>2, <1>6
  <2>2. a.socket \in FileDescriptors /\ a.input \in FileDescriptors /\ a.output \in FileDescriptors
    BY <1>4, <1>6
  <2>3. a.stdin \in [unread : Seq(Byte), end : {"open", "eof", "hung up"}]
    BY <1>3, <1>6
  <2>4. a.stdout \in [printed : Seq(Byte), broken : BOOLEAN]
    BY <1>3, <1>6
  <2> QED
    BY <1>2, <1>4, <1>6, <2>1, <2>2, <2>3, <2>4 DEF AppTypes
<1>11. TCPTypes(t)
  BY <1>2, <1>4, <1>7, <1>8 DEF TCPTypes
<1>12. OutApp(a, NewPair, TRUE) /\ InApp(a, NewPair, TRUE)
  BY <1>2, <1>4, <1>5, <1>6 DEF OutApp, InApp
<1>13. OutTCP(t, NewPair) /\ InTCP(t, NewPair, NoSegment, rm, TRUE)
  BY <1>2, <1>4, <1>5, <1>7, <1>8, NoSegmentFields DEF OutTCP, InTCP
<1>14. Filling(p) /\ NotIdle(p)
  BY <1>1, <1>2, <1>3, <1>7 DEF Filling, NotIdle
<1>15. Fresh(p, NoSegment) = << >> /\ SynAcked(p, NoSegment) = 0
  BY <1>7, NoSegmentFields, NothingFresh
<1>16. Answers(p, NoSegment, rm)
  BY <1>3, <1>7, <1>15, NoSegmentFields DEF Answers
<1>17. OutChain(a, p, NewPair, NoSegment, rm, 0) /\ InChain(a, p, NewPair, NoSegment, rm)
  <2>1. a.outbound.buf = << >> /\ a.inbound.buf = << >> /\ a.stdin.unread = << >> /\ a.stdout.printed = << >>
        /\ p.out.buf = << >> /\ p.in.buf = << >>
    BY <1>2, <1>6, <1>7
  <2> QED
    BY <1>5, <1>9, <1>15, <2>1, Empty, NoSegmentFields DEF OutChain, InChain
<1> QED
  BY <1>5, <1>6, <1>8, <1>9, <1>10, <1>11, <1>12, <1>13, <1>14, <1>16, <1>17, NoSegmentFields DEF Sound

(***************************************************************************)
(* The program starts in the invariant.                                    *)
(***************************************************************************)
LEMMA InitInvariant ==
    ASSUME Init
    PROVE  IInv
<1>1. PICK syn \in {"sent", "unsent"} :
          tcp = [peer |-> NewPeer(syn), thread_data |-> OpenFD,
                 inbound_shutdown |-> FALSE, outbound_shutdown |-> FALSE]
  BY DEF Init
<1>2. /\ app = NewCopy /\ pair = NewPair /\ net = NoSegment /\ killed = FALSE
      /\ appLoop = [rules |-> CopyRules, revents |-> Idle]
      /\ tcpLoop = [rules |-> TCPRules, revents |-> Idle]
      /\ main = "connecting" /\ thread = "none" /\ abort = FALSE /\ threw = FALSE
      /\ typed = 0 /\ remote = [got |-> << >>, finGot |-> FALSE, sent |-> 0, fin |-> FALSE]
      /\ faulted = {}
  BY DEF Init
<1>3. Ok = TRUE
  BY <1>2 DEF Ok
<1>4. IsRecord(app, AppFields) /\ IsRecord(tcp, SockFields) /\ Sound(app, tcp, NewPair, NoSegment, remote, 0, TRUE)
  BY <1>1, <1>2, StartsSound
<1>5. Data
  BY <1>2, <1>3, <1>4 DEF Data
<1>6. CopyLoopSound
  <2>1. IsRecord(appLoop, {"rules", "revents"}) /\ appLoop.rules = CopyRules /\ appLoop.revents = Idle
    BY <1>2 DEF IsRecord
  <2> QED
    BY <2>1, FirstRules DEF CopyLoopSound, CopyRulesLeft
<1>7. TCPLoopSound
  <2>1. IsRecord(tcpLoop, {"rules", "revents"}) /\ tcpLoop.rules = TCPRules /\ tcpLoop.revents = Idle
    BY <1>2 DEF IsRecord
  <2> QED
    BY <2>1, FirstRules DEF TCPLoopSound, TCPRulesLeft
<1>8. Threads
  <2>1. ~app.outbound.closed
    <3>1. app.outbound = NewStream(BufferSize)
      BY <1>2 DEF NewCopy
    <3>2. BufferSize \in Nat
      BY StreamCopyAssumption
    <3> QED
      BY <3>1, <3>2, NewStreamFields
  <2> QED
    BY <1>2, <1>3, <2>1 DEF Threads
<1> QED
  BY <1>5, <1>6, <1>7, <1>8 DEF IInv

(***************************************************************************)
(* Every step of both threads and of the world keeps the invariant, and so *)
(* it always holds.                                                        *)
(***************************************************************************)
LEMMA NextKeeps ==
    ASSUME IInv, [Next]_vars
    PROVE  IInv'
<1>1. CASE TCPPolls
  BY <1>1, TCPPollsKeeps
<1>2. CASE TCPServes
  BY <1>2, TCPServesKeeps
<1>3. CASE TCPAborts
  BY <1>3, TCPAbortsKeeps
<1>4. CASE TCPLoopEnds
  BY <1>4, TCPLoopEndsKeeps
<1>5. CASE TCPTicks
  BY <1>5, TCPTicksKeeps
<1>6. CASE CopyPolls
  BY <1>6, CopyPollsKeeps
<1>7. CASE CopyServes
  BY <1>7, CopyServesKeeps
<1>8. CASE WaitUntilClosed
  BY <1>8, WaitUntilClosedKeeps
<1>9. CASE Exception
  BY <1>9, ExceptionKeeps
<1>10. CASE Join
  BY <1>10, JoinKeeps
<1>11. CASE Type
  BY <1>11, TypeKeeps
<1>12. CASE EndInput
  BY <1>12, EndInputKeeps
<1>13. CASE BreakOutput
  BY <1>13, BreakOutputKeeps
<1>14. CASE RemoteConnects
  BY <1>14, RemoteConnectsKeeps
<1>15. CASE RemoteAcks \/ RemoteSends \/ RemoteEnds
  BY <1>15, RemoteKeeps
<1>16. CASE RemoteResets
  BY <1>16, RemoteResetsKeeps
<1>17. CASE RemoteFallsSilent
  BY <1>17, RemoteFallsSilentKeeps
<1>18. CASE Over
  BY <1>18, StutterKeeps DEF Over
<1>19. CASE UNCHANGED vars
  BY <1>19, StutterKeeps
<1> QED
  BY <1>1, <1>2, <1>3, <1>4, <1>5, <1>6, <1>7, <1>8, <1>9, <1>10, <1>11, <1>12, <1>13, <1>14, <1>15,
     <1>16, <1>17, <1>18, <1>19 DEF Next

(***************************************************************************)
(* The invariant holds in every state of the program.                      *)
(***************************************************************************)
THEOREM ProgramInvariance == Spec => []IInv
<1>1. Init => IInv
  BY InitInvariant
<1>2. IInv /\ [Next]_vars => IInv'
  BY NextKeeps
<1> QED
  BY <1>1, <1>2, PTL DEF Spec

(***************************************************************************)
(* What has arrived is the beginning of what was sent, and all of it when  *)
(* the program has ended with nothing gone wrong.                          *)
(***************************************************************************)
LEMMA NamesOfBytes ==
    /\ SentByRemote = BytesFrom(101, remote.sent)
    /\ [k \in 1 .. typed |-> k] = BytesFrom(1, typed)
<1>1. \A k \in 1 .. remote.sent : 100 + k = 101 + k - 1
  OBVIOUS
<1>2. \A k \in 1 .. typed : k = 1 + k - 1
  OBVIOUS
<1> QED
  BY <1>1, <1>2 DEF SentByRemote, BytesFrom

(***************************************************************************)
(* What begins a sequence begins every longer one.                         *)
(***************************************************************************)
LEMMA LongerPrefix ==
    ASSUME NEW S, NEW x \in Seq(S), NEW y \in Seq(S), NEW z \in Seq(S), IsPrefix(x, y)
    PROVE  IsPrefix(x, y \o z) /\ y \o z \in Seq(S)
<1> DEFINE n == Len(x)
           whole == y \o z
<1>1. whole \in Seq(S) /\ Len(whole) = Len(y) + Len(z)
  BY ConcatProperties
<1>2. n \in Nat /\ Len(y) \in Nat /\ Len(z) \in Nat
  BY LenIsNat
<1>3. n <= Len(y) /\ SubSeq(x, 1, n) = SubSeq(y, 1, n)
  BY DEF IsPrefix
<1>4. \A i \in 1 .. n : whole[i] = y[i]
  BY <1>2, <1>3
<1> HIDE DEF n, whole
<1>5. n \in 0 .. Len(y) /\ n \in 0 .. Len(whole)
  BY <1>1, <1>2, <1>3
<1>6. /\ SubSeq(y, 1, n) \in Seq(S) /\ Len(SubSeq(y, 1, n)) = n
      /\ \A i \in 1 .. n : SubSeq(y, 1, n)[i] = y[i]
  BY <1>5, PrefixProperties
<1>7. /\ SubSeq(whole, 1, n) \in Seq(S) /\ Len(SubSeq(whole, 1, n)) = n
      /\ \A i \in 1 .. n : SubSeq(whole, 1, n)[i] = whole[i]
  BY <1>1, <1>5, PrefixProperties
<1>8. SubSeq(whole, 1, n) = SubSeq(y, 1, n)
  BY <1>4, <1>6, <1>7, SeqEqual
<1>9. n <= Len(whole)
  BY <1>2, <1>5
<1>10. IsPrefix(x, whole)
  BY <1>3, <1>8, <1>9 DEF IsPrefix, n
<1> QED
  BY <1>1, <1>10 DEF whole

(***************************************************************************)
(* A chain of sequences begins with the first of them.                     *)
(***************************************************************************)
LEMMA PrefixOfChain ==
    ASSUME NEW x \in Seq(Byte), NEW q1 \in Seq(Byte), NEW q2 \in Seq(Byte), NEW q3 \in Seq(Byte),
           NEW q4 \in Seq(Byte), NEW q5 \in Seq(Byte)
    PROVE  /\ IsPrefix(x, (((x \o q1) \o q2) \o q3) \o q4)
           /\ IsPrefix(x, ((((x \o q1) \o q2) \o q3) \o q4) \o q5)
<1>1. x \o q1 \in Seq(Byte) /\ IsPrefix(x, x \o q1)
  BY ConcatProperties, PrefixOfAll
<1> DEFINE r1 == x \o q1
           r2 == r1 \o q2
           r3 == r2 \o q3
           r4 == r3 \o q4
<1> HIDE DEF r4, r3, r2
<1>2. r1 \in Seq(Byte) /\ IsPrefix(x, r1)
  BY <1>1
<1> HIDE DEF r1
<1>3. r2 \in Seq(Byte) /\ IsPrefix(x, r2)
  BY <1>2, LongerPrefix DEF r2
<1>4. r3 \in Seq(Byte) /\ IsPrefix(x, r3)
  BY <1>3, LongerPrefix DEF r3
<1>5. r4 \in Seq(Byte) /\ IsPrefix(x, r4)
  BY <1>4, LongerPrefix DEF r4
<1>6. IsPrefix(x, r4 \o q5)
  BY <1>5, LongerPrefix
<1> QED
  BY <1>5, <1>6 DEF r4, r3, r2, r1

(***************************************************************************)
(* In the invariant nothing is lost: both chains of bytes begin with what  *)
(* has arrived, and a program that ended with nothing gone wrong has empty *)
(* links after it.                                                         *)
(***************************************************************************)
LEMMA InvariantArrives ==
    ASSUME IInv
    PROVE  NothingLost
<1> DEFINE p == tcp.peer
<1>1. /\ AppTypes(app) /\ p \in Peers /\ pair \in Pipes /\ net \in Segments /\ remote \in Remotes
      /\ OutChain(app, p, pair, net, remote, typed) /\ InChain(app, p, pair, net, remote)
      /\ Answers(p, net, remote) /\ OutTCP(tcp, pair)
  BY DEF IInv, Data, Sound, TCPTypes
<1> DEFINE got == remote.got
           fresh == Fresh(p, net)
           out == p.out.buf
           to == pair.to["tcp"]
           ob == app.outbound.buf
           un == app.stdin.unread
           printed == app.stdout.printed
           ib == app.inbound.buf
           from == pair.to["app"]
           in == p.in.buf
           data == net.data
<1>2. /\ got \in Seq(Byte) /\ fresh \in Seq(Byte) /\ out \in Seq(Byte) /\ to \in Seq(Byte)
      /\ ob \in Seq(Byte) /\ un \in Seq(Byte)
      /\ printed \in Seq(Byte) /\ ib \in Seq(Byte) /\ from \in Seq(Byte) /\ in \in Seq(Byte) /\ data \in Seq(Byte)
  <2> HIDE DEF p
  <2>1. p.flight \in Seq(Byte) /\ p.in \in Stream
    BY <1>1, ChainTypes
  <2> QED
    BY <1>1, ChainTypes DEF Stream
<1>3. BytesFrom(1, typed) = ((((got \o fresh) \o out) \o to) \o ob) \o un
  BY <1>1 DEF OutChain
<1>4. BytesFrom(101, remote.sent) = (((printed \o ib) \o from) \o in) \o data
  BY <1>1 DEF InChain
<1>5. IsPrefix(got, BytesFrom(1, typed))
  <2> HIDE DEF got, fresh, out, to, ob, un
  <2>1. IsPrefix(got, ((((got \o fresh) \o out) \o to) \o ob) \o un)
    BY <1>2, PrefixOfChain
  <2> QED
    BY <1>3, <2>1
<1>6. IsPrefix(printed, BytesFrom(101, remote.sent))
  <2> HIDE DEF printed, ib, from, in, data
  <2>1. IsPrefix(printed, (((printed \o ib) \o from) \o in) \o data)
    BY <1>2, PrefixOfChain
  <2> QED
    BY <1>4, <2>1
<1>7. ASSUME main = "done", faulted = {}
      PROVE  printed = BytesFrom(101, remote.sent) /\ got = BytesFrom(1, typed) /\ remote.finGot
  <2>1. Ok /\ Threads
    BY <1>7 DEF Ok, IInv
  <2>2. /\ app.outbound_shutdown /\ app.inbound_shutdown
        /\ IsFinished(p.out) /\ IsFinished(p.in) /\ p.flight = << >> /\ p.fin = "acked"
    BY <1>7, <2>1 DEF Threads
  <2>3. OutApp(app, pair, TRUE) /\ InApp(app, pair, TRUE) /\ InTCP(tcp, pair, net, remote, TRUE)
    BY <2>1 DEF IInv, Data, Sound, OutApp, InApp, InTCP
  <2>4. remote.finGot
    BY <1>1, <2>2 DEF Answers
  <2>5. /\ ob = << >> /\ un = << >> /\ out = << >> /\ to = << >>
        /\ ib = << >> /\ from = << >> /\ in = << >> /\ data = << >>
    BY <1>1, <2>2, <2>3 DEF OutApp, InApp, OutTCP, InTCP, IsFinished
  <2>6. fresh = << >>
    <3> DEFINE n == Lesser(net.acks - SynAcked(p, net), Len(p.flight))
    <3>1. p.flight \in Seq(Byte) /\ Len(p.flight) = 0 /\ net.acks \in Nat
      BY <1>1, <2>2 DEF Peers, Segments
    <3>2. n \in Int
      <4>1. SynAcked(p, net) \in Int
        BY DEF SynAcked
      <4> QED
        BY <3>1, <4>1 DEF Lesser
    <3> HIDE DEF n, p
    <3>3. n \in 0 .. Len(p.flight) /\ fresh = SubSeq(p.flight, n + 1, Len(p.flight))
      BY <1>1, <3>1, <3>2, FreshType DEF n
    <3>4. Len(SubSeq(p.flight, n + 1, Len(p.flight))) = Len(p.flight) - n
      BY <3>1, <3>3, CutInTwo
    <3>5. Len(fresh) = 0
      BY <3>1, <3>3, <3>4
    <3> QED
      BY <1>2, <3>5, EmptySeq
  <2> HIDE DEF got, fresh, out, to, ob, un, printed, ib, from, in, data
  <2>7. got \o << >> = got /\ printed \o << >> = printed
    BY <1>2, NothingMore
  <2>8. BytesFrom(1, typed) = got
    BY <1>3, <2>5, <2>6, <2>7
  <2>9. BytesFrom(101, remote.sent) = printed
    BY <1>4, <2>5, <2>7
  <2> QED
    BY <2>4, <2>8, <2>9
<1> HIDE DEF got, printed
<1>8. /\ IsPrefix(printed, SentByRemote)
      /\ IsPrefix(got, [k \in 1 .. typed |-> k])
      /\ main = "done" /\ faulted = {} =>
             printed = SentByRemote /\ got = [k \in 1 .. typed |-> k] /\ remote.finGot
  BY <1>5, <1>6, <1>7, NamesOfBytes
<1> QED
  BY <1>8, Zenon DEF NothingLost, got, printed

(***************************************************************************)
(* For any number of bytes, any capacities and any faults: the bytes of    *)
(* each direction arrive in order and none twice, through the owner's      *)
(* streams, the pipe, the socket and its peer, while both threads and the  *)
(* world interleave between poll and callback; and a program that ends     *)
(* with nothing gone wrong has delivered all of them, and its end.         *)
(***************************************************************************)
THEOREM NothingEverLost == Spec => []NothingLost
<1>1. IInv => NothingLost
  BY InvariantArrives
<1> QED
  BY <1>1, ProgramInvariance, PTL

(***************************************************************************)
(* No write into a direction of the pipe that has been shut down ends the  *)
(* process, as long as nothing has gone wrong.                             *)
(***************************************************************************)
THEOREM NeverBrokenPipe == Spec => []NoBrokenPipe
<1>1. IInv => NoBrokenPipe
  BY DEF IInv, Data, Ok, NoBrokenPipe
<1> QED
  BY <1>1, ProgramInvariance, PTL

(***************************************************************************)
(* No event loop ever finds one of the seven rules ready and interested,   *)
(* whose callback then neither reads nor writes: wait_next_event does not  *)
(* throw, whatever has gone wrong.                                         *)
(***************************************************************************)
THEOREM NeverBusyWait == Spec => []NoBusyWait
<1>1. IInv => NoBusyWait
  BY DEF IInv, Data, NoBusyWait
<1> QED
  BY <1>1, ProgramInvariance, PTL
=============================================================================
