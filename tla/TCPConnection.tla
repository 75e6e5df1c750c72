---------------------------- MODULE TCPConnection ---------------------------
(***************************************************************************)
(* Two TCPPeers and the network between them.  Each peer is driven by the  *)
(* event loop of its TCPMinnowSocket: a segment arrives (rule 1), the      *)
(* application's bytes or its end of file are read from the pipe (rule 2), *)
(* received bytes are written to the pipe (rule 3), time passes (tick).    *)
(* The network loses, repeats, delays and reorders segments.               *)
(***************************************************************************)
EXTENDS TCPPeer, FiniteSets

CONSTANTS
    Opener, Listener,       \* the two sides
    ISNs,                   \* their initial sequence numbers
    StreamLens,             \* bound: bytes each application may write
    TickMs,                 \* the length of a tick
    NetCap,                 \* bound: timeouts and repetitions wait while so
                            \* many segments are in the network
    MaxFaults               \* bound: segments lost or repeated

Sides == {Opener, Listener}
Other(p) == IF p = Opener THEN Listener ELSE Opener

ASSUME ConnectionAssumption ==
    /\ Opener # Listener
    /\ ISNs \in [Sides -> Wrap32]
    /\ StreamLens \in [Sides -> Nat]
    /\ TickMs \in Nat \ {0}
    /\ NetCap \in Nat /\ MaxFaults \in Nat

(***************************************************************************)
(* The network may deliver a segment at any later time.  TCP counts on it  *)
(* that none arrives after the sequence numbers have come round again; the *)
(* code has no defence of its own, and here it is the streams that are     *)
(* short of half the sequence space.                                       *)
(***************************************************************************)
ASSUME SequenceSpaceAssumption ==
    \A p \in Sides : StreamLens[p] + 2 < Mod32 \div 2

VARIABLES
    peer,           \* the TCPPeer of each side
    net,            \* the segments under way, each with its destination
    faults          \* how many the network has lost or repeated

vars == << peer, net, faults >>

Init ==
    /\ peer = [p \in Sides |-> NewPeer(ISNs[p])]
    /\ net = {}
    /\ faults = 0

Sender_(p)   == peer[p].sender
Receiver_(p) == peer[p].receiver

(***************************************************************************)
(* The result of a call on p: its new state, and its segments on their way *)
(* in place of the one (if any) that was consumed.                         *)
(***************************************************************************)
Outcome(p, c, rest) ==
    /\ peer' = [peer EXCEPT ![p] = c.peer]
    /\ net' = rest \cup {[to |-> Other(p), seg |-> c.sent[i]] : i \in DOMAIN c.sent}

(***************************************************************************)
(* What may still be received: a finished side reads no more segments.     *)
(***************************************************************************)
UnderWay == {m \in net : Active(peer[m.to])}

-----------------------------------------------------------------------------
(***************************************************************************)
(* TCPMinnowSocket::connect sends the SYN.                                 *)
(***************************************************************************)
Connect ==
    /\ ~Sender_(Opener).SYN_flag
    /\ Outcome(Opener, PeerPush(peer[Opener]), net)
    /\ UNCHANGED faults

(***************************************************************************)
(* connect and listen_and_accept return to the application, which can then *)
(* use the pipe, once their SYN has been acknowledged.                     *)
(***************************************************************************)
Established(p) == Sender_(p).ack_absseq > 0

(***************************************************************************)
(* Rule 2: up to available_capacity bytes are read from the pipe ...       *)
(***************************************************************************)
AppWrite(p, n) ==
    LET q == [peer[p] EXCEPT !.sender.input = PushBytes(@, BytesFrom(@.pushed, n))]
    IN  /\ Established(p) /\ Active(peer[p]) /\ ~Sender_(p).input.closed
        /\ n <= AvailableCapacity(Sender_(p).input)
        /\ Sender_(p).input.pushed + n <= StreamLens[p]
        /\ Outcome(p, PeerPush(q), net)
        /\ UNCHANGED faults

(***************************************************************************)
(* ... or its end of file, which closes the stream.                        *)
(***************************************************************************)
AppClose(p) ==
    LET q == [peer[p] EXCEPT !.sender.input = CloseStream(@)]
    IN  /\ Established(p) /\ Active(peer[p]) /\ ~Sender_(p).input.closed
        /\ AvailableCapacity(Sender_(p).input) > 0
        /\ Outcome(p, PeerPush(q), net)
        /\ UNCHANGED faults

(***************************************************************************)
(* Rule 3: some of the received bytes go to the pipe.  Nothing is sent.    *)
(***************************************************************************)
AppRead(p, n) ==
    /\ n <= Len(Inbound(Receiver_(p)).buf)
    /\ peer' = [peer EXCEPT ![p].receiver.reassembler.output = PopBytes(@, n)]
    /\ UNCHANGED << net, faults >>

(***************************************************************************)
(* Rule 1: a segment is received; the network may deliver it again.        *)
(***************************************************************************)
Deliver(p, m) ==
    /\ m.to = p /\ Active(peer[p])
    /\ Outcome(p, PeerReceive(peer[p], m.seg), net \ {m})
    /\ UNCHANGED faults

DeliverAndRepeat(p, m) ==
    /\ m.to = p /\ Active(peer[p])
    /\ Cardinality(UnderWay) < NetCap /\ faults < MaxFaults
    /\ Outcome(p, PeerReceive(peer[p], m.seg), net)
    /\ faults' = faults + 1

Lose(m) ==
    /\ faults < MaxFaults
    /\ net' = net \ {m}
    /\ faults' = faults + 1
    /\ UNCHANGED peer

(***************************************************************************)
(* Time passes for an active side whose event loop runs.                   *)
(***************************************************************************)
PassTime(p) ==
    /\ Active(peer[p])
    /\ p = Opener => Sender_(p).SYN_flag
    /\ Cardinality(UnderWay) < NetCap
    /\ Outcome(p, PeerTick(peer[p], TickMs), net)
    /\ UNCHANGED faults

Next ==
    \/ Connect
    \/ \E p \in Sides, n \in 1 .. SendCapacity : AppWrite(p, n)
    \/ \E p \in Sides : AppClose(p)
    \/ \E p \in Sides, n \in 1 .. RecvCapacity : AppRead(p, n)
    \/ \E p \in Sides, m \in net : Deliver(p, m)
    \/ \E p \in Sides, m \in net : DeliverAndRepeat(p, m)
    \/ \E m \in net : Lose(m)
    \/ \E p \in Sides : PassTime(p)

Spec == Init /\ [][Next]_vars

(***************************************************************************)
(* The event loop ticks every TCP_TICK_MS, reads every segment that is     *)
(* there and offers every received byte to the pipe; the applications      *)
(* empty their pipes.  The network stops losing segments at some time      *)
(* (after MaxFaults), which stands for any fair loss: a segment that is      *)
(* retransmitted for ever gets through.                                    *)
(*                                                                         *)
(* Each conjunct is weak fairness of an action, with ENABLED spelled out   *)
(* as a state predicate (TLC evaluates ENABLED of these calls far too      *)
(* slowly): the action is possible, and is not a stuttering step.          *)
(***************************************************************************)
CanConnect == ~Sender_(Opener).SYN_flag

CanDeliver(p) == \E m \in UnderWay : m.to = p

CanRead(p) == Inbound(Receiver_(p)).buf # << >>

CanPassTime(p) ==
    LET c == PeerTick(peer[p], TickMs)
    IN  /\ Active(peer[p])
        /\ p = Opener => Sender_(p).SYN_flag
        /\ Cardinality(UnderWay) < NetCap
        /\ \/ c.peer # peer[p]
           \/ \E i \in DOMAIN c.sent : [to |-> Other(p), seg |-> c.sent[i]] \notin net

Fairness ==
    /\ []<>~CanConnect \/ []<><<Connect>>_vars
    /\ \A p \in Sides :
           /\ []<>~CanPassTime(p) \/ []<><<PassTime(p)>>_vars
           /\ []<>~CanDeliver(p) \/ []<><<\E m \in net : Deliver(p, m)>>_vars
           /\ []<>~CanRead(p) \/ []<><<\E n \in 1 .. RecvCapacity : AppRead(p, n)>>_vars

FairSpec == Spec /\ Fairness

-----------------------------------------------------------------------------
(***************************************************************************)
(* End to end, both ways: what a side has received is a prefix of what the *)
(* other side's application wrote, byte for byte, and a side sees the end  *)
(* of the stream only after all of it.                                     *)
(***************************************************************************)
StreamsIntact ==
    \A p \in Sides :
        LET from == Sender_(Other(p)).input
            to   == Inbound(Receiver_(p))
        IN  /\ to.pushed <= from.pushed
            /\ to.buf = BytesFrom(BytesPopped(to), Len(to.buf))
            /\ to.closed => from.closed /\ to.pushed = from.pushed

(***************************************************************************)
(* A sender only forgets what the other side has: every number it counts   *)
(* as acknowledged was received there (so nothing that still has to be     *)
(* retransmitted can be dropped), although acknowledgments arrive late,    *)
(* repeatedly and out of order.                                            *)
(***************************************************************************)
AckedIsReceived ==
    \A p \in Sides :
        Sender_(p).ack_absseq <=
            IF Receiver_(Other(p)).isn = None THEN 0 ELSE AckAbsseq(Receiver_(Other(p)))

(***************************************************************************)
(* Nobody waits for the other: receivers never announce that their window  *)
(* has opened, so a sender that still has bytes or a FIN to send must      *)
(* always have something in flight (if only a one-byte probe) with the     *)
(* timer running, and so must one whose SYN is not acknowledged.           *)
(***************************************************************************)
HasMoreToSend(s) ==
    s.SYN_flag /\ ~s.FIN_flag /\ (s.input.buf # << >> \/ s.input.closed)

NeverStuck ==
    \A p \in Sides :
        HasMoreToSend(Sender_(p)) \/ Sender_(p).total_outstandings > 0 =>
            Sender_(p).total_outstandings > 0 /\ Sender_(p).timer.is_active

(***************************************************************************)
(* A side that leaves without lingering leaves nobody behind: when it has  *)
(* stopped answering, the other side has all its numbers acknowledged, the *)
(* FIN included, and will not retransmit to a side that is gone.           *)
(***************************************************************************)
NoOrphan ==
    \A p \in Sides :
        ~Active(peer[p]) /\ ~peer[p].linger =>
            Sender_(Other(p)).FIN_flag /\ Sender_(Other(p)).total_outstandings = 0

(***************************************************************************)
(* A side only goes inactive after a complete exchange: both streams have  *)
(* been received in full, its own included, and no error has been raised.  *)
(***************************************************************************)
CleanFinish ==
    \A p \in Sides :
        ~Active(peer[p]) =>
            /\ ~HasError(peer[p]) /\ ~HasError(peer[Other(p)])
            /\ Inbound(Receiver_(p)).closed
            /\ Inbound(Receiver_(Other(p))).closed

(***************************************************************************)
(* What the two applications have of the connection, in each direction: a  *)
(* first-in first-out queue.  Its bytes are those that the other side can  *)
(* read, those between the two streams (under way, waiting to be           *)
(* retransmitted or to be reassembled), and those not yet sent.  It ends   *)
(* where the writer's stream ends, and never has an error.                 *)
(***************************************************************************)
Unread(p) ==
    LET from    == Sender_(p).input
        to      == Inbound(Receiver_(Other(p)))
        between == BytesFrom(to.pushed, BytesPopped(from) - to.pushed)
    IN  [capacity |-> StreamLens[p], error |-> from.error \/ to.error,
         closed |-> from.closed, pushed |-> from.pushed,
         buf |-> (to.buf \o between) \o from.buf]

Forth == INSTANCE ByteQueueSpec WITH
    Capacity <- StreamLens[Opener], MaxBytes <- StreamLens[Opener],
    queue <- Unread(Opener), out <- << >>

Back == INSTANCE ByteQueueSpec WITH
    Capacity <- StreamLens[Listener], MaxBytes <- StreamLens[Listener],
    queue <- Unread(Listener), out <- << >>

StreamsAreQueues == Forth!Spec /\ Back!Spec

-----------------------------------------------------------------------------
(***************************************************************************)
(* The three-way handshake completes on both sides although segments are   *)
(* lost and late.                                                          *)
(***************************************************************************)
HandshakeCompletes == <>(\A p \in Sides : Established(p))

(***************************************************************************)
(* Every byte an application writes reaches the other application, through *)
(* loss, reordering and closed windows.                                    *)
(***************************************************************************)
BytesArrive ==
    \A p \in Sides : \A k \in 1 .. StreamLens[p] :
        Sender_(p).input.pushed >= k ~> BytesPopped(Inbound(Receiver_(Other(p)))) >= k

(***************************************************************************)
(* When an application closes its stream the other side eventually sees    *)
(* the end of it.                                                          *)
(***************************************************************************)
EndArrives ==
    \A p \in Sides :
        Sender_(p).input.closed ~> Inbound(Receiver_(Other(p))).closed
=============================================================================
