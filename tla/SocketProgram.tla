---------------------------- MODULE SocketProgram ---------------------------
(***************************************************************************)
(* The program apps/tcp_ipv4.cpp: it connects a TCPMinnowSocket, or        *)
(* listens, copies both ways between the socket and its standard input and *)
(* output, and waits until the socket is closed.  Two threads: main, which *)
(* runs the TCP loop while it connects and the copy's loop after that, and *)
(* the TCP thread.  They share the pipe, the abort flag and nothing else, so   *)
(* that what a rule is interested in does not change while its thread      *)
(* waits in poll: a call of wait_next_event is one step up to poll's       *)
(* return and one step from there.                                         *)
(*                                                                         *)
(* Around them: whoever writes the standard input and reads the standard   *)
(* output, and the other side of the connection.                           *)
(***************************************************************************)
EXTENDS StreamCopy, TCPMinnowSocket, SequencesExt

CONSTANTS
    Typed, Remote,              \* bytes the user may type, bytes the other side sends
    Faults                      \* sets of faults that may happen together, each once

ASSUME ProgramAssumption ==
    /\ {Typed, Remote} \subseteq Nat
    /\ Faults \subseteq SUBSET {"reset", "silence", "broken stdout", "exception"}

VARIABLES
    app,            \* what bidirectional_stream_copy keeps
    tcp,            \* what the socket keeps: TCPPeer, descriptor, two flags
    pair,           \* the pipe between the two threads
    net,            \* the segment at the datagram adapter
    killed,         \* a SIGPIPE has ended the process
    appLoop, tcpLoop,   \* the event loops: [rules, revents]
    main,           \* "connecting", "copying", "closing", "aborting" or "done"
    thread,         \* the TCP thread: "none", "running" or "ended"
    abort,          \* _abort
    threw,          \* an event loop has thrown, which is the end of the model's run
    typed,          \* bytes typed
    remote,         \* the other side: [got, finGot, sent, fin]
    faulted         \* what has gone wrong

loops == <<appLoop, tcpLoop>>
threads == <<main, thread, abort>>
world == <<typed, remote, faulted>>
vars == <<app, tcp, pair, net, killed, loops, threads, threw, world>>

\* the loop is not between poll and its callbacks
Idle == << >>

CopyState ==
    [f \in DOMAIN app \cup {"pair", "killed"} |->
        IF f = "pair" THEN pair ELSE IF f = "killed" THEN killed ELSE app[f]]

TCPState ==
    [f \in DOMAIN tcp \cup {"pair", "net", "killed"} |->
        IF f = "pair" THEN pair ELSE IF f = "net" THEN net ELSE IF f = "killed" THEN killed ELSE tcp[f]]

MayHappen(fault) ==
    fault \notin faulted /\ \E together \in Faults : faulted \cup {fault} \subseteq together

KeepCopy(s) == app' = [f \in DOMAIN app |-> s[f]]
KeepTCP(s)  == tcp' = [f \in DOMAIN tcp |-> s[f]]

Init ==
    /\ app = NewCopy
    /\ \E syn \in {"sent", "unsent"} : tcp = [peer |-> NewPeer(syn), thread_data |-> OpenFD,
                                               inbound_shutdown |-> FALSE, outbound_shutdown |-> FALSE]
    /\ pair = NewPair /\ net = NoSegment /\ killed = FALSE
    /\ appLoop = [rules |-> CopyRules, revents |-> Idle]
    /\ tcpLoop = [rules |-> TCPRules, revents |-> Idle]
    /\ main = "connecting" /\ thread = "none" /\ abort = FALSE /\ threw = FALSE
    /\ typed = 0 /\ remote = [got |-> << >>, finGot |-> FALSE, sent |-> 0, fin |-> FALSE]
    /\ faulted = {}

-----------------------------------------------------------------------------
(***************************************************************************)
(* _tcp_loop, run by main until its SYN is acknowledged and by the TCP     *)
(* thread from there on.  When the loop ends in the TCP thread, so does    *)
(* the thread, and it shuts the owner's socket down.                       *)
(***************************************************************************)
Connecting == main = "connecting" /\ tcp.peer.syn # "acked"
LoopRuns   == Connecting \/ thread = "running"

EndThread(pipe) == thread' = "ended" /\ pair' = ShutBoth(pipe) /\ main' = main

StartThread == main' = "copying" /\ thread' = "running" /\ pair' = pair

TCPPolls ==
    /\ ~killed /\ LoopRuns /\ tcpLoop.revents = Idle
    /\ \E c \in TCPLoop!Prepare(tcpLoop.rules, TCPState) :
        /\ TCPLoop!SomethingToPoll(c)
        /\ TCPLoop!Something(TCPLoop!Poll(c))
        /\ KeepTCP(c.s) /\ tcpLoop' = [rules |-> c.rules, revents |-> TCPLoop!Poll(c)]
    /\ UNCHANGED <<app, pair, net, killed, appLoop, threads, threw, world>>

TCPServes ==
    /\ ~killed /\ tcpLoop.revents # Idle
    /\ UNCHANGED <<app, appLoop, abort, world>>
    /\ \E c \in TCPLoop!Dispatch(tcpLoop.rules, tcpLoop.revents, TCPState) :
        /\ KeepTCP(c.s) /\ net' = c.s.net
        /\ killed' = (c.s.killed \/ c.threw) /\ threw' = c.threw
        /\ tcpLoop' = [rules |-> c.rules, revents |-> Idle]
        /\ IF abort THEN EndThread(c.s.pair) ELSE pair' = c.s.pair /\ UNCHANGED <<main, thread>>

\* poll's 10 ms are over: the loop goes on, unless it is to end
TCPAborts ==
    /\ ~killed /\ thread = "running" /\ abort /\ tcpLoop.revents = Idle
    /\ \A c \in TCPLoop!Prepare(tcpLoop.rules, TCPState) : ~TCPLoop!Something(TCPLoop!Poll(c))
    /\ EndThread(pair)
    /\ UNCHANGED <<app, tcp, net, killed, loops, abort, threw, world>>

\* EventLoop::Result::Exit, or the connection is there
TCPLoopEnds ==
    /\ ~killed /\ tcpLoop.revents = Idle
    /\ \/ main = "connecting" /\ tcp.peer.syn = "acked"
       \/ LoopRuns /\ \A c \in TCPLoop!Prepare(tcpLoop.rules, TCPState) : ~TCPLoop!SomethingToPoll(c)
    /\ IF main = "connecting" THEN StartThread ELSE thread = "running" /\ EndThread(pair)
    /\ UNCHANGED <<app, tcp, net, killed, loops, abort, threw, world>>

(***************************************************************************)
(* The tick at the end of a turn of the loop, when ten retransmission      *)
(* timeouts have passed without a segment.  The other ticks retransmit, as *)
(* often as it takes and without end: what is in flight stays in flight.   *)
(***************************************************************************)
Lingering(p) == Active(p) /\ InFlight(p) = 0 /\ IsFinished(p.out) /\ p.in.closed

TCPTicks ==
    /\ ~killed /\ LoopRuns /\ tcpLoop.revents = Idle
    /\ Lingering(tcp.peer) /\ tcp' = [tcp EXCEPT !.peer.idle = TRUE]
    /\ UNCHANGED <<app, pair, net, killed, loops, threads, threw, world>>

-----------------------------------------------------------------------------
(***************************************************************************)
(* main: the loop of bidirectional_stream_copy, which waits without        *)
(* timeout, wait_until_closed, and the destructor.                         *)
(***************************************************************************)
CopyPolls ==
    /\ ~killed /\ main = "copying" /\ appLoop.revents = Idle
    /\ \E c \in CopyLoop!Prepare(appLoop.rules, CopyState) :
        /\ CopyLoop!SomethingToPoll(c)
        /\ CopyLoop!Something(CopyLoop!Poll(c))
        /\ KeepCopy(c.s) /\ appLoop' = [rules |-> c.rules, revents |-> CopyLoop!Poll(c)]
    /\ UNCHANGED <<tcp, pair, net, killed, tcpLoop, threads, threw, world>>

CopyServes ==
    /\ ~killed /\ main = "copying" /\ appLoop.revents # Idle
    /\ \E c \in CopyLoop!Dispatch(appLoop.rules, appLoop.revents, CopyState) :
        /\ KeepCopy(c.s) /\ pair' = c.s.pair
        /\ killed' = (c.s.killed \/ c.threw) /\ threw' = c.threw
        /\ appLoop' = [rules |-> c.rules, revents |-> Idle]
    /\ UNCHANGED <<tcp, net, tcpLoop, threads, world>>

WaitUntilClosed ==
    /\ ~killed /\ main = "copying" /\ appLoop.revents = Idle
    /\ \E c \in CopyLoop!Prepare(appLoop.rules, CopyState) :
        ~CopyLoop!SomethingToPoll(c) /\ KeepCopy(c.s)
    /\ main' = "closing" /\ pair' = ShutBoth(pair)
    /\ UNCHANGED <<tcp, net, killed, loops, thread, abort, threw, world>>

\* an exception while the socket is open: its destructor has to end the thread
Exception ==
    /\ ~killed /\ main = "copying" /\ appLoop.revents = Idle
    /\ MayHappen("exception")
    /\ faulted' = faulted \cup {"exception"}
    /\ main' = "aborting" /\ abort' = TRUE
    /\ UNCHANGED <<app, tcp, pair, net, killed, loops, thread, threw, typed, remote>>

Join ==
    /\ ~killed /\ main \in {"closing", "aborting"} /\ thread = "ended"
    /\ main' = "done"
    /\ UNCHANGED <<app, tcp, pair, net, killed, loops, thread, abort, threw, world>>

-----------------------------------------------------------------------------
(***************************************************************************)
(* Standard input and output, as long as main may still look at them.      *)
(***************************************************************************)
Running == ~killed /\ main \in {"connecting", "copying"}

Type ==
    /\ Running /\ typed < Typed /\ app.stdin.end = "open"
    /\ typed' = typed + 1 /\ app' = [app EXCEPT !.stdin.unread = Append(@, typed + 1)]
    /\ UNCHANGED <<tcp, pair, net, killed, loops, threads, threw, remote, faulted>>

EndInput ==
    /\ Running /\ app.stdin.end = "open"
    /\ \E end \in {"eof", "hung up"} : app' = [app EXCEPT !.stdin.end = end]
    /\ UNCHANGED <<tcp, pair, net, killed, loops, threads, threw, world>>

BreakOutput ==
    /\ Running /\ MayHappen("broken stdout")
    /\ faulted' = faulted \cup {"broken stdout"}
    /\ app' = [app EXCEPT !.stdout.broken = TRUE]
    /\ UNCHANGED <<tcp, pair, net, killed, loops, threads, threw, typed, remote>>

(***************************************************************************)
(* The other side.  Every segment acknowledges all that is in flight.  It, *)
(* or the network, may fall silent for good.                               *)
(***************************************************************************)
Silent == "silence" \in faulted

SentByRemote == [k \in 1 .. remote.sent |-> 100 + k]

RemoteSegment(data, fin) ==
    /\ ~killed /\ LoopRuns /\ ~Silent /\ net = NoSegment
    /\ net' = [NoSegment EXCEPT !.data = data, !.fin = fin, !.acks = InFlight(tcp.peer)]
    /\ net' # NoSegment
    /\ remote' = [got |-> remote.got \o tcp.peer.flight,
                  finGot |-> remote.finGot \/ tcp.peer.fin = "sent",
                  sent |-> remote.sent + Len(data), fin |-> remote.fin \/ fin]
    /\ UNCHANGED <<app, tcp, pair, killed, loops, threads, threw, typed, faulted>>

RemoteConnects ==
    /\ ~killed /\ LoopRuns /\ ~Silent /\ net = NoSegment /\ tcp.peer.syn = "unsent"
    /\ net' = [NoSegment EXCEPT !.syn = TRUE]
    /\ UNCHANGED <<app, tcp, pair, killed, loops, threads, threw, world>>

RemoteAcks == RemoteSegment(<< >>, FALSE)

RemoteSends ==
    /\ tcp.peer.syn = "acked" /\ ~remote.fin /\ remote.sent < Remote /\ AvailableCapacity(tcp.peer.in) > 0
    /\ RemoteSegment(<< 101 + remote.sent >>, FALSE)

RemoteEnds ==
    /\ tcp.peer.syn = "acked" /\ ~remote.fin /\ remote.sent = Remote /\ AvailableCapacity(tcp.peer.in) > 0
    /\ RemoteSegment(<< >>, TRUE)

RemoteResets ==
    /\ ~killed /\ LoopRuns /\ ~Silent /\ net = NoSegment /\ tcp.peer.syn # "unsent"
    /\ MayHappen("reset")
    /\ faulted' = faulted \cup {"reset"} /\ net' = [NoSegment EXCEPT !.rst = TRUE]
    /\ UNCHANGED <<app, tcp, pair, killed, loops, threads, threw, typed, remote>>

RemoteFallsSilent ==
    /\ ~killed /\ MayHappen("silence")
    /\ faulted' = faulted \cup {"silence"}
    /\ UNCHANGED <<app, tcp, pair, net, killed, loops, threads, threw, typed, remote>>

\* over; or main waits for a thread that nobody reads for any more, or nobody answers
Over == (killed \/ main = "done" \/ app.stdout.broken \/ Silent) /\ UNCHANGED vars

Next ==
    \/ TCPPolls \/ TCPServes \/ TCPAborts \/ TCPLoopEnds \/ TCPTicks
    \/ CopyPolls \/ CopyServes \/ WaitUntilClosed \/ Exception \/ Join
    \/ Type \/ EndInput \/ BreakOutput
    \/ RemoteConnects \/ RemoteAcks \/ RemoteSends \/ RemoteEnds \/ RemoteResets
    \/ RemoteFallsSilent
    \/ Over

(***************************************************************************)
(* The threads are scheduled; time passes; the other side connects to one  *)
(* that listens, answers, and ends its direction when ours has ended.      *)
(* Nobody has to type.                                                     *)
(***************************************************************************)
Fairness ==
    /\ WF_vars(TCPPolls \/ TCPServes \/ TCPAborts \/ TCPLoopEnds)
    /\ WF_vars(CopyPolls \/ CopyServes \/ WaitUntilClosed \/ Join)
    /\ WF_vars(TCPTicks)
    /\ WF_vars(RemoteConnects) /\ WF_vars(RemoteAcks)
    /\ WF_vars(RemoteSends) /\ WF_vars(remote.finGot /\ RemoteEnds)

Spec == Init /\ [][Next]_vars /\ Fairness
-----------------------------------------------------------------------------
(***************************************************************************)
(* Bytes reach the other end of each direction in order and none twice;    *)
(* and when the program ends with nothing gone wrong, all have arrived:    *)
(* whatever a hang-up, an end of file or a cancelled rule cut short had    *)
(* been passed on before.                                                  *)
(***************************************************************************)
NothingLost ==
    LET typing == [k \in 1 .. typed |-> k]
    IN  /\ IsPrefix(app.stdout.printed, SentByRemote)
        /\ IsPrefix(remote.got, typing)
        /\ main = "done" /\ faulted = {} =>
            app.stdout.printed = SentByRemote /\ remote.got = typing /\ remote.finGot

(***************************************************************************)
(* Nobody writes into a direction that has been shut down, which would     *)
(* end the process with SIGPIPE, unless something has gone wrong before.   *)
(***************************************************************************)
NoBrokenPipe == killed /\ ~threw => faulted # {}

(***************************************************************************)
(* No event loop finds a rule that is ready, interested and does nothing.  *)
(***************************************************************************)
NoBusyWait == ~threw

(***************************************************************************)
(* The end of the input reaches the other side as the end of our           *)
(* direction, though the other side keeps its own open until then.         *)
(***************************************************************************)
EndReachesRemote == app.stdin.end # "open" ~> remote.finGot \/ faulted # {}

(***************************************************************************)
(* The program ends, with its TCP thread, after the end of the input, a    *)
(* reset or an exception.  Excepted is the loss of the standard output, and*)
(* a silence that leaves the peer active for ever: it retransmits, or waits*)
(* for the end of the other side's stream, and nothing but the abort of an *)
(* exception takes the program out of it.  Once both streams are complete, *)
(* the program ends in silence too.                                        *)
(***************************************************************************)
ProgramEnds ==
    app.stdin.end # "open" \/ faulted # {} ~>
        \/ main = "done" \/ killed \/ app.stdout.broken
        \/ [](Silent /\ Active(tcp.peer) /\ ~abort)
=============================================================================
