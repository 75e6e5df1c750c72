----------------------------- MODULE StreamCopy -----------------------------
(***************************************************************************)
(* The four rules of bidirectional_stream_copy (src/apps), as operators on *)
(* the state s of the owner's thread,                                      *)
(*   outbound, inbound    the two ByteStreams                              *)
(*   outbound_shutdown, inbound_shutdown                                   *)
(*   socket, input, output   FileDescriptors                               *)
(*   stdin                [unread, end], see below                         *)
(*   stdout               [printed, broken]                                *)
(*   pair                 the pipe to the TCP thread                       *)
(*   killed               a SIGPIPE has ended the process                  *)
(***************************************************************************)
EXTENDS Descriptors

CONSTANT BufferSize

ASSUME StreamCopyAssumption == BufferSize \in Nat \ {0}

NewCopy ==
    [outbound |-> NewStream(BufferSize), inbound |-> NewStream(BufferSize),
     outbound_shutdown |-> FALSE, inbound_shutdown |-> FALSE,
     socket |-> OpenFD, input |-> OpenFD, output |-> OpenFD,
     stdin |-> [unread |-> << >>, end |-> "open"], stdout |-> [printed |-> << >>, broken |-> FALSE]]

InputRule    == [name |-> "read from stdin into outbound byte stream", direction |-> "In"]
OutboundRule == [name |-> "read from outbound byte stream into socket", direction |-> "Out"]
SocketRule   == [name |-> "read from socket into inbound byte stream", direction |-> "In"]
OutputRule   == [name |-> "read from inbound byte stream into stdout", direction |-> "Out"]

CopyRules == << InputRule, OutboundRule, SocketRule, OutputRule >>

HasErrors(s) == s.outbound.error \/ s.inbound.error

CopyInterest(rule, s) ==
    CASE rule = InputRule    -> ~HasErrors(s) /\ AvailableCapacity(s.outbound) > 0 /\ ~s.outbound.closed
      [] rule = OutboundRule -> s.outbound.buf # << >> \/ (IsFinished(s.outbound) /\ ~s.outbound_shutdown)
      [] rule = SocketRule   -> ~HasErrors(s) /\ AvailableCapacity(s.inbound) > 0 /\ ~s.inbound.closed
      [] rule = OutputRule   -> s.inbound.buf # << >> \/ (IsFinished(s.inbound) /\ ~s.inbound_shutdown)

-----------------------------------------------------------------------------
(***************************************************************************)
(* The callbacks.  Data read goes into a stream that has room for it.      *)
(***************************************************************************)
AfterData(stream, data, fd) ==
    IF fd.eof THEN CloseStream(PushBytes(stream, data)) ELSE PushBytes(stream, data)

FromInput(s) ==
    LET data == ReadBytes(s.stdin.unread, AvailableCapacity(s.outbound))
        fd   == AfterRead(s.input, data)
    IN  [s EXCEPT !.stdin.unread = SubSeq(@, Len(data) + 1, Len(@)), !.input = fd,
                  !.outbound = AfterData(@, data, fd)]

FromSocket(s) ==
    LET data == ReadBytes(s.pair.to["app"], AvailableCapacity(s.inbound))
        fd   == AfterRead(s.socket, data)
    IN  [s EXCEPT !.pair = TakePair(@, "app", Len(data)), !.socket = fd,
                  !.inbound = AfterData(@, data, fd)]

\* mistake: look for the end of the stream only after writing
BugToSocket(s) ==
    LET data  == SubSeq(s.outbound.buf, 1, Lesser(Room(s.pair, "app"), Len(s.outbound.buf)))
        wrote == [s EXCEPT !.pair = WritePair(@, "app", data), !.outbound = PopBytes(@, Len(data))]
    IN  IF data # << >> /\ ~MayWrite(s.pair, "app") THEN [s EXCEPT !.killed = TRUE]
        ELSE IF data # << >> /\ IsFinished(wrote.outbound)
        THEN [wrote EXCEPT !.pair = ShutWrite(@, "app"), !.outbound_shutdown = TRUE]
        ELSE wrote

ToSocket(s) ==
    LET data  == SubSeq(s.outbound.buf, 1, Lesser(Room(s.pair, "app"), Len(s.outbound.buf)))
        wrote == [s EXCEPT !.pair = WritePair(@, "app", data), !.outbound = PopBytes(@, Len(data))]
    IN  IF data # << >> /\ ~MayWrite(s.pair, "app") THEN [s EXCEPT !.killed = TRUE]
        ELSE IF IsFinished(wrote.outbound)
        THEN [wrote EXCEPT !.pair = ShutWrite(@, "app"), !.outbound_shutdown = TRUE]
        ELSE wrote

ToOutput(s) ==
    LET wrote == [s EXCEPT !.stdout.printed = @ \o s.inbound.buf, !.inbound = PopBytes(@, Len(@.buf))]
    IN  IF s.inbound.buf # << >> /\ s.stdout.broken THEN [s EXCEPT !.killed = TRUE]
        ELSE IF IsFinished(wrote.inbound)
        THEN [wrote EXCEPT !.output = CloseFD(@), !.inbound_shutdown = TRUE]
        ELSE wrote

\* to shut down counts as writing
CopyCallback(rule, s) ==
    CASE rule = InputRule    -> {[s |-> FromInput(s), served |-> TRUE]}
      [] rule = OutboundRule -> {[s |-> next, served |-> next # s] : next \in {ToSocket(s)}}
      [] rule = SocketRule   -> {[s |-> FromSocket(s), served |-> TRUE]}
      [] rule = OutputRule   -> {[s |-> ToOutput(s), served |-> s.inbound.buf # << >>]}

CopyCancel(rule, s) ==
    IF rule \in {InputRule, OutboundRule}
    THEN [s EXCEPT !.outbound = CloseStream(@)]
    ELSE [s EXCEPT !.inbound = CloseStream(@)]

CopyError(rule, s) == [s EXCEPT !.outbound = SetError(@), !.inbound = SetError(@)]

DescriptorOf(rule, s) ==
    CASE rule = InputRule -> s.input [] rule = OutputRule -> s.output [] OTHER -> s.socket

CopyAtEof(rule, s)  == DescriptorOf(rule, s).eof
CopyClosed(rule, s) == DescriptorOf(rule, s).closed

(***************************************************************************)
(* The standard input is open, at its end, as a file or a terminal, or     *)
(* hung up, as a pipe: the first is readable then, the other is not, once  *)
(* it is empty.                                                            *)
(***************************************************************************)
CopyRevents(rule, s) ==
    CASE rule = InputRule  -> [ready |-> s.stdin.unread # << >> \/ s.stdin.end = "eof",
                               hup |-> s.stdin.end = "hung up", err |-> FALSE]
      [] rule = OutputRule -> [ready |-> TRUE, hup |-> FALSE, err |-> s.stdout.broken]
      [] OTHER             -> PairRevents(s.pair, "app", rule.direction)

CopyLoop == INSTANCE EventLoop WITH
    Interest <- CopyInterest, Callback <- CopyCallback, Cancel <- CopyCancel, Error <- CopyError,
    AtEof <- CopyAtEof, Closed <- CopyClosed, Revents <- CopyRevents
=============================================================================
