----------------------------- MODULE Descriptors ----------------------------
(***************************************************************************)
(* FileDescriptor (src/util/file_descriptor): the flags of an FDWrapper,   *)
(* which all duplicates share, and how reads and writes go.  And the two   *)
(* kernel objects behind the descriptors of the sockets' programs: a pair  *)
(* of connected local stream sockets, and a pipe, terminal or file.        *)
(***************************************************************************)
EXTENDS ByteQueue

CONSTANT PipeCapacity   \* bytes the kernel holds in one direction of a socket pair

ASSUME DescriptorAssumption == PipeCapacity \in Nat \ {0}

OpenFD == [eof |-> FALSE, closed |-> FALSE]

CloseFD(fd) == [fd EXCEPT !.eof = TRUE, !.closed = TRUE]

(***************************************************************************)
(* FileDescriptor::read of at most n bytes, after poll found the           *)
(* descriptor readable: nothing read is the end.                           *)
(***************************************************************************)
ReadBytes(queue, n) == SubSeq(queue, 1, Lesser(n, Len(queue)))

AfterRead(fd, data) == [fd EXCEPT !.eof = @ \/ data = << >>]

-----------------------------------------------------------------------------
(***************************************************************************)
(* A socket pair: the bytes on their way to each end, and the directions   *)
(* that are shut down.  Each end is named by what it reads.                *)
(***************************************************************************)
PipeEnds == {"app", "tcp"}

OtherEnd(end) == CHOOSE e \in PipeEnds : e # end

NewPair == [to |-> [end \in PipeEnds |-> << >>], shut |-> {}]

Room(pair, end) == PipeCapacity - Len(pair.to[OtherEnd(end)])

\* an end that may not write any more; to do so raises SIGPIPE
MayWrite(pair, end) == OtherEnd(end) \notin pair.shut

WritePair(pair, end, data) == [pair EXCEPT !.to[OtherEnd(end)] = @ \o data]

TakePair(pair, end, n) == [pair EXCEPT !.to[end] = SubSeq(@, n + 1, Len(@))]

\* shutdown(SHUT_WR) and shutdown(SHUT_RDWR)
ShutWrite(pair, end) == [pair EXCEPT !.shut = @ \cup {OtherEnd(end)}]
ShutBoth(pair)       == [pair EXCEPT !.shut = PipeEnds]

PairRevents(pair, end, direction) ==
    [ready |-> IF direction = "In" THEN pair.to[end] # << >> \/ end \in pair.shut
               ELSE Room(pair, end) > 0,
     hup   |-> pair.shut = PipeEnds,
     err   |-> FALSE]
=============================================================================
