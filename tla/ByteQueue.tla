----------------------------- MODULE ByteQueue -----------------------------
(***************************************************************************)
(* A bounded byte stream as its users see it: the bytes written and not    *)
(* yet read, in order, with a capacity, a count of the bytes ever pushed,  *)
(* and the closed and error flags.  ByteStream.tla is the detailed         *)
(* structure (chunks and a prefix offset) and implements this one; the     *)
(* reassembler, the sender and the receiver are built on this view.        *)
(*                                                                         *)
(* A byte is named by its position in its stream: the byte at index i is   *)
(* the number i, so a byte that is lost, repeated or moved is visible.     *)
(***************************************************************************)
EXTENDS MachineIntegers, Sequences

Byte == Nat

BytesFrom(first, n) == [i \in 1 .. n |-> first + i - 1]

Stream == [capacity : Nat, error : BOOLEAN, closed : BOOLEAN,
           pushed : Nat, buf : Seq(Byte)]

NewStream(capacity) ==
    [capacity |-> capacity, error |-> FALSE, closed |-> FALSE,
     pushed |-> 0, buf |-> << >>]

AvailableCapacity(q) == q.capacity - Len(q.buf)
BytesPopped(q)       == q.pushed - Len(q.buf)
IsFinished(q)        == q.closed /\ q.buf = << >>

(***************************************************************************)
(* Writer::push keeps as much of the data as there is room for.            *)
(***************************************************************************)
PushBytes(q, data) ==
    LET n == Lesser(Len(data), AvailableCapacity(q))
    IN  IF q.closed THEN q
        ELSE [q EXCEPT !.buf = @ \o SubSeq(data, 1, n), !.pushed = @ + n]

CloseStream(q) == [q EXCEPT !.closed = TRUE]
SetError(q)    == [q EXCEPT !.error = TRUE]

(***************************************************************************)
(* Reader::pop, of at most the bytes buffered.                             *)
(***************************************************************************)
PopBytes(q, n) == [q EXCEPT !.buf = SubSeq(@, n + 1, Len(@))]
=============================================================================
