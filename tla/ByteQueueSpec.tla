--------------------------- MODULE ByteQueueSpec ----------------------------
(***************************************************************************)
(* What ByteStream promises its users: a bounded first-in first-out queue  *)
(* of bytes.  ByteStream.tla implements it.                                *)
(***************************************************************************)
EXTENDS ByteQueue

CONSTANTS
    Capacity,       \* ByteStream::capacity_
    MaxBytes        \* bound: bytes ever offered to the writer

VARIABLES
    queue,          \* the stream
    out             \* what the last read returned

vars == << queue, out >>

Init ==
    /\ queue = NewStream(Capacity)
    /\ out = << >>

(***************************************************************************)
(* The writer offers the next n bytes; those that do not fit are offered   *)
(* again later.                                                            *)
(***************************************************************************)
Push(n) ==
    /\ queue.pushed + n <= MaxBytes
    /\ queue' = PushBytes(queue, BytesFrom(queue.pushed, n))
    /\ UNCHANGED out

Close    == queue' = CloseStream(queue) /\ UNCHANGED out
SetErr   == queue' = SetError(queue) /\ UNCHANGED out

(***************************************************************************)
(* The reader takes n of the buffered bytes: it is given exactly the       *)
(* oldest n.                                                               *)
(***************************************************************************)
Take(n) ==
    /\ n <= Len(queue.buf)
    /\ out' = SubSeq(queue.buf, 1, n)
    /\ queue' = PopBytes(queue, n)

(***************************************************************************)
(* The reader discards n of the buffered bytes unseen.                     *)
(***************************************************************************)
Discard(n) ==
    /\ n <= Len(queue.buf)
    /\ queue' = PopBytes(queue, n)
    /\ UNCHANGED out

Next ==
    \/ \E n \in 0 .. MaxBytes : Push(n)
    \/ Close
    \/ SetErr
    \/ \E n \in 0 .. Capacity : Take(n)
    \/ \E n \in 0 .. Capacity : Discard(n)

Spec == Init /\ [][Next]_vars
=============================================================================
