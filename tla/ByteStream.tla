----------------------------- MODULE ByteStream -----------------------------
(***************************************************************************)
(* ByteStream (src/src/byte_stream): the buffered bytes are a deque of the *)
(* strings that were pushed; the first remove_prefix_len of the front one  *)
(* have been read already.  Separate counters track the totals.            *)
(***************************************************************************)
EXTENDS ByteQueue, SequencesExt

CONSTANTS
    Capacity,       \* capacity_
    MaxBytes        \* bound: bytes ever offered to the writer

ASSUME CapacityAssumption == Capacity \in Nat /\ MaxBytes \in Nat

VARIABLES
    error, closed,
    bytes_pushed, bytes_popped, bytes_buffered,
    remove_prefix_len,
    bytes_stream,       \* the deque of strings
    out                 \* what the last read returned

vars == << error, closed, bytes_pushed, bytes_popped, bytes_buffered,
           remove_prefix_len, bytes_stream, out >>

Init ==
    /\ error = FALSE /\ closed = FALSE
    /\ bytes_pushed = 0 /\ bytes_popped = 0 /\ bytes_buffered = 0
    /\ remove_prefix_len = 0
    /\ bytes_stream = << >>
    /\ out = << >>

-----------------------------------------------------------------------------
(***************************************************************************)
(* Writer                                                                  *)
(***************************************************************************)
available_capacity == Capacity - bytes_buffered

Push(data) ==
    LET len == Lesser(Len(data), available_capacity)
    IN  IF ~closed /\ available_capacity > 0 /\ data # << >>
        THEN /\ bytes_stream' = Append(bytes_stream, SubSeq(data, 1, len))
             /\ bytes_pushed' = bytes_pushed + len
             /\ bytes_buffered' = bytes_buffered + len
             /\ UNCHANGED << error, closed, bytes_popped, remove_prefix_len, out >>
        ELSE UNCHANGED vars

Close ==
    /\ closed' = TRUE
    /\ UNCHANGED << error, bytes_pushed, bytes_popped, bytes_buffered,
                    remove_prefix_len, bytes_stream, out >>

SetErr ==
    /\ error' = TRUE
    /\ UNCHANGED << closed, bytes_pushed, bytes_popped, bytes_buffered,
                    remove_prefix_len, bytes_stream, out >>

-----------------------------------------------------------------------------
(***************************************************************************)
(* Reader.  Contents is the part of the state that reading works on: the   *)
(* read() helper peeks and pops several times in one call.                 *)
(***************************************************************************)
Contents == [chunks |-> bytes_stream, prefix |-> remove_prefix_len,
             buffered |-> bytes_buffered]

Peek(c) ==
    IF c.buffered = 0 THEN << >>
    ELSE SubSeq(Head(c.chunks), c.prefix + 1, Len(Head(c.chunks)))

(***************************************************************************)
(* One turn of the loop of Reader::pop, with len still to be popped: a     *)
(* whole string leaves the deque, or what is left of len is added to the   *)
(* prefix of the one that stays.                                           *)
(***************************************************************************)
\* mistake: forget what has been read of the string before
BugPopForgetsPrefix(p) ==
    LET sz == Len(Head(p.chunks)) - p.prefix
    IN  IF p.len = 0 THEN p
        ELSE IF p.len < sz THEN [p EXCEPT !.prefix = p.len, !.len = 0]
        ELSE [p EXCEPT !.chunks = Tail(@), !.prefix = 0, !.len = @ - sz]

\* mistake: leave a string that is used up in the deque
BugPopKeepsEmpty(p) ==
    LET sz == Len(Head(p.chunks)) - p.prefix
    IN  IF p.len = 0 THEN p
        ELSE IF p.len <= sz THEN [p EXCEPT !.prefix = @ + p.len, !.len = 0]
        ELSE [p EXCEPT !.chunks = Tail(@), !.prefix = 0, !.len = @ - sz]

PopOnce(p) ==
    LET sz == Len(Head(p.chunks)) - p.prefix
    IN  IF p.len = 0 THEN p
        ELSE IF p.len < sz THEN [p EXCEPT !.prefix = @ + p.len, !.len = 0]
        ELSE [p EXCEPT !.chunks = Tail(@), !.prefix = 0, !.len = @ - sz]

(***************************************************************************)
(* Reader::pop.  Every turn but the last takes a string off the deque, so  *)
(* as many turns as there are strings are enough; a turn after the last    *)
(* changes nothing.                                                        *)
(***************************************************************************)
PopTurns(c, len) ==
    LET turn[i \in 0 .. Len(c.chunks)] ==
            IF i = 0 THEN [chunks |-> c.chunks, prefix |-> c.prefix, len |-> len]
            ELSE PopOnce(turn[i - 1])
    IN  turn

PopFrom(c, len) ==
    LET p == PopTurns(c, len)[Len(c.chunks)]
    IN  [chunks |-> p.chunks, prefix |-> p.prefix, buffered |-> c.buffered - len]

(***************************************************************************)
(* One turn of the loop of read(): peek, copy at most what is still        *)
(* wanted, pop it.  It throws, leaving the call, should peek return        *)
(* nothing.                                                                *)
(***************************************************************************)
ReadOnce(r, len) ==
    LET view == SubSeq(Peek(r.left), 1, Lesser(len - Len(r.got), Len(Peek(r.left))))
    IN  IF r.left.buffered = 0 \/ Len(r.got) >= len \/ Peek(r.left) = << >>
        THEN r
        ELSE [left |-> PopFrom(r.left, Len(view)), got |-> r.got \o view]

(***************************************************************************)
(* read().  Every turn but the last uses up a string.                      *)
(***************************************************************************)
ReadTurns(c, len) ==
    LET turn[i \in 0 .. Len(c.chunks)] ==
            IF i = 0 THEN [left |-> c, got |-> << >>] ELSE ReadOnce(turn[i - 1], len)
    IN  turn

ReadFrom(c, len) == ReadTurns(c, len)[Len(c.chunks)]

Popped(c) ==
    /\ bytes_popped' = bytes_popped + (bytes_buffered - c.buffered)
    /\ bytes_buffered' = c.buffered
    /\ bytes_stream' = c.chunks
    /\ remove_prefix_len' = c.prefix
    /\ UNCHANGED << error, closed, bytes_pushed >>

(***************************************************************************)
(* Reader::pop on its own; the caller never pops more than is buffered.    *)
(***************************************************************************)
Pop(len) ==
    /\ len <= bytes_buffered
    /\ Popped(PopFrom(Contents, len))
    /\ UNCHANGED out

(***************************************************************************)
(* read(reader, len, out)                                                  *)
(***************************************************************************)
Read(len) ==
    LET r == ReadFrom(Contents, len)
    IN  /\ Popped(r.left)
        /\ out' = r.got

(***************************************************************************)
(* The pipe side of a socket: peek, write some n of the bytes, pop those.  *)
(***************************************************************************)
Drain(n) ==
    /\ n <= Len(Peek(Contents))
    /\ out' = SubSeq(Peek(Contents), 1, n)
    /\ Popped(PopFrom(Contents, n))

-----------------------------------------------------------------------------
Write(n) ==
    /\ bytes_pushed + n <= MaxBytes
    /\ Push(BytesFrom(bytes_pushed, n))

Next ==
    \/ \E n \in 0 .. MaxBytes : Write(n)
    \/ Close
    \/ SetErr
    \/ \E len \in 0 .. Capacity : Pop(len)
    \/ \E len \in 0 .. Capacity + 1 : Read(len)
    \/ \E n \in 1 .. Capacity : Drain(n)

Spec == Init /\ [][Next]_vars

-----------------------------------------------------------------------------
TypeOK ==
    /\ error \in BOOLEAN /\ closed \in BOOLEAN
    /\ bytes_pushed \in 0 .. MaxBytes
    /\ bytes_popped \in 0 .. MaxBytes
    /\ bytes_buffered \in 0 .. Capacity
    /\ remove_prefix_len \in Nat
    /\ bytes_stream \in Seq(Seq(Byte))
    /\ out \in Seq(Byte)

(***************************************************************************)
(* The counters and the deque, updated in different places, always agree:  *)
(* no string in the deque is used up (or Reader::peek would return nothing *)
(* while bytes are buffered, and read() would throw), the strings hold     *)
(* exactly bytes_buffered unread bytes, and the three totals balance.      *)
(***************************************************************************)
CountersMatchDeque ==
    /\ \A i \in DOMAIN bytes_stream : bytes_stream[i] # << >>
    /\ IF bytes_stream = << >> THEN remove_prefix_len = 0
       ELSE remove_prefix_len < Len(Head(bytes_stream))
    /\ Len(FlattenSeq(bytes_stream)) = bytes_buffered + remove_prefix_len
    /\ bytes_pushed = bytes_popped + bytes_buffered

(***************************************************************************)
(* Seen through its interface the structure is the bounded FIFO of         *)
(* ByteQueueSpec: reads return every byte once, in order, across string    *)
(* boundaries and partial reads.                                           *)
(***************************************************************************)
Unread ==
    LET all == FlattenSeq(bytes_stream)
    IN  SubSeq(all, remove_prefix_len + 1, Len(all))

Abstract == INSTANCE ByteQueueSpec WITH
    queue <- [capacity |-> Capacity, error |-> error, closed |-> closed,
              pushed |-> bytes_pushed, buf |-> Unread]

ImplementsQueue == Abstract!Spec
=============================================================================
