------------------------------- MODULE Parser -------------------------------
(***************************************************************************)
(* Parser, Serializer (src/util/tools/parser.h) and InternetChecksum       *)
(* (src/util/tools/checksum.h).  A byte is a number below 256, a string a  *)
(* sequence of bytes, and what is parsed a sequence of strings, the chunks *)
(* it was read in.                                                         *)
(***************************************************************************)
EXTENDS Integers, Sequences
LOCAL INSTANCE SequencesExt

Size(chunks) == FoldLeft(LAMBDA n, chunk : n + Len(chunk), 0, chunks)

Smaller(m, n) == IF m < n THEN m ELSE n

(***************************************************************************)
(* A Parser: the chunks left, the bytes to skip in the first of them, the  *)
(* bytes left, the error flag, and whether it has looked at the front of   *)
(* an empty chunk, where there is nothing but the terminating zero.        *)
(***************************************************************************)
NewParser(chunks) ==
    [chunks |-> chunks, skip |-> 0, size |-> Size(chunks), error |-> FALSE, astray |-> FALSE]

Peek(p) == SubSeq(Head(p.chunks), p.skip + 1, Len(Head(p.chunks)))

\* mistake: drop a chunk that is used up only when more is to be removed
RECURSIVE BugRemovePrefix(_, _)
BugRemovePrefix(p, len) ==
    LET n    == Smaller(len, Len(Peek(p)))
        left == [p EXCEPT !.skip = @ + n, !.size = @ - n]
    IN  IF len = 0 \/ p.chunks = << >> THEN p
        ELSE BugRemovePrefix(IF left.skip = Len(Head(p.chunks)) /\ len > n
                             THEN [left EXCEPT !.chunks = Tail(@), !.skip = 0] ELSE left, len - n)

RECURSIVE RemovePrefix(_, _)
RemovePrefix(p, len) ==
    LET n    == Smaller(len, Len(Peek(p)))
        left == [p EXCEPT !.skip = @ + n, !.size = @ - n]
    IN  IF len = 0 \/ p.chunks = << >> THEN p
        ELSE RemovePrefix(IF left.skip = Len(Head(p.chunks))
                          THEN [left EXCEPT !.chunks = Tail(@), !.skip = 0] ELSE left, len - n)

(***************************************************************************)
(* integer: n bytes, the first is the highest.  After an error nothing is  *)
(* read, and the number keeps its initial 0.                               *)
(***************************************************************************)
ReadByte(r) ==
    LET view == Peek(r.p)
        byte == IF view = << >> THEN 0 ELSE Head(view)
    IN  [p |-> RemovePrefix([r.p EXCEPT !.astray = @ \/ view = << >>], 1),
         value |-> 256 * r.value + byte]

ReadInteger(p, n) ==
    IF p.error \/ n > p.size THEN [p |-> [p EXCEPT !.error = TRUE], value |-> 0]
    ELSE FoldLeft(LAMBDA r, k : ReadByte(r), [p |-> p, value |-> 0], [k \in 1 .. n |-> k])

SetErrorIf(p, condition) == [p EXCEPT !.error = @ \/ condition]

\* mistake: forget what has been taken from the first chunk
BugRemaining(p) == IF p.size = 0 THEN << >> ELSE p.chunks

\* all_remaining, and buffer
Remaining(p) == IF p.size = 0 THEN << >> ELSE << Peek(p) >> \o Tail(p.chunks)

-----------------------------------------------------------------------------
(***************************************************************************)
(* A Serializer: the strings put out, and the bytes of the next one.       *)
(***************************************************************************)
NewSerializer == [output |-> << >>, buffer |-> << >>]

WriteInteger(s, n, value) ==
    [s EXCEPT !.buffer = @ \o [k \in 1 .. n |-> (value \div 256 ^ (n - k)) % 256]]

Flush(s) ==
    IF s.buffer = << >> THEN s
    ELSE [output |-> Append(s.output, s.buffer), buffer |-> << >>]

WriteBuffer(s, string) ==
    IF string = << >> THEN Flush(s) ELSE [Flush(s) EXCEPT !.output = Append(@, string)]

WriteBuffers(s, strings) == FoldLeft(WriteBuffer, s, strings)

Output(s) == Flush(s).output

-----------------------------------------------------------------------------
(***************************************************************************)
(* The Internet checksum: the sum of the bytes, high and low in turn       *)
(* across the strings, folded to 16 bits and complemented.                 *)
(***************************************************************************)
AddByte(c, byte) ==
    [sum |-> c.sum + (IF c.parity THEN byte ELSE 256 * byte), parity |-> ~c.parity]

Add(c, strings) == FoldLeft(AddByte, c, FlattenSeq(strings))

RECURSIVE Folded(_)
Folded(sum) == IF sum > 65535 THEN Folded((sum \div 65536) + (sum % 65536)) ELSE sum

Checksum(initial, strings) == 65535 - Folded(Add([sum |-> initial, parity |-> FALSE], strings).sum)
=============================================================================
