--------------------------- MODULE StreamAssembly ---------------------------
(***************************************************************************)
(* What a reassembler promises (src/src/reassembler/reassembler.h): it     *)
(* keeps the set of stream indices it holds, writes the longest gap-free   *)
(* prefix as soon as it has it, stores what fits behind a gap, discards    *)
(* what does not fit, and closes after the last byte.  How intervals are   *)
(* kept and merged is not visible here.                                    *)
(***************************************************************************)
EXTENDS Integers, FiniteSets

CONSTANTS
    StreamLen,      \* bytes in the stream
    Capacity        \* capacity of the output

VARIABLES
    held,           \* indices assembled or stored
    assembled,      \* number of bytes written to the output
    taken,          \* number of bytes the reader has taken
    eof,            \* whether the end of the stream is known
    closed          \* whether the output has been closed

vars == << held, assembled, taken, eof, closed >>

Init ==
    /\ held = {}
    /\ assembled = 0 /\ taken = 0
    /\ eof = FALSE /\ closed = FALSE

Prefix(s) == CHOOSE n \in 0 .. StreamLen : (0 .. n - 1) \subseteq s /\ n \notin s

(***************************************************************************)
(* The bytes first .. first + n - 1 arrive, the last of the stream or not. *)
(* Only indices the output has room for are accepted.                      *)
(***************************************************************************)
Insert(first, n, last) ==
    /\ ~closed
    /\ first < taken + Capacity
    /\ eof' = (eof \/ last)
    /\ held' = held \cup {i \in first .. first + n - 1 : i < taken + Capacity}
    /\ assembled' = Prefix(held')
    /\ closed' = (eof' /\ assembled' = StreamLen)
    /\ UNCHANGED taken

Take(n) ==
    /\ taken + n <= assembled
    /\ taken' = taken + n
    /\ UNCHANGED << held, assembled, eof, closed >>

Next ==
    \/ \E first \in 0 .. StreamLen, n \in 0 .. StreamLen, last \in BOOLEAN :
           /\ first + n <= StreamLen
           /\ last => first + n = StreamLen
           /\ Insert(first, n, last)
    \/ \E n \in 1 .. Capacity : Take(n)

Spec == Init /\ [][Next]_vars
=============================================================================
