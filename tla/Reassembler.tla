----------------------------- MODULE Reassembler ----------------------------
(***************************************************************************)
(* Reassembler (src/src/reassembler) as operators on its state, a record:  *)
(*   output              the ByteStream it writes                          *)
(*   buffers             the list of stored intervals, in order            *)
(*   first_unassembled   the first stream index not yet written            *)
(*   eof_index           where the stream ends, UINT64_MAX when unknown    *)
(***************************************************************************)
EXTENDS ByteQueue

Interval(beg, end, str) == [beg_idx |-> beg, end_idx |-> end, str |-> str]

NewReassembler(capacity) ==
    [output |-> NewStream(capacity), buffers |-> << >>,
     first_unassembled |-> 0, eof_index |-> UINT64_MAX]

(***************************************************************************)
(* Interval::operator<                                                     *)
(***************************************************************************)
Before(i, j) ==
    IF i.beg_idx # j.beg_idx THEN i.beg_idx < j.beg_idx ELSE i.end_idx < j.end_idx

(***************************************************************************)
(* The first two branches of the insertion: the interval before the new    *)
(* one is lengthened when the two touch and the new one reaches further.   *)
(***************************************************************************)
\* mistake: lengthen the earlier interval without looking where it ends
BugExtendAlways(prev, itv) ==
    Interval(prev.beg_idx, itv.end_idx,
             SubSeq(prev.str, 1, itv.beg_idx - prev.beg_idx) \o itv.str)

Extend(prev, itv) ==
    IF prev.end_idx <= itv.end_idx
    THEN Interval(prev.beg_idx, itv.end_idx,
                  SubSeq(prev.str, 1, itv.beg_idx - prev.beg_idx) \o itv.str)
    ELSE prev

(***************************************************************************)
(* The merge loop: the intervals that follow are absorbed one by one, for  *)
(* as long as the next of them touches the growing one.                    *)
(***************************************************************************)
\* mistake: merge overlapping intervals but not adjacent ones
BugTouchesOverlapOnly(itv, it) == itv.end_idx > it.beg_idx

Touches(itv, it) == itv.end_idx >= it.beg_idx

Absorb(itv, it) ==
    IF it.end_idx > itv.end_idx
    THEN Interval(itv.beg_idx, it.end_idx,
                  SubSeq(itv.str, 1, it.beg_idx - itv.beg_idx) \o it.str)
    ELSE itv

Grown(itv, after) ==
    LET grown[k \in 0 .. Len(after)] ==
            IF k = 0 THEN itv
            ELSE IF Touches(grown[k - 1], after[k]) THEN Absorb(grown[k - 1], after[k])
            ELSE grown[k - 1]
    IN  grown

Merge(itv, after) ==
    LET grown == Grown(itv, after)
        turns == CHOOSE k \in 0 .. Len(after) :
                     /\ \A i \in 1 .. k : Touches(grown[i - 1], after[i])
                     /\ k < Len(after) => ~Touches(grown[k], after[k + 1])
    IN  << grown[turns] >> \o SubSeq(after, turns + 1, Len(after))

(***************************************************************************)
(* Put one interval into the ordered list, at its lower bound.             *)
(***************************************************************************)
LowerBound(buffers, itv) ==
    CHOOSE n \in 0 .. Len(buffers) :
        \A i \in DOMAIN buffers : i <= n <=> Before(buffers[i], itv)

Store(buffers, itv) ==
    LET n     == LowerBound(buffers, itv)
        after == SubSeq(buffers, n + 1, Len(buffers))
    IN  IF n > 0 /\ Touches(buffers[n], itv)
        THEN SubSeq(buffers, 1, n - 1) \o Merge(Extend(buffers[n], itv), after)
        ELSE SubSeq(buffers, 1, n) \o Merge(itv, after)

(***************************************************************************)
(* The erase_if: in list order, every interval that starts where the       *)
(* output ends is written to it.                                           *)
(***************************************************************************)
\* mistake: write whatever is stored, with or without a gap before it
BugWriteOrKeepGaps(r, itv) ==
    [r EXCEPT !.output = PushBytes(@, itv.str), !.first_unassembled = itv.end_idx]

WriteOrKeep(r, itv) ==
    IF itv.beg_idx = r.first_unassembled
    THEN [r EXCEPT !.output = PushBytes(@, itv.str),
                   !.first_unassembled = itv.end_idx]
    ELSE [r EXCEPT !.buffers = Append(@, itv)]

Written(r) ==
    LET after[k \in 0 .. Len(r.buffers)] ==
            IF k = 0 THEN [r EXCEPT !.buffers = << >>]
            ELSE WriteOrKeep(after[k - 1], r.buffers[k])
    IN  after

WriteOut(r) == Written(r)[Len(r.buffers)]

\* mistake: take the stream for complete when nothing waits to be written
BugCloseIfNothingWaits(r) ==
    IF r.eof_index < UINT64_MAX /\ r.buffers = << >>
    THEN [r EXCEPT !.output = CloseStream(@)]
    ELSE r

CloseIfDone(r) ==
    IF r.first_unassembled >= r.eof_index
    THEN [r EXCEPT !.output = CloseStream(@)]
    ELSE r

(***************************************************************************)
(* The first stream index there is no room for.                            *)
(***************************************************************************)
\* mistake: count the capacity, not what is free of it
BugLimitWholeCapacity(r) == r.first_unassembled + r.output.capacity

Limit(r) == r.first_unassembled + AvailableCapacity(r.output)

\* mistake: take the end of the stream from the part that fits
BugLearnEofClipped(r, first_index, data, is_last_substring) ==
    IF is_last_substring
    THEN [r EXCEPT !.eof_index = Lesser(first_index + Len(data), Limit(r))]
    ELSE r

LearnEof(r, first_index, data, is_last_substring) ==
    IF is_last_substring THEN [r EXCEPT !.eof_index = first_index + Len(data)] ELSE r

(***************************************************************************)
(* Reassembler::insert                                                     *)
(***************************************************************************)
Insert(r, first_index, data, is_last_substring) ==
    LET known == LearnEof(r, first_index, data, is_last_substring)
        beg   == Greater(first_index, r.first_unassembled)
        end   == Lesser(first_index + Len(data), Limit(r))
        itv   == Interval(beg, end, SubSeq(data, beg - first_index + 1, end - first_index))
    IN  IF r.output.closed \/ first_index >= r.eof_index \/ first_index >= Limit(r)
        THEN r
        ELSE IF end <= beg THEN CloseIfDone(known)
        ELSE CloseIfDone(WriteOut([known EXCEPT !.buffers = Store(@, itv)]))

(***************************************************************************)
(* Reassembler::bytes_pending                                              *)
(***************************************************************************)
Sums(buffers) ==
    LET sum[k \in 0 .. Len(buffers)] ==
            IF k = 0 THEN 0
            ELSE sum[k - 1] + (buffers[k].end_idx - buffers[k].beg_idx)
    IN  sum

BytesPending(r) == Sums(r.buffers)[Len(r.buffers)]
=============================================================================
