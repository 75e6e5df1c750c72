-------------------------- MODULE ReassemblerSpec ---------------------------
(***************************************************************************)
(* A Reassembler fed with every substring of one stream, in any order, any *)
(* number of times, overlapping in every way, while its reader takes       *)
(* bytes at its own pace.                                                  *)
(***************************************************************************)
EXTENDS Reassembler

CONSTANTS
    InsertedLen,    \* bound: bytes in the peer's stream
    OutputCapacity  \* capacity_ of the output ByteStream

ASSUME StreamAssumption ==
    /\ InsertedLen \in Nat /\ InsertedLen < UINT64_MAX
    /\ OutputCapacity \in Nat

VARIABLE reassembler

AssemblyInit == reassembler = NewReassembler(OutputCapacity)

(***************************************************************************)
(* Insert data from index first; is_last only if it reaches the end.       *)
(***************************************************************************)
InsertSubstring(first, n, is_last) ==
    /\ first + n <= InsertedLen
    /\ is_last => first + n = InsertedLen
    /\ reassembler' = Insert(reassembler, first, BytesFrom(first, n), is_last)

TakeAssembled(n) ==
    /\ n <= Len(reassembler.output.buf)
    /\ reassembler' = [reassembler EXCEPT !.output = PopBytes(@, n)]

AssemblyNext ==
    \/ \E first \in 0 .. InsertedLen, n \in 0 .. InsertedLen, is_last \in BOOLEAN :
           InsertSubstring(first, n, is_last)
    \/ \E n \in 1 .. OutputCapacity : TakeAssembled(n)

AssemblySpec == AssemblyInit /\ [][AssemblyNext]_reassembler

-----------------------------------------------------------------------------
out     == reassembler.output
buffers == reassembler.buffers

IntervalType ==
    [beg_idx : 0 .. InsertedLen, end_idx : 0 .. InsertedLen, str : Seq(Byte)]

AssemblyTypeOK ==
    /\ out \in Stream
    /\ Len(out.buf) <= OutputCapacity
    /\ buffers \in Seq(IntervalType)
    /\ reassembler.first_unassembled \in 0 .. InsertedLen
    /\ reassembler.eof_index \in {InsertedLen, UINT64_MAX}

(***************************************************************************)
(* After any sequence of overlapping inserts the list is in normal form:   *)
(* every interval carries exactly the bytes of its range, all lie beyond   *)
(* the assembled prefix, and between two of them there is a gap of at      *)
(* least one byte.                                                         *)
(***************************************************************************)
BuffersNormal ==
    /\ \A i \in DOMAIN buffers :
           /\ buffers[i].beg_idx < buffers[i].end_idx
           /\ buffers[i].str = BytesFrom(buffers[i].beg_idx,
                                         buffers[i].end_idx - buffers[i].beg_idx)
           /\ reassembler.first_unassembled < buffers[i].beg_idx
    /\ \A i \in 1 .. Len(buffers) - 1 :
           buffers[i].end_idx < buffers[i + 1].beg_idx

(***************************************************************************)
(* Writer::push silently drops what does not fit, and insert moves         *)
(* first_unassembled on regardless: the two agree only because no interval *)
(* is ever stored that the output lacks room for.  So no byte is lost      *)
(* between the list and the output, the bytes in both stay within the      *)
(* capacity, and the output holds the right bytes.                         *)
(***************************************************************************)
NothingTruncated ==
    /\ reassembler.first_unassembled = out.pushed
    /\ Len(out.buf) + BytesPending(reassembler) <= OutputCapacity
    /\ out.buf = BytesFrom(BytesPopped(out), Len(out.buf))

(***************************************************************************)
(* The detailed structure does what StreamAssembly promises, insert by     *)
(* insert: it forgets no byte it had room for, delivers as soon as the gap *)
(* is filled, and closes exactly when the whole stream is assembled and    *)
(* its end is known.                                                       *)
(***************************************************************************)
Indices(itv) == itv.beg_idx .. itv.end_idx - 1

Promise == INSTANCE StreamAssembly WITH
    StreamLen <- InsertedLen,
    Capacity <- OutputCapacity,
    held <- (0 .. out.pushed - 1) \cup UNION {Indices(buffers[i]) : i \in DOMAIN buffers},
    assembled <- out.pushed,
    taken <- BytesPopped(out),
    eof <- reassembler.eof_index # UINT64_MAX,
    closed <- out.closed

KeepsPromise == Promise!Spec
=============================================================================
