---------------------------- MODULE WrapTracking ----------------------------
(***************************************************************************)
(* How TCPReceiver and TCPSender use Wrap32: one side numbers its stream   *)
(* with absolute numbers and sends them wrapped; the other keeps a         *)
(* checkpoint (the absolute number it expects next) and unwraps each       *)
(* arriving number next to it.  The checkpoint is moved to what was        *)
(* unwrapped, so one wrong translation would shift everything after it.    *)
(***************************************************************************)
EXTENDS WrappingIntegers

CONSTANT MaxAbs     \* bound: the largest absolute number sent

(***************************************************************************)
(* unwrap holds its result in an int64_t, so it is for absolute numbers    *)
(* below 2^63, with room for an offset of half the 32-bit space.           *)
(***************************************************************************)
ASSUME MaxAbsAssumption ==
    MaxAbs \in Nat /\ MaxAbs + Mod32 \div 2 <= Mod64 \div 2

VARIABLES
    zero_point,     \* the ISN both sides use
    absolute,       \* the absolute number of the last message
    checkpoint      \* what the other side makes of it

tracked == << zero_point, absolute, checkpoint >>

TrackingInit ==
    /\ zero_point \in Wrap32
    /\ absolute = 0
    /\ checkpoint = 0

(***************************************************************************)
(* A message numbered n arrives; segments in flight are less than half the *)
(* 32-bit space away from the checkpoint.                                  *)
(***************************************************************************)
Message(n) ==
    /\ n - checkpoint < Mod32 \div 2
    /\ checkpoint - n <= Mod32 \div 2
    /\ absolute' = n
    /\ checkpoint' = Unwrap(Wrap(n, zero_point), zero_point, checkpoint)
    /\ UNCHANGED zero_point

TrackingNext == \E n \in 0 .. MaxAbs : Message(n)

TrackingSpec == TrackingInit /\ [][TrackingNext]_tracked

-----------------------------------------------------------------------------
(***************************************************************************)
(* unwrap inverts wrap: however far the stream advances or falls back, and *)
(* however often the 32-bit numbers wrap around, the tracked number is the *)
(* one the peer sent.                                                      *)
(***************************************************************************)
Tracks == checkpoint = absolute

(***************************************************************************)
(* Among the absolute numbers that wrap to a given value, unwrap returns   *)
(* one that no other is closer to the checkpoint than.                     *)
(***************************************************************************)
Distance(a, b) == Greater(a, b) - Lesser(a, b)

NearestToCheckpoint ==
    \A raw \in Wrap32 :
        LET result == Unwrap(raw, zero_point, checkpoint)
        IN  /\ Wrap(result, zero_point) = raw
            /\ \A n \in 0 .. UINT64_MAX :
                   Wrap(n, zero_point) = raw =>
                       Distance(result, checkpoint) <= Distance(n, checkpoint)
=============================================================================
