-------------------------- MODULE FoundationProofs --------------------------
(***************************************************************************)
(* What both halves of a connection stand on.  Wrapped sequence numbers    *)
(* are tracked without error, for both widths and every zero point; the    *)
(* deque of strings is a bounded first-in first-out queue, for every       *)
(* capacity and any sequence of calls.                                     *)
(***************************************************************************)
EXTENDS WrapTracking, ByteStream, TCPMessagesProofs

-----------------------------------------------------------------------------
(***************************************************************************)
(* Sequence numbers.                                                       *)
(***************************************************************************)

(***************************************************************************)
(* What unwrap computes while the checkpoint is below 2^63: the number at  *)
(* the offset from the checkpoint, or 2^32 more where that is negative.    *)
(***************************************************************************)
LEMMA UnwrapNear ==
    ASSUME NEW raw \in Wrap32, NEW zero \in Wrap32, NEW c \in Nat,
           c + Mod32 \div 2 <= Mod64 \div 2
    PROVE  LET near == c + Offset(raw, zero, c)
           IN  Unwrap(raw, zero, c) = IF near < 0 THEN near + Mod32 ELSE near
<1> DEFINE offset == Offset(raw, zero, c)
           near == c + offset
<1>1. offset \in Int /\ -(Mod32 \div 2) <= offset /\ offset < Mod32 \div 2
  BY OffsetLeads
<1> HIDE DEF offset
<1>2. near \in Int /\ near < Mod64 \div 2 /\ near >= -(Mod32 \div 2)
  BY <1>1, Widths
<1> HIDE DEF near
<1>3. CASE near >= 0
  <2>1. near \in 0 .. Mod64 - 1
    BY <1>2, <1>3, Widths
  <2>2. near % Mod64 = near
    BY <2>1, Widths, SmallRemainder
  <2>3. AsInt64(near) = near
    BY <1>2 DEF AsInt64
  <2> QED
    BY <1>2, <1>3, <2>2, <2>3 DEF Unwrap, near, offset
<1>4. CASE near < 0
  <2> DEFINE high == near + Mod64
             up   == near + Mod32
  <2>1. high \in 0 .. Mod64 - 1 /\ near = Mod64 * (-1) + high
    BY <1>2, <1>4, Widths
  <2>2. near % Mod64 = high
    BY <2>1, Widths, RemainderUnique
  <2>3. AsInt64(high) = near
    BY <1>2, <2>1, Widths DEF AsInt64
  <2>4. up \in 0 .. Mod64 - 1
    BY <1>2, <1>4, Widths
  <2> HIDE DEF high, up
  <2>5. up % Mod64 = up
    BY <2>4, Widths, SmallRemainder
  <2> QED
    BY <1>4, <2>2, <2>3, <2>5 DEF Unwrap, near, offset, up
<1> QED
  BY <1>2, <1>3, <1>4

(***************************************************************************)
(* Of the numbers that wrap to raw, none is closer to the checkpoint than  *)
(* the one unwrap returns.                                                 *)
(***************************************************************************)
LEMMA UnwrapNearest ==
    ASSUME NEW raw \in Wrap32, NEW zero \in Wrap32, NEW c \in Nat,
           c + Mod32 \div 2 <= Mod64 \div 2
    PROVE  LET result == Unwrap(raw, zero, c)
           IN  /\ Wrap(result, zero) = raw
               /\ \A n \in 0 .. UINT64_MAX :
                      Wrap(n, zero) = raw => Distance(result, c) <= Distance(n, c)
<1> DEFINE m == Mod32
           h == Mod32 \div 2
           near == c + Offset(raw, zero, c)
           up == near + m
           result == IF near < 0 THEN up ELSE near
           a == zero + near
<1>1. m \in Nat \ {0} /\ h \in Nat /\ m = 2 * h /\ h >= 1
  BY Widths
<1>2. zero \in Int
  BY DEF Wrap32
<1>3. near \in Int /\ -h <= near - c /\ near - c < h /\ a % m = raw
  BY OffsetLeads
<1>4. Unwrap(raw, zero, c) = result
  BY UnwrapNear
<1> HIDE DEF m, h, near
<1>5. a \in Int /\ up \in Int /\ zero + up = a + m * 1
  BY <1>1, <1>2, <1>3
<1>6. (zero + near) % m = raw /\ (zero + up) % m = raw
  <2>1. a % m = raw
    BY <1>3
  <2>2. zero + up = a + m /\ a \in Int
    BY <1>1, <1>2, <1>3
  <2> HIDE DEF a, up
  <2> DEFINE one == 1
  <2>3. one \in Int /\ m * one = m
    BY <1>1
  <2> HIDE DEF one
  <2>4. (a + m * one) % m = a % m
    BY <1>1, <2>2, <2>3, SameRemainder
  <2>5. (a + m) % m = raw
    BY <2>1, <2>3, <2>4
  <2> QED
    BY <2>1, <2>2, <2>5 DEF a
<1>7. ASSUME NEW n \in 0 .. UINT64_MAX, Wrap(n, zero) = raw
      PROVE  Distance(result, c) <= Distance(n, c)
  <2> DEFINE b == zero + n
  <2>1. n \in Nat /\ b \in Int /\ b % m = raw
    BY <1>2, <1>7, Widths DEF UINT64_MAX, Wrap, m
  <2>2. PICK k \in Int : b = a + m * k
    <3>1. a % m = b % m
      BY <1>3, <2>1
    <3> HIDE DEF a, b
    <3> QED
      BY <1>1, <1>5, <2>1, <3>1, Congruent
  <2> DEFINE mk == m * k
  <2>3. n = near + mk /\ mk \in Int
    BY <1>1, <1>2, <1>3, <2>1, <2>2
  <2>4. mk = 0 \/ mk >= m \/ mk <= -m
    <3>1. CASE k = 0
      BY <1>1, <3>1
    <3>2. CASE k >= 1
      BY <1>1, <3>2
    <3>3. CASE k <= -1
      BY <1>1, <3>3
    <3> QED
      BY <3>1, <3>2, <3>3
  <2> HIDE DEF mk, a, b
  <2>5. CASE near >= 0
    BY <1>1, <1>3, <2>1, <2>3, <2>4, <2>5 DEF Distance, Greater, Lesser
  <2>6. CASE near < 0
    BY <1>1, <1>3, <2>1, <2>3, <2>4, <2>6 DEF Distance, Greater, Lesser
  <2> QED
    BY <1>3, <2>5, <2>6
<1> HIDE DEF a, up
<1>8. Wrap(result, zero) = raw
  BY <1>6 DEF Wrap, m
<1> HIDE DEF result
<1> QED
  BY <1>4, <1>7, <1>8

-----------------------------------------------------------------------------
(***************************************************************************)
(* The inductive invariant: both sides agree, within the bound.            *)
(***************************************************************************)
TrackingInv ==
    /\ zero_point \in Wrap32
    /\ absolute \in 0 .. MaxAbs
    /\ Tracks

(***************************************************************************)
(* However often the 32-bit numbers wrap around, unwrap gives back what    *)
(* the peer wrapped (Wrap32::wrap and unwrap, as both halves use them).    *)
(***************************************************************************)
THEOREM AlwaysTracks == TrackingSpec => []Tracks /\ []TrackingInv
<1>1. TrackingInit => TrackingInv
  BY MaxAbsAssumption DEF TrackingInit, TrackingInv, Tracks
<1>2. ASSUME TrackingInv, [TrackingNext]_tracked PROVE TrackingInv'
  <2>1. ASSUME NEW n \in 0 .. MaxAbs, Message(n) PROVE TrackingInv'
    <3>1. n \in Nat /\ n < Mod64 \div 2
      BY MaxAbsAssumption, Widths
    <3>2. checkpoint \in Nat
      BY <1>2, MaxAbsAssumption DEF TrackingInv, Tracks
    <3>3. checkpoint' = n /\ absolute' = n /\ zero_point' = zero_point
      BY <1>2, <2>1, <3>1, <3>2, UnwrapInvertsWrap DEF Message, TrackingInv
    <3> QED
      BY <1>2, <3>3 DEF TrackingInv, Tracks
  <2>2. CASE UNCHANGED tracked
    BY <1>2, <2>2 DEF TrackingInv, Tracks, tracked
  <2> QED
    BY <1>2, <2>1, <2>2 DEF TrackingNext
<1>3. TrackingInv => Tracks
  BY DEF TrackingInv
<1> QED
  BY <1>1, <1>2, <1>3, PTL DEF TrackingSpec

(***************************************************************************)
(* Wherever the checkpoint has got to, unwrap returns a number that wraps  *)
(* to what arrived, and none that does is closer (Wrap32::unwrap).         *)
(***************************************************************************)
THEOREM AlwaysNearest == TrackingSpec => []NearestToCheckpoint
<1>1. TrackingInv => NearestToCheckpoint
  <2> SUFFICES ASSUME TrackingInv PROVE NearestToCheckpoint
    OBVIOUS
  <2>1. checkpoint \in Nat /\ checkpoint + Mod32 \div 2 <= Mod64 \div 2
    BY MaxAbsAssumption, Widths DEF TrackingInv, Tracks
  <2> QED
    BY <2>1, UnwrapNearest DEF TrackingInv, NearestToCheckpoint
<1> QED
  BY <1>1, AlwaysTracks, PTL

-----------------------------------------------------------------------------
(***************************************************************************)
(* The byte stream.                                                        *)
(***************************************************************************)

(***************************************************************************)
(* What is left of a sequence after its first n elements.                  *)
(***************************************************************************)
After(s, n) == SubSeq(s, n + 1, Len(s))

(***************************************************************************)
(* Its type, length and elements.                                          *)
(***************************************************************************)
LEMMA AfterType ==
    ASSUME NEW S, NEW s \in Seq(S), NEW n \in 0 .. Len(s)
    PROVE  /\ After(s, n) \in Seq(S) /\ Len(After(s, n)) = Len(s) - n
           /\ \A i \in 1 .. Len(s) - n : After(s, n)[i] = s[n + i]
BY SuffixProperties DEF After

(***************************************************************************)
(* After nothing, all is left.                                             *)
(***************************************************************************)
LEMMA AfterNone ==
    ASSUME NEW S, NEW s \in Seq(S)
    PROVE  After(s, 0) = s
BY DEF After

(***************************************************************************)
(* Taking m and then n elements off is taking m + n off.                   *)
(***************************************************************************)
LEMMA AfterTwice ==
    ASSUME NEW S, NEW s \in Seq(S), NEW m \in Nat, NEW n \in Nat, m + n <= Len(s)
    PROVE  After(After(s, m), n) = After(s, m + n)
<1> DEFINE a == After(s, m)
           b == After(a, n)
           k == m + n
           c == After(s, k)
<1>1. Len(s) \in Nat /\ k \in 0 .. Len(s) /\ m \in 0 .. Len(s)
  OBVIOUS
<1>2. a \in Seq(S) /\ Len(a) = Len(s) - m /\ \A i \in 1 .. Len(s) - m : a[i] = s[m + i]
  BY <1>1, AfterType
<1> HIDE DEF a
<1>3. n \in 0 .. Len(a)
  BY <1>1, <1>2
<1>4. b \in Seq(S) /\ Len(b) = Len(a) - n /\ \A i \in 1 .. Len(a) - n : b[i] = a[n + i]
  BY <1>2, <1>3, AfterType
<1> HIDE DEF b, k
<1>5. c \in Seq(S) /\ Len(c) = Len(s) - k /\ \A i \in 1 .. Len(s) - k : c[i] = s[k + i]
  BY <1>1, AfterType
<1> HIDE DEF c
<1>6. Len(b) = Len(c)
  BY <1>1, <1>2, <1>4, <1>5 DEF k
<1>7. ASSUME NEW i \in 1 .. Len(c) PROVE b[i] = c[i]
  <2>1. i \in 1 .. Len(a) - n /\ n + i \in 1 .. Len(s) - m /\ m + (n + i) = k + i
    BY <1>1, <1>2, <1>5 DEF k
  <2>2. b[i] = a[n + i] /\ a[n + i] = s[m + (n + i)] /\ c[i] = s[k + i]
    BY <2>1, <1>2, <1>4, <1>5
  <2> QED
    BY <2>1, <2>2
<1>8. b = c
  BY <1>4, <1>5, <1>6, <1>7, SeqEqual
<1> QED
  BY <1>8 DEF a, b, c, k

(***************************************************************************)
(* What is left of a concatenation when the end taken off lies in its      *)
(* first part, and when all of that is taken off.                          *)
(***************************************************************************)
LEMMA AfterInConcat ==
    ASSUME NEW S, NEW s \in Seq(S), NEW t \in Seq(S), NEW n \in 0 .. Len(s)
    PROVE  After(s \o t, n) = After(s, n) \o t
<1> DEFINE st == s \o t
           a == After(s, n)
           b == a \o t
           c == After(st, n)
<1>1. Len(s) \in Nat /\ Len(t) \in Nat /\ n \in Nat /\ n <= Len(s)
  BY LenIsNat
<1>2. st \in Seq(S) /\ Len(st) = Len(s) + Len(t)
      /\ \A i \in 1 .. Len(s) + Len(t) : st[i] = IF i <= Len(s) THEN s[i] ELSE t[i - Len(s)]
  BY ConcatProperties
<1>3. a \in Seq(S) /\ Len(a) = Len(s) - n /\ \A i \in 1 .. Len(s) - n : a[i] = s[n + i]
  BY AfterType
<1> HIDE DEF st, a
<1>4. b \in Seq(S) /\ Len(b) = Len(a) + Len(t)
      /\ \A i \in 1 .. Len(a) + Len(t) : b[i] = IF i <= Len(a) THEN a[i] ELSE t[i - Len(a)]
  BY <1>3, ConcatProperties
<1>5. c \in Seq(S) /\ Len(c) = Len(st) - n /\ \A i \in 1 .. Len(st) - n : c[i] = st[n + i]
  <2>1. n \in 0 .. Len(st)
    BY <1>1, <1>2
  <2> QED
    BY <2>1, <1>2, AfterType
<1> HIDE DEF b, c
<1>6. Len(b) = Len(c)
  BY <1>1, <1>2, <1>3, <1>4, <1>5
<1>7. ASSUME NEW i \in 1 .. Len(c) PROVE b[i] = c[i]
  <2>1. i \in 1 .. Len(a) + Len(t) /\ n + i \in 1 .. Len(s) + Len(t) /\ i \in 1 .. Len(st) - n
    BY <1>1, <1>2, <1>3, <1>5
  <2>2. /\ c[i] = IF n + i <= Len(s) THEN s[n + i] ELSE t[n + i - Len(s)]
        /\ b[i] = IF i <= Len(a) THEN a[i] ELSE t[i - Len(a)]
    BY <2>1, <1>2, <1>4, <1>5
  <2>3. CASE i <= Len(a)
    <3>1. n + i <= Len(s) /\ i \in 1 .. Len(s) - n
      BY <2>1, <2>3, <1>1, <1>3
    <3> QED
      BY <2>2, <2>3, <3>1, <1>3
  <2>4. CASE ~(i <= Len(a))
    <3>1. ~(n + i <= Len(s)) /\ n + i - Len(s) = i - Len(a)
      BY <2>1, <2>4, <1>1, <1>3
    <3> QED
      BY <2>2, <2>4, <3>1
  <2> QED
    BY <2>3, <2>4
<1>8. b = c
  BY <1>4, <1>5, <1>6, <1>7, SeqEqual
<1> QED
  BY <1>8 DEF a, b, c, st

(***************************************************************************)
(* After all elements, none is left.                                       *)
(***************************************************************************)
LEMMA AfterAll ==
    ASSUME NEW S, NEW s \in Seq(S)
    PROVE  After(s, Len(s)) = << >>
<1>1. Len(s) \in 0 .. Len(s)
  BY LenIsNat
<1>2. After(s, Len(s)) \in Seq(S) /\ Len(After(s, Len(s))) = 0
  BY <1>1, AfterType, LenIsNat
<1> QED
  BY <1>2, EmptySeq

(***************************************************************************)
(* A prefix, and what is left after it, make up the sequence.              *)
(***************************************************************************)
LEMMA PrefixAndRest ==
    ASSUME NEW S, NEW s \in Seq(S), NEW n \in 0 .. Len(s)
    PROVE  SubSeq(s, 1, n) \o After(s, n) = s
<1>1. Len(s) \in Nat /\ 1 \in 1 .. Len(s) + 1 /\ n \in 1 - 1 .. Len(s) /\ Len(s) \in n .. Len(s)
  BY LenIsNat
<1>2. SubSeq(s, 1, n) \o SubSeq(s, n + 1, Len(s)) = SubSeq(s, 1, Len(s))
  BY <1>1, ConcatAdjacentSubSeq
<1> QED
  BY <1>2, SubSeqFull DEF After

(***************************************************************************)
(* Conversely, the parts of a concatenation.                               *)
(***************************************************************************)
LEMMA PartsOfConcat ==
    ASSUME NEW S, NEW s \in Seq(S), NEW t \in Seq(S)
    PROVE  /\ Len(s) \in 0 .. Len(s \o t)
           /\ SubSeq(s \o t, 1, Len(s)) = s
           /\ After(s \o t, Len(s)) = t
<1> DEFINE st == s \o t
<1>1. Len(s) \in Nat /\ Len(t) \in Nat /\ Len(s) \in 0 .. Len(s)
  BY LenIsNat
<1>2. Len(st) = Len(s) + Len(t) /\ st \in Seq(S)
      /\ \A i \in 1 .. Len(s) + Len(t) : st[i] = IF i <= Len(s) THEN s[i] ELSE t[i - Len(s)]
  BY ConcatProperties
<1>3. After(st, Len(s)) = << >> \o t
  <2>1. After(st, Len(s)) = After(s, Len(s)) \o t
    BY <1>1, AfterInConcat
  <2> QED
    BY <2>1, AfterAll
<1>4. << >> \o t = t
  BY ConcatEmptySeq
<1> HIDE DEF st
<1>5. SubSeq(st, 1, Len(s)) \in Seq(S) /\ Len(SubSeq(st, 1, Len(s))) = Len(s)
      /\ \A i \in 1 .. Len(s) : SubSeq(st, 1, Len(s))[i] = st[i]
  <2>1. Len(s) \in 0 .. Len(st)
    BY <1>1, <1>2
  <2> QED
    BY <2>1, <1>2, PrefixProperties
<1>6. \A i \in 1 .. Len(s) : SubSeq(st, 1, Len(s))[i] = s[i]
  BY <1>1, <1>2, <1>5
<1>7. SubSeq(st, 1, Len(s)) = s
  BY <1>5, <1>6, SeqEqual
<1> QED
  BY <1>1, <1>2, <1>3, <1>4, <1>7 DEF st

-----------------------------------------------------------------------------
(***************************************************************************)
(* FlattenSeq joins the strings from the first on: g[i] is what the first  *)
(* i of them make up.                                                      *)
(***************************************************************************)
Joins(g, strings, S) ==
    /\ g \in [0 .. Len(strings) -> Seq(S)]
    /\ g[0] = << >>
    /\ \A i \in 1 .. Len(strings) : g[i] = g[i - 1] \o strings[i]

(***************************************************************************)
(* There is such a g.                                                      *)
(***************************************************************************)
LEMMA JoinsExists ==
    ASSUME NEW S, NEW strings \in Seq(Seq(S))
    PROVE  \E g : Joins(g, strings, S)
<1> DEFINE n == Len(strings)
           f == [i \in 1 .. n |-> [x \in Seq(S) |-> x \o strings[i]]]
<1>1. n \in Nat /\ \A i \in 1 .. n : strings[i] \in Seq(S)
  BY LenIsNat, ElementOfSeq
<1>2. f \in [1 .. n -> [Seq(S) -> Seq(S)]]
  BY <1>1, ConcatProperties
<1>3. << >> \in Seq(S)
  BY EmptySeq
<1>4. ASSUME NEW i \in 1 .. n, NEW x \in Seq(S) PROVE f[i][x] = x \o strings[i]
  OBVIOUS
<1> HIDE DEF n, f
<1>5. PICK g \in [0 .. n -> Seq(S)] : IsIteration(g, n, f, << >>)
  BY <1>1, <1>2, <1>3, Iterates, Zenon
<1>6. g[0] = << >> /\ \A i \in 1 .. n : g[i] = f[i][g[i - 1]]
  BY <1>5 DEF IsIteration
<1>7. ASSUME NEW i \in 1 .. n PROVE g[i] = g[i - 1] \o strings[i]
  <2>1. i - 1 \in 0 .. n
    BY <1>1
  <2>2. g[i - 1] \in Seq(S)
    BY <2>1, <1>5
  <2> QED
    BY <2>2, <1>4, <1>6
<1> QED
  BY <1>5, <1>6, <1>7 DEF Joins, n

(***************************************************************************)
(* All of them describe FlattenSeq.                                        *)
(***************************************************************************)
LEMMA FlattenJoins ==
    ASSUME NEW S, NEW strings \in Seq(Seq(S)), NEW g, Joins(g, strings, S)
    PROVE  FlattenSeq(strings) = g[Len(strings)]
<1> DEFINE n == Len(strings)
           Rule(h) == h = [i \in 1 .. n |-> IF i = 1 THEN strings[i] ELSE h[i - 1] \o strings[i]]
           flatten == CHOOSE h : Rule(h)
           joined == [i \in 1 .. n |-> g[i]]
<1>1. n \in Nat /\ \A i \in 1 .. n : strings[i] \in Seq(S)
  BY LenIsNat, ElementOfSeq
<1>2. g \in [0 .. n -> Seq(S)] /\ g[0] = << >> /\ \A i \in 1 .. n : g[i] = g[i - 1] \o strings[i]
  BY DEF Joins
<1>3. CASE n = 0
  <2>1. strings = << >>
    BY <1>3, EmptySeq
  <2> QED
    BY <2>1, <1>3, <1>2 DEF FlattenSeq
<1>4. CASE n # 0
  <2>1. FlattenSeq(strings) = flatten[n]
    BY <1>4, <1>1, Zenon DEF FlattenSeq
  <2>2. Rule(joined)
    <3>1. ASSUME NEW i \in 1 .. n
          PROVE  g[i] = IF i = 1 THEN strings[i] ELSE joined[i - 1] \o strings[i]
      <4>1. CASE i = 1
        <5>1. g[1] = << >> \o strings[1]
          <6>1. 1 \in 1 .. n /\ 1 - 1 = 0
            BY <4>1, <1>1
          <6>2. g[1] = g[1 - 1] \o strings[1]
            BY <6>1, <1>2
          <6> QED
            BY <6>1, <6>2, <1>2
        <5>2. << >> \o strings[1] = strings[1]
          BY <4>1, <1>1, ConcatEmptySeq
        <5> QED
          BY <4>1, <5>1, <5>2
      <4>2. CASE i # 1
        <5>1. i - 1 \in 1 .. n
          BY <4>2, <1>1
        <5> QED
          BY <4>2, <5>1, <1>2
      <4> QED
        BY <4>1, <4>2
    <3> QED
      BY <3>1
  <2>3. Rule(flatten)
    <3> HIDE DEF Rule, joined
    <3> QED
      BY <2>2, Zenon
  <2> HIDE DEF flatten
  <2> DEFINE same == {i \in 0 .. n : i # 0 => flatten[i] = g[i]}
  <2>4. 0 \in same
    BY <1>1
  <2>5. ASSUME NEW i \in same, i < n PROVE i + 1 \in same
    <3> DEFINE j == i + 1
    <3>1. i \in 0 .. n /\ (i # 0 => flatten[i] = g[i])
      OBVIOUS
    <3> HIDE DEF same
    <3>6. j \in 1 .. n /\ j - 1 = i /\ j # 0 /\ (j = 1 <=> i = 0) /\ j \in 0 .. n
      <4>1. n \in Nat /\ i \in 0 .. n /\ i < n
        BY <2>5, <3>1, <1>1
      <4> HIDE DEF n
      <4> QED
        BY <4>1
    <3> HIDE DEF j
    <3>2. flatten[j] = IF j = 1 THEN strings[j] ELSE flatten[j - 1] \o strings[j]
      BY <2>3, <3>6
    <3>3. g[j] = g[i] \o strings[j]
      BY <3>6, <1>2
    <3>4. << >> \o strings[j] = strings[j]
      BY <3>6, <1>1, ConcatEmptySeq
    <3>5. flatten[j] = g[j]
      BY <3>1, <3>2, <3>3, <3>4, <3>6, <1>2
    <3>7. j \in same
      BY <3>5, <3>6 DEF same
    <3> QED
      BY <3>7 DEF j
  <2>6. same = 0 .. n
    <3>1. same \in SUBSET (0 .. n)
      OBVIOUS
    <3> HIDE DEF same, n
    <3> QED
      BY <1>1, <2>4, <2>5, <3>1, BoundedInduction
  <2>7. n \in same
    <3> HIDE DEF same
    <3> QED
      BY <1>1, <2>6
  <2> QED
    BY <1>4, <2>1, <2>7
<1> QED
  BY <1>3, <1>4

(***************************************************************************)
(* Joining the bytes of strings gives a sequence of bytes.                 *)
(***************************************************************************)
LEMMA FlattenType ==
    ASSUME NEW S, NEW strings \in Seq(Seq(S))
    PROVE  FlattenSeq(strings) \in Seq(S)
<1>1. PICK g : Joins(g, strings, S)
  BY JoinsExists
<1>2. g[Len(strings)] \in Seq(S)
  BY <1>1, LenIsNat DEF Joins
<1> QED
  BY <1>1, <1>2, FlattenJoins

(***************************************************************************)
(* A string is added at the back: pushing.                                 *)
(***************************************************************************)
LEMMA FlattenAppend ==
    ASSUME NEW S, NEW strings \in Seq(Seq(S)), NEW s \in Seq(S)
    PROVE  FlattenSeq(Append(strings, s)) = FlattenSeq(strings) \o s
<1> DEFINE more == Append(strings, s)
           n == Len(strings)
<1>1. n \in Nat
  BY LenIsNat
<1>2. /\ more \in Seq(Seq(S)) /\ Len(more) = n + 1
      /\ \A i \in 1 .. n : more[i] = strings[i]
      /\ more[n + 1] = s
  BY AppendProperties
<1> HIDE DEF more, n
<1>3. PICK g : Joins(g, more, S)
  BY <1>2, JoinsExists
<1>4. g \in [0 .. n + 1 -> Seq(S)] /\ g[0] = << >> /\ \A i \in 1 .. n + 1 : g[i] = g[i - 1] \o more[i]
  BY <1>2, <1>3 DEF Joins
<1> DEFINE h == [i \in 0 .. n |-> g[i]]
<1>5. h \in [0 .. n -> Seq(S)] /\ h[0] = << >> /\ h[n] = g[n]
  BY <1>1, <1>4
<1>6. ASSUME NEW i \in 1 .. n PROVE h[i] = h[i - 1] \o strings[i]
  <2>1. i \in 0 .. n /\ i - 1 \in 0 .. n /\ i \in 1 .. n + 1
    BY <1>1
  <2> QED
    BY <2>1, <1>2, <1>4
<1> HIDE DEF h
<1>7. Joins(h, strings, S)
  BY <1>5, <1>6 DEF Joins, n
<1>8. FlattenSeq(strings) = g[n]
  BY <1>5, <1>7, FlattenJoins DEF n
<1>9. FlattenSeq(more) = g[n + 1]
  BY <1>2, <1>3, FlattenJoins
<1>10. g[n + 1] = g[n] \o s
  <2> DEFINE j == n + 1
  <2>1. j \in 1 .. n + 1 /\ j - 1 = n
    BY <1>1
  <2>2. more[j] = s
    BY <1>2
  <2> HIDE DEF j
  <2>3. g[j] = g[j - 1] \o more[j]
    BY <2>1, <1>4
  <2>4. g[j] = g[n] \o s
    BY <2>1, <2>2, <2>3
  <2> QED
    BY <2>4 DEF j
<1> QED
  BY <1>8, <1>9, <1>10 DEF more

(***************************************************************************)
(* A string is taken from the front: popping.                              *)
(***************************************************************************)
LEMMA FlattenTail ==
    ASSUME NEW S, NEW strings \in Seq(Seq(S)), strings # << >>
    PROVE  FlattenSeq(strings) = Head(strings) \o FlattenSeq(Tail(strings))
<1> DEFINE first == Head(strings)
           rest == Tail(strings)
           n == Len(rest)
<1>1. /\ first \in Seq(S) /\ rest \in Seq(Seq(S)) /\ n \in Nat /\ Len(strings) = n + 1
      /\ \A i \in 1 .. n : rest[i] = strings[i + 1]
      /\ strings[1] = first
  BY HeadTailProperties, LenIsNat, EmptySeq
<1> HIDE DEF first, rest
<1>2. PICK g : Joins(g, strings, S)
  BY JoinsExists
<1>3. PICK h : Joins(h, rest, S)
  BY <1>1, JoinsExists
<1>4. g \in [0 .. n + 1 -> Seq(S)] /\ g[0] = << >> /\ \A i \in 1 .. n + 1 : g[i] = g[i - 1] \o strings[i]
  BY <1>1, <1>2 DEF Joins
<1>5. h \in [0 .. n -> Seq(S)] /\ h[0] = << >> /\ \A i \in 1 .. n : h[i] = h[i - 1] \o rest[i]
  BY <1>3 DEF Joins
<1> DEFINE same == {i \in 0 .. n : g[i + 1] = first \o h[i]}
<1>6. 0 \in same
  <2>1. g[1] = << >> \o first
    <3>1. 1 \in 1 .. n + 1 /\ 1 - 1 = 0
      BY <1>1
    <3>2. g[1] = g[1 - 1] \o strings[1]
      BY <3>1, <1>4
    <3>3. g[1 - 1] = << >>
      BY <3>1, <1>4
    <3>4. strings[1] = first
      BY <1>1
    <3> QED
      BY <3>2, <3>3, <3>4
  <2>2. << >> \o first = first /\ first \o << >> = first
    BY <1>1, ConcatEmptySeq
  <2> QED
    BY <2>1, <2>2, <1>1, <1>5
<1>7. ASSUME NEW i \in same, i < n PROVE i + 1 \in same
  <2> DEFINE j == i + 1
             k == j + 1
  <2>1. i \in 0 .. n /\ g[j] = first \o h[i]
    OBVIOUS
  <2> HIDE DEF same
  <2>2. j \in 1 .. n /\ j - 1 = i /\ j \in 0 .. n /\ k \in 1 .. n + 1 /\ k - 1 = j
    BY <1>1, <1>7, <2>1
  <2> DEFINE a == h[i]
             b == rest[j]
  <2>3. k = j + 1
    OBVIOUS
  <2> HIDE DEF j, k
  <2>4. first \in Seq(S) /\ a \in Seq(S) /\ b \in Seq(S)
    BY <2>1, <2>2, <1>1, <1>5, ElementOfSeq
  <2>5. g[k] = g[j] \o strings[k]
    BY <2>2, <1>4
  <2>6. h[j] = a \o b /\ b = strings[k]
    <3>1. h[j] = h[j - 1] \o rest[j]
      BY <2>2, <1>5
    <3>2. rest[j] = strings[j + 1]
      BY <2>2, <1>1
    <3>3. h[j] = h[i] \o rest[j]
      BY <2>2, <3>1
    <3>4. rest[j] = strings[k]
      BY <2>3, <3>2
    <3> QED
      BY <3>3, <3>4
  <2> HIDE DEF a, b
  <2>7. (first \o a) \o b = first \o (a \o b)
    <3>1. ASSUME NEW x \in Seq(S), NEW y \in Seq(S), NEW z \in Seq(S)
          PROVE  (x \o y) \o z = x \o (y \o z)
      BY ConcatAssociative
    <3> QED
      BY <2>4, <3>1
  <2>8. g[j] = first \o a
    BY <2>1 DEF a
  <2>9. g[k] = first \o h[j]
    BY <2>5, <2>6, <2>7, <2>8
  <2>10. j \in same
    BY <2>2, <2>3, <2>9 DEF same
  <2> QED
    BY <2>10 DEF j
<1>8. same = 0 .. n
  <2>1. same \in SUBSET (0 .. n)
    OBVIOUS
  <2> HIDE DEF same, n
  <2> QED
    BY <1>1, <1>6, <1>7, <2>1, BoundedInduction
<1>9. n \in same
  <2> HIDE DEF same
  <2> QED
    BY <1>1, <1>8
<1>10. FlattenSeq(strings) = g[n + 1] /\ FlattenSeq(rest) = h[n]
  BY <1>1, <1>2, <1>3, FlattenJoins
<1> QED
  BY <1>9, <1>10 DEF first, rest

(***************************************************************************)
(* Without strings there are no bytes.                                     *)
(***************************************************************************)
LEMMA FlattenNone ==
    FlattenSeq(<< >>) = << >>
BY DEF FlattenSeq

-----------------------------------------------------------------------------
(***************************************************************************)
(* A deque whose strings are not used up, the front one's prefix included, *)
(* and the bytes it has yet to give.                                       *)
(***************************************************************************)
SoundDeque(chunks, prefix) ==
    /\ chunks \in Seq(Seq(Byte)) /\ prefix \in Nat
    /\ \A i \in DOMAIN chunks : chunks[i] # << >>
    /\ IF chunks = << >> THEN prefix = 0 ELSE prefix < Len(Head(chunks))

Rest(chunks, prefix) == After(FlattenSeq(chunks), prefix)

(***************************************************************************)
(* The front string of a deque and the strings behind it.                  *)
(***************************************************************************)
LEMMA DequeFront ==
    ASSUME NEW chunks, NEW prefix, SoundDeque(chunks, prefix), chunks # << >>
    PROVE  LET head == Head(chunks)
               tail == Tail(chunks)
           IN  /\ head \in Seq(Byte) /\ tail \in Seq(Seq(Byte))
               /\ prefix \in Nat /\ Len(head) \in Nat /\ prefix < Len(head)
               /\ SoundDeque(tail, 0)
               /\ FlattenSeq(tail) \in Seq(Byte) /\ Rest(tail, 0) = FlattenSeq(tail)
               /\ After(head, prefix) \in Seq(Byte)
               /\ Len(After(head, prefix)) = Len(head) - prefix
               /\ Rest(chunks, prefix) = After(head, prefix) \o FlattenSeq(tail)
               /\ Len(tail) = Len(chunks) - 1
<1> DEFINE head == Head(chunks)
           tail == Tail(chunks)
<1>1. /\ chunks \in Seq(Seq(Byte)) /\ prefix \in Nat /\ prefix < Len(head)
      /\ \A i \in DOMAIN chunks : chunks[i] # << >>
  BY DEF SoundDeque
<1>2. /\ head \in Seq(Byte) /\ tail \in Seq(Seq(Byte)) /\ Len(tail) = Len(chunks) - 1
      /\ \A i \in 1 .. Len(tail) : tail[i] = chunks[i + 1]
  BY <1>1, HeadTailProperties
<1>3. Len(head) \in Nat /\ prefix \in 0 .. Len(head) /\ Len(tail) \in Nat /\ Len(chunks) \in Nat
  BY <1>1, <1>2, LenIsNat
<1>4. SoundDeque(tail, 0)
  <2>1. DOMAIN tail = 1 .. Len(tail) /\ DOMAIN chunks = 1 .. Len(chunks)
    BY <1>1, <1>2, LenProperties
  <2>2. ASSUME NEW i \in DOMAIN tail PROVE tail[i] # << >>
    <3>1. i + 1 \in DOMAIN chunks /\ tail[i] = chunks[i + 1]
      BY <2>1, <1>2, <1>3
    <3> QED
      BY <3>1, <1>1
  <2>3. ASSUME tail # << >> PROVE 0 < Len(Head(tail))
    <3>1. 1 \in DOMAIN tail /\ Head(tail) = tail[1] /\ Head(tail) \in Seq(Byte)
      BY <2>1, <2>3, <1>2, <1>3, HeadTailProperties, EmptySeq
    <3>2. Head(tail) # << >>
      BY <3>1, <2>2
    <3> QED
      BY <3>1, <3>2, EmptySeq
  <2> HIDE DEF tail
  <2> QED
    BY <1>2, <2>2, <2>3 DEF SoundDeque
<1>5. FlattenSeq(tail) \in Seq(Byte) /\ FlattenSeq(chunks) = head \o FlattenSeq(tail)
  BY <1>1, <1>2, FlattenType, FlattenTail
<1> HIDE DEF head, tail
<1>6. Rest(tail, 0) = FlattenSeq(tail)
  BY <1>5, AfterNone DEF Rest
<1>7. After(head, prefix) \in Seq(Byte) /\ Len(After(head, prefix)) = Len(head) - prefix
  BY <1>2, <1>3, AfterType
<1>8. Rest(chunks, prefix) = After(head, prefix) \o FlattenSeq(tail)
  <2>1. After(head \o FlattenSeq(tail), prefix) = After(head, prefix) \o FlattenSeq(tail)
    BY <1>2, <1>3, <1>5, AfterInConcat
  <2> QED
    BY <2>1, <1>5 DEF Rest
<1> QED
  BY <1>1, <1>2, <1>3, <1>4, <1>5, <1>6, <1>7, <1>8 DEF head, tail

(***************************************************************************)
(* The bytes a deque has yet to give, and how many.                        *)
(***************************************************************************)
LEMMA DequeRest ==
    ASSUME NEW chunks, NEW prefix, SoundDeque(chunks, prefix)
    PROVE  /\ FlattenSeq(chunks) \in Seq(Byte) /\ Len(FlattenSeq(chunks)) \in Nat
           /\ prefix \in 0 .. Len(FlattenSeq(chunks))
           /\ Rest(chunks, prefix) \in Seq(Byte) /\ Len(Rest(chunks, prefix)) \in Nat
           /\ Len(FlattenSeq(chunks)) = prefix + Len(Rest(chunks, prefix))
           /\ chunks = << >> => Rest(chunks, prefix) = << >>
           /\ chunks # << >> => Rest(chunks, prefix) # << >>
<1> DEFINE all == FlattenSeq(chunks)
<1>1. chunks \in Seq(Seq(Byte)) /\ prefix \in Nat
  BY DEF SoundDeque
<1>2. all \in Seq(Byte) /\ Len(all) \in Nat
  BY <1>1, FlattenType, LenIsNat
<1>3. chunks = << >> => prefix = 0 /\ all = << >>
  BY FlattenNone DEF SoundDeque
<1>4. chunks # << >> => prefix < Len(all)
  <2> HAVE chunks # << >>
  <2> DEFINE head == Head(chunks)
             back == FlattenSeq(Tail(chunks))
  <2>1. head \in Seq(Byte) /\ back \in Seq(Byte) /\ prefix < Len(head)
    BY DequeFront
  <2>2. all = head \o back
    BY <1>1, FlattenTail
  <2> HIDE DEF head, back, all
  <2>3. Len(all) = Len(head) + Len(back) /\ Len(head) \in Nat /\ Len(back) \in Nat
    BY <2>1, <2>2, ConcatProperties, LenIsNat
  <2> QED
    BY <1>1, <2>1, <2>3
<1>5. prefix \in 0 .. Len(all)
  <2>1. CASE chunks = << >>
    BY <2>1, <1>2, <1>3, <1>1
  <2>2. CASE chunks # << >>
    <3> HIDE DEF all
    <3> QED
      BY <2>2, <1>1, <1>2, <1>4
  <2> QED
    BY <2>1, <2>2
<1>6. After(all, prefix) \in Seq(Byte) /\ Len(After(all, prefix)) = Len(all) - prefix
  BY <1>2, <1>5, AfterType
<1>7. Rest(chunks, prefix) = After(all, prefix)
  BY DEF Rest
<1> HIDE DEF all
<1>8. Len(all) = prefix + Len(Rest(chunks, prefix)) /\ Len(Rest(chunks, prefix)) \in Nat
  BY <1>2, <1>5, <1>6, <1>7
<1>9. chunks = << >> => Rest(chunks, prefix) = << >>
  <2> HAVE chunks = << >>
  <2>1. all = << >> /\ prefix = Len(all)
    BY <1>3, EmptySeq
  <2> QED
    BY <2>1, <1>2, <1>7, AfterAll
<1>10. chunks # << >> => Rest(chunks, prefix) # << >>
  <2> HAVE chunks # << >>
  <2>1. Len(Rest(chunks, prefix)) > 0
    BY <1>1, <1>2, <1>4, <1>8
  <2> QED
    BY <2>1, EmptySeq
<1> QED
  BY <1>2, <1>5, <1>6, <1>7, <1>8, <1>9, <1>10 DEF all

-----------------------------------------------------------------------------
(***************************************************************************)
(* Reader::pop between two turns: the bytes that will be left in the end.  *)
(***************************************************************************)
Popping(rest) ==
    {p \in [chunks : Seq(Seq(Byte)), prefix : Nat, len : Nat] :
        /\ SoundDeque(p.chunks, p.prefix)
        /\ p.len <= Len(Rest(p.chunks, p.prefix))
        /\ After(Rest(p.chunks, p.prefix), p.len) = rest}

(***************************************************************************)
(* A turn of the loop of pop leaves a sound deque and the same bytes to be *)
(* left in the end, and either it is the last or it takes a string off.    *)
(***************************************************************************)
LEMMA PopOnceKeeps ==
    ASSUME NEW rest, NEW p \in Popping(rest)
    PROVE  /\ PopOnce(p) \in Popping(rest)
           /\ p.len = 0 => PopOnce(p) = p
           /\ p.len # 0 => p.chunks # << >>
           /\ p.len # 0 => \/ PopOnce(p).len = 0 /\ PopOnce(p).chunks = p.chunks
                                /\ p.len < Len(Head(p.chunks)) - p.prefix
                           \/ PopOnce(p).chunks = Tail(p.chunks)
                                /\ PopOnce(p).len = p.len - (Len(Head(p.chunks)) - p.prefix)
<1> DEFINE chunks == p.chunks
           prefix == p.prefix
           len    == p.len
           bytes  == Rest(chunks, prefix)
<1>1. /\ p = [chunks |-> chunks, prefix |-> prefix, len |-> len]
      /\ chunks \in Seq(Seq(Byte)) /\ prefix \in Nat /\ len \in Nat
      /\ SoundDeque(chunks, prefix) /\ len <= Len(bytes) /\ After(bytes, len) = rest
  BY DEF Popping
<1>2. bytes \in Seq(Byte) /\ Len(bytes) \in Nat /\ FlattenSeq(chunks) \in Seq(Byte)
      /\ Len(FlattenSeq(chunks)) = prefix + Len(bytes)
  BY <1>1, DequeRest
<1>3. CASE len = 0
  BY <1>3 DEF PopOnce
<1>4. CASE len # 0
  <2> DEFINE head == Head(chunks)
             tail == Tail(chunks)
             sz == Len(head) - prefix
             front == After(head, prefix)
             back == FlattenSeq(tail)
  <2>1. chunks # << >>
    <3>1. bytes # << >>
      BY <1>1, <1>2, <1>4, EmptySeq
    <3> QED
      BY <3>1, <1>1, DequeRest
  <2>2. /\ head \in Seq(Byte) /\ tail \in Seq(Seq(Byte)) /\ Len(head) \in Nat /\ prefix < Len(head)
        /\ SoundDeque(tail, 0) /\ back \in Seq(Byte) /\ Rest(tail, 0) = back
        /\ front \in Seq(Byte) /\ Len(front) = sz /\ bytes = front \o back
    BY <1>1, <2>1, DequeFront
  <2>3. sz \in Nat /\ sz > 0
    BY <1>1, <2>2
  <2>4. CASE len < sz
    <3> DEFINE further == prefix + len
               q == [chunks |-> chunks, prefix |-> further, len |-> 0]
    <3>1. PopOnce(p) = q
      BY <1>1, <1>4, <2>4 DEF PopOnce
    <3>2. further \in Nat /\ further < Len(head)
      BY <1>1, <2>2, <2>4
    <3>3. SoundDeque(chunks, further)
      BY <1>1, <2>1, <3>2 DEF SoundDeque
    <3>4. Rest(chunks, further) = rest
      <4>1. prefix + len <= Len(FlattenSeq(chunks))
        BY <1>1, <1>2
      <4>2. After(After(FlattenSeq(chunks), prefix), len) = After(FlattenSeq(chunks), prefix + len)
        BY <1>1, <1>2, <4>1, AfterTwice
      <4> QED
        BY <4>2, <1>1 DEF Rest
    <3> HIDE DEF further
    <3>5. Rest(chunks, further) \in Seq(Byte) /\ Len(Rest(chunks, further)) \in Nat
      BY <3>3, DequeRest
    <3>6. After(Rest(chunks, further), 0) = rest /\ 0 <= Len(Rest(chunks, further))
      BY <3>4, <3>5, AfterNone
    <3>7. q \in Popping(rest)
      BY <1>1, <3>2, <3>3, <3>6 DEF Popping
    <3> QED
      BY <1>4, <2>1, <2>4, <3>1, <3>7
  <2>5. CASE ~(len < sz)
    <3> DEFINE left == len - sz
               q == [chunks |-> tail, prefix |-> 0, len |-> left]
    <3>1. PopOnce(p) = q
      BY <1>1, <1>4, <2>5 DEF PopOnce
    <3>2. left \in Nat /\ sz + left = len
      <4>1. len \in Nat /\ sz \in Nat /\ sz <= len
        BY <1>1, <2>3, <2>5
      <4> HIDE DEF len, sz
      <4> QED
        BY <4>1
    <3> HIDE DEF left
    <3>3. After(bytes, sz) = back
      <4>1. After(front \o back, Len(front)) = back
        BY <2>2, PartsOfConcat
      <4> QED
        BY <4>1, <2>2
    <3>4. After(After(bytes, sz), left) = After(bytes, sz + left)
      <4>1. sz + left <= Len(bytes)
        BY <1>1, <3>2
      <4> HIDE DEF sz, bytes
      <4> QED
        BY <1>2, <2>3, <3>2, <4>1, AfterTwice
    <3>5. After(back, left) = rest
      BY <1>1, <3>2, <3>3, <3>4
    <3>6. left <= Len(back)
      <4>1. Len(bytes) = sz + Len(back) /\ Len(back) \in Nat
        BY <2>2, ConcatProperties, LenIsNat
      <4> HIDE DEF sz, bytes, back
      <4> QED
        BY <1>1, <1>2, <2>3, <3>2, <4>1
    <3>7. q \in Popping(rest)
      BY <2>2, <3>2, <3>5, <3>6 DEF Popping
    <3>8. q.chunks = tail /\ q.len = len - sz
      BY DEF left
    <3> QED
      BY <1>4, <2>1, <3>1, <3>7, <3>8
  <2> QED
    BY <2>4, <2>5
<1> QED
  BY <1>3, <1>4

(***************************************************************************)
(* What a call of pop starts with.                                         *)
(***************************************************************************)
Start(c, len) == [chunks |-> c.chunks, prefix |-> c.prefix, len |-> len]

(***************************************************************************)
(* The buffered bytes: a sound deque and the count of what it has to give. *)
(***************************************************************************)
RestOf(c) == Rest(c.chunks, c.prefix)

SoundContents(c) ==
    /\ c \in [chunks : Seq(Seq(Byte)), prefix : Nat, buffered : Nat]
    /\ SoundDeque(c.chunks, c.prefix)
    /\ Len(RestOf(c)) = c.buffered

(***************************************************************************)
(* The loop of pop, turn by turn.                                          *)
(***************************************************************************)
LEMMA PopTurnsUnfold ==
    ASSUME NEW c, SoundContents(c), NEW len \in 0 .. c.buffered
    PROVE  LET rest == After(RestOf(c), len)
               T == PopTurns(c, len)
               n == Len(c.chunks)
           IN  /\ n \in Nat
               /\ T[0] = Start(c, len)
               /\ \A i \in 1 .. n : T[i] = PopOnce(T[i - 1])
               /\ \A i \in 0 .. n : T[i] \in Popping(rest)
<1> DEFINE rest == After(RestOf(c), len)
           T == PopTurns(c, len)
           n == Len(c.chunks)
           start == Start(c, len)
           P == Popping(rest)
           f == [i \in 1 .. n |-> [p \in P |-> PopOnce(p)]]
<1>1. c.chunks \in Seq(Seq(Byte)) /\ c.prefix \in Nat /\ c.buffered \in Nat /\ n \in Nat
  BY LenIsNat DEF SoundContents
<1>2. start \in P
  <2>1. len \in Nat /\ len <= Len(RestOf(c))
    BY <1>1 DEF SoundContents
  <2> QED
    BY <1>1, <2>1 DEF Popping, Start, SoundContents, RestOf
<1>3. ASSUME NEW p \in P PROVE PopOnce(p) \in P
  BY PopOnceKeeps
<1> HIDE DEF P, start
<1>4. f \in [1 .. n -> [P -> P]]
  BY <1>3
<1>5. ASSUME NEW i \in 1 .. n, NEW p \in P PROVE f[i][p] = PopOnce(p)
  OBVIOUS
<1> HIDE DEF n, f
<1>6. PICK g \in [0 .. n -> P] : IsIteration(g, n, f, start)
  BY <1>1, <1>2, <1>4, Iterates, Zenon
<1>7. g[0] = start /\ \A i \in 1 .. n : g[i] = f[i][g[i - 1]]
  BY <1>6 DEF IsIteration
<1>8. ASSUME NEW i \in 1 .. n PROVE g[i] = PopOnce(g[i - 1])
  <2>1. g[i - 1] \in P
    BY <1>1, <1>6
  <2> QED
    BY <1>5, <1>7, <2>1
<1>9. g = [i \in 0 .. n |-> IF i = 0 THEN start ELSE PopOnce(g[i - 1])]
  <2>1. \A i \in 0 .. n : g[i] = IF i = 0 THEN start ELSE PopOnce(g[i - 1])
    BY <1>1, <1>7, <1>8
  <2> QED
    BY <1>6, <2>1
<1>10. T = [i \in 0 .. n |-> IF i = 0 THEN start ELSE PopOnce(T[i - 1])]
  BY <1>9, Zenon DEF PopTurns, n, start, Start
<1> HIDE DEF T
<1>11. T[0] = start /\ \A i \in 1 .. n : T[i] = PopOnce(T[i - 1])
  BY <1>1, <1>10
<1> DEFINE kept == {i \in 0 .. n : T[i] \in P}
<1>12. 0 \in kept
  BY <1>1, <1>2, <1>11
<1>13. ASSUME NEW i \in kept, i < n PROVE i + 1 \in kept
  <2>1. i + 1 \in 1 .. n /\ (i + 1) - 1 = i /\ i + 1 \in 0 .. n
    BY <1>1, <1>13
  <2>2. T[i + 1] = PopOnce(T[i])
    BY <1>11, <2>1
  <2> QED
    BY <1>3, <2>1, <2>2
<1>14. kept = 0 .. n
  <2>1. kept \in SUBSET (0 .. n)
    OBVIOUS
  <2> HIDE DEF kept
  <2> QED
    BY <1>1, <1>12, <1>13, <2>1, BoundedInduction
<1>15. \A i \in 0 .. n : T[i] \in P
  BY <1>14
<1> QED
  BY <1>1, <1>11, <1>15 DEF P, T, n, start

(***************************************************************************)
(* As many turns as there are strings use up all that was to be popped.    *)
(***************************************************************************)
LEMMA PopTurnsEnough ==
    ASSUME NEW c, SoundContents(c), NEW len \in 0 .. c.buffered
    PROVE  LET last == PopTurns(c, len)[Len(c.chunks)]
           IN  last \in Popping(After(RestOf(c), len)) /\ last.len = 0
<1> DEFINE rest == After(RestOf(c), len)
           T == PopTurns(c, len)
           n == Len(c.chunks)
           P == Popping(rest)
<1>1. /\ n \in Nat
      /\ T[0] = Start(c, len)
      /\ \A i \in 1 .. n : T[i] = PopOnce(T[i - 1])
      /\ \A i \in 0 .. n : T[i] \in P
  BY PopTurnsUnfold
<1>2. ASSUME NEW p \in P
      PROVE  /\ p.chunks \in Seq(Seq(Byte)) /\ Len(p.chunks) \in Nat
             /\ p.len = 0 => PopOnce(p).len = 0
             /\ p.len # 0 => p.chunks # << >>
             /\ PopOnce(p).len = 0 \/ Len(PopOnce(p).chunks) = Len(p.chunks) - 1
  <2>1. p.chunks \in Seq(Seq(Byte)) /\ Len(p.chunks) \in Nat
    BY LenIsNat DEF Popping
  <2>2. /\ p.len = 0 => PopOnce(p) = p
        /\ p.len # 0 => p.chunks # << >>
        /\ p.len # 0 => PopOnce(p).len = 0 \/ PopOnce(p).chunks = Tail(p.chunks)
    BY PopOnceKeeps
  <2>3. p.chunks # << >> => Len(Tail(p.chunks)) = Len(p.chunks) - 1
    BY <2>1, HeadTailProperties
  <2> QED
    BY <2>1, <2>2, <2>3
<1>3. T[0].chunks = c.chunks
  BY <1>1 DEF Start
<1> HIDE DEF T, P
<1> DEFINE near == {i \in 0 .. n : T[i].len = 0 \/ Len(T[i].chunks) = n - i}
<1>4. 0 \in near
  BY <1>1, <1>3
<1> HIDE DEF n
<1>5. ASSUME NEW i \in near, i < n PROVE i + 1 \in near
  <2> DEFINE j == i + 1
             p == T[i]
  <2>1. i \in 0 .. n /\ (p.len = 0 \/ Len(p.chunks) = n - i)
    OBVIOUS
  <2> HIDE DEF near
  <2>2. j \in 1 .. n /\ j - 1 = i /\ j \in 0 .. n
    BY <1>1, <1>5, <2>1
  <2> HIDE DEF j
  <2>3. T[j] = PopOnce(p) /\ p \in P
    BY <1>1, <2>1, <2>2
  <2> HIDE DEF p
  <2>4. T[j].len = 0 \/ Len(T[j].chunks) = n - j
    <3>1. CASE p.len = 0
      BY <3>1, <2>3, <1>2
    <3>2. CASE p.len # 0
      <4>1. Len(p.chunks) = n - i
        BY <3>2, <2>1
      <4>2. T[j].len = 0 \/ Len(T[j].chunks) = Len(p.chunks) - 1
        BY <2>3, <1>2
      <4>3. (n - i) - 1 = n - j
        BY <1>1, <2>1, <2>2
      <4> QED
        BY <4>1, <4>2, <4>3
    <3> QED
      BY <3>1, <3>2
  <2>5. j \in near
    BY <2>2, <2>4 DEF near
  <2> QED
    BY <2>5 DEF j
<1>6. near = 0 .. n
  <2>1. near \in SUBSET (0 .. n)
    BY DEF near
  <2> HIDE DEF near
  <2> QED
    BY <1>1, <1>4, <1>5, <2>1, BoundedInduction
<1>7. n \in near
  <2> HIDE DEF near
  <2> QED
    BY <1>1, <1>6
<1>8. T[n] \in P
  BY <1>1
<1>9. T[n].len = 0
  <2> SUFFICES ASSUME T[n].len # 0 PROVE FALSE
    OBVIOUS
  <2>1. Len(T[n].chunks) = 0
    BY <1>7, <1>1
  <2>2. T[n].chunks # << >> /\ T[n].chunks \in Seq(Seq(Byte))
    BY <1>2, <1>8
  <2> QED
    BY <2>1, <2>2, EmptySeq
<1> QED
  BY <1>8, <1>9 DEF T, P, n

(***************************************************************************)
(* Reader::pop takes exactly the oldest len bytes off and leaves a sound   *)
(* deque.                                                                  *)
(***************************************************************************)
LEMMA PopFromSound ==
    ASSUME NEW c, SoundContents(c), NEW len \in 0 .. c.buffered
    PROVE  /\ SoundContents(PopFrom(c, len))
           /\ RestOf(PopFrom(c, len)) = After(RestOf(c), len)
           /\ PopFrom(c, len).buffered = c.buffered - len
<1> DEFINE last == PopTurns(c, len)[Len(c.chunks)]
           rest == After(RestOf(c), len)
           d == PopFrom(c, len)
<1>1. last \in Popping(rest) /\ last.len = 0
  BY PopTurnsEnough
<1>2. d = [chunks |-> last.chunks, prefix |-> last.prefix, buffered |-> c.buffered - len]
  BY Zenon DEF PopFrom
<1>3. c.buffered \in Nat /\ RestOf(c) \in Seq(Byte) /\ Len(RestOf(c)) = c.buffered
  BY DequeRest DEF SoundContents, RestOf
<1> HIDE DEF last, d
<1>4. rest \in Seq(Byte) /\ Len(rest) = c.buffered - len
  BY <1>3, AfterType
<1>5. /\ SoundDeque(last.chunks, last.prefix)
      /\ last.chunks \in Seq(Seq(Byte)) /\ last.prefix \in Nat
      /\ After(Rest(last.chunks, last.prefix), 0) = rest
  BY <1>1 DEF Popping
<1>6. Rest(last.chunks, last.prefix) = rest
  <2>1. Rest(last.chunks, last.prefix) \in Seq(Byte)
    BY <1>5, DequeRest
  <2> QED
    BY <1>5, <2>1, AfterNone
<1>7. d.chunks = last.chunks /\ d.prefix = last.prefix /\ d.buffered = c.buffered - len
  BY <1>2
<1>8. d \in [chunks : Seq(Seq(Byte)), prefix : Nat, buffered : Nat]
  <2>1. c.buffered - len \in Nat
    BY <1>3
  <2> QED
    BY <1>2, <1>5, <2>1
<1>9. RestOf(d) = rest
  BY <1>6, <1>7 DEF RestOf
<1>10. SoundContents(d)
  BY <1>4, <1>5, <1>7, <1>8, <1>9 DEF SoundContents
<1> QED
  BY <1>7, <1>9, <1>10 DEF d

-----------------------------------------------------------------------------
(***************************************************************************)
(* Reader::peek returns the front of the unread bytes, and something while *)
(* there is any.                                                           *)
(***************************************************************************)
LEMMA PeekIsFront ==
    ASSUME NEW c, SoundContents(c)
    PROVE  /\ Peek(c) \in Seq(Byte) /\ Len(Peek(c)) \in Nat /\ Len(Peek(c)) <= c.buffered
           /\ c.buffered # 0 => Peek(c) # << >>
           /\ \A k \in 0 .. Len(Peek(c)) : SubSeq(Peek(c), 1, k) = SubSeq(RestOf(c), 1, k)
<1> DEFINE chunks == c.chunks
           prefix == c.prefix
           bytes == RestOf(c)
           view == Peek(c)
<1>1. /\ SoundDeque(chunks, prefix) /\ c.buffered \in Nat /\ Len(bytes) = c.buffered
      /\ bytes \in Seq(Byte)
      /\ chunks = << >> => bytes = << >>
  BY DequeRest DEF SoundContents, RestOf
<1>2. CASE c.buffered = 0
  <2>1. view = << >>
    BY <1>2 DEF Peek
  <2>2. \A k \in 0 .. 0 : SubSeq(view, 1, k) = << >> /\ SubSeq(bytes, 1, k) = << >>
    BY SubSeqEmpty
  <2> HIDE DEF view, bytes
  <2>3. view \in Seq(Byte) /\ Len(view) = 0
    BY <2>1, EmptySeq
  <2> QED
    BY <1>2, <2>2, <2>3 DEF view, bytes
<1>3. CASE c.buffered # 0
  <2> DEFINE back == FlattenSeq(Tail(chunks))
  <2>1. chunks # << >>
    BY <1>1, <1>3, EmptySeq
  <2>2. /\ After(Head(chunks), prefix) \in Seq(Byte) /\ back \in Seq(Byte)
        /\ Len(After(Head(chunks), prefix)) = Len(Head(chunks)) - prefix
        /\ prefix < Len(Head(chunks)) /\ prefix \in Nat /\ Len(Head(chunks)) \in Nat
        /\ Rest(chunks, prefix) = After(Head(chunks), prefix) \o back
    BY <1>1, <2>1, DequeFront
  <2>3. view = After(Head(chunks), prefix)
    BY <1>3 DEF Peek, After
  <2>4. /\ view \in Seq(Byte) /\ Len(view) \in Nat /\ Len(view) > 0
        /\ bytes = view \o back
    BY <2>2, <2>3, LenIsNat DEF RestOf
  <2> HIDE DEF view, bytes, back
  <2>5. Len(view) <= c.buffered
    <3>1. Len(bytes) = Len(view) + Len(back) /\ Len(back) \in Nat
      BY <2>2, <2>4, ConcatProperties, LenIsNat
    <3> QED
      BY <1>1, <2>4, <3>1
  <2>6. view # << >>
    BY <2>4, EmptySeq
  <2>7. ASSUME NEW k \in 0 .. Len(view) PROVE SubSeq(view, 1, k) = SubSeq(bytes, 1, k)
    <3>1. CASE k = 0
      BY <3>1, SubSeqEmpty
    <3>2. CASE k # 0
      <4>1. 1 \in 1 .. Len(view) /\ k \in 1 .. Len(view)
        BY <2>4, <3>2
      <4>2. SubSeq(view \o back, 1, k) = SubSeq(view, 1, k)
        BY <2>2, <2>4, <4>1, SubSeqOfConcat1
      <4> QED
        BY <2>4, <4>2
    <3> QED
      BY <3>1, <3>2
  <2> QED
    BY <2>4, <2>5, <2>6, <2>7 DEF view, bytes
<1> QED
  BY <1>2, <1>3

(***************************************************************************)
(* read() between two turns: what it has got and what is left make up what *)
(* there was.                                                              *)
(***************************************************************************)
Reading(all) ==
    {r \in [left : [chunks : Seq(Seq(Byte)), prefix : Nat, buffered : Nat], got : Seq(Byte)] :
        /\ SoundContents(r.left)
        /\ r.got \o RestOf(r.left) = all}

(***************************************************************************)
(* A turn of the loop of read() keeps it so.                               *)
(***************************************************************************)
LEMMA ReadOnceKeeps ==
    ASSUME NEW all, NEW r \in Reading(all), NEW len \in Nat
    PROVE  ReadOnce(r, len) \in Reading(all)
<1> DEFINE view == Peek(r.left)
           k    == Lesser(len - Len(r.got), Len(view))
           part == SubSeq(view, 1, k)
           after == PopFrom(r.left, Len(part))
           bytes == RestOf(r.left)
           got == r.got
<1>1. got \in Seq(Byte) /\ SoundContents(r.left) /\ got \o bytes = all
  BY DEF Reading
<1>2. /\ view \in Seq(Byte) /\ Len(view) \in Nat /\ Len(view) <= r.left.buffered
      /\ \A i \in 0 .. Len(view) : SubSeq(view, 1, i) = SubSeq(bytes, 1, i)
  BY <1>1, PeekIsFront
<1>3. bytes \in Seq(Byte) /\ Len(bytes) = r.left.buffered /\ r.left.buffered \in Nat
  BY <1>1, DequeRest DEF SoundContents, RestOf
<1>4. CASE r.left.buffered = 0 \/ Len(got) >= len \/ view = << >>
  BY <1>4 DEF ReadOnce
<1>5. CASE ~(r.left.buffered = 0 \/ Len(got) >= len \/ view = << >>)
  <2>1. k \in 0 .. Len(view)
    <3>1. Len(got) \in Nat
      BY <1>1, LenIsNat
    <3>2. ~(Len(got) >= len)
      BY <1>5
    <3> DEFINE held == Len(got)
               most == Len(view)
    <3>3. k = Lesser(len - held, most)
      OBVIOUS
    <3>4. held \in Nat /\ held < len /\ most \in Nat
      BY <1>2, <3>1, <3>2
    <3> HIDE DEF held, most, k
    <3>5. k \in 0 .. most
      BY <3>3, <3>4 DEF Lesser
    <3> QED
      BY <3>5 DEF most
  <2>2. ReadOnce(r, len) = [left |-> after, got |-> got \o part]
    BY <1>5 DEF ReadOnce
  <2> HIDE DEF view, k, bytes, got
  <2>3. part \in Seq(Byte) /\ Len(part) = k
    BY <1>2, <2>1, PrefixProperties
  <2>4. part = SubSeq(bytes, 1, k) /\ k \in 0 .. Len(bytes) /\ k \in 0 .. r.left.buffered
    BY <1>2, <1>3, <2>1
  <2> HIDE DEF part
  <2>5. SoundContents(PopFrom(r.left, k)) /\ RestOf(PopFrom(r.left, k)) = After(RestOf(r.left), k)
    BY <1>1, <2>4, PopFromSound
  <2>6. SoundContents(after) /\ RestOf(after) = After(bytes, k)
    BY <2>3, <2>5 DEF bytes
  <2> HIDE DEF after
  <2>7. After(bytes, k) \in Seq(Byte) /\ part \o After(bytes, k) = bytes
    BY <1>3, <2>4, AfterType, PrefixAndRest
  <2>8. (got \o part) \o RestOf(after) = all
    <3> DEFINE rest == After(bytes, k)
    <3>1. ASSUME NEW x \in Seq(Byte), NEW y \in Seq(Byte), NEW z \in Seq(Byte)
          PROVE  (x \o y) \o z = x \o (y \o z)
      BY ConcatAssociative
    <3>2. rest \in Seq(Byte) /\ part \o rest = bytes /\ RestOf(after) = rest
      BY <2>6, <2>7
    <3> HIDE DEF rest
    <3>3. (got \o part) \o rest = got \o (part \o rest)
      BY <1>1, <2>3, <3>1, <3>2
    <3> QED
      BY <1>1, <3>2, <3>3
  <2>9. got \o part \in Seq(Byte)
    BY <1>1, <2>3, ConcatProperties
  <2>10. after \in [chunks : Seq(Seq(Byte)), prefix : Nat, buffered : Nat]
    BY <2>6 DEF SoundContents
  <2> DEFINE q == ReadOnce(r, len)
  <2>11. /\ q \in [left : [chunks : Seq(Seq(Byte)), prefix : Nat, buffered : Nat], got : Seq(Byte)]
         /\ q.left = after /\ q.got = got \o part
    BY <2>2, <2>9, <2>10
  <2> HIDE DEF q
  <2>12. SoundContents(q.left) /\ q.got \o RestOf(q.left) = all
    BY <2>6, <2>8, <2>11
  <2>13. q \in Reading(all)
    BY <2>11, <2>12 DEF Reading
  <2> QED
    BY <2>13 DEF q
<1> QED
  BY <1>4, <1>5

(***************************************************************************)
(* read() returns the oldest bytes, in order, and leaves the others.       *)
(***************************************************************************)
LEMMA ReadFromSound ==
    ASSUME NEW c, SoundContents(c), NEW len \in Nat
    PROVE  LET r == ReadFrom(c, len)
               n == Len(r.got)
           IN  /\ SoundContents(r.left)
               /\ r.got \in Seq(Byte) /\ n \in 0 .. c.buffered
               /\ r.got = SubSeq(RestOf(c), 1, n)
               /\ RestOf(r.left) = After(RestOf(c), n)
               /\ r.left.buffered = c.buffered - n
<1> DEFINE all == RestOf(c)
           T == ReadTurns(c, len)
           n == Len(c.chunks)
           start == [left |-> c, got |-> << >>]
           R == Reading(all)
           f == [i \in 1 .. n |-> [r \in R |-> ReadOnce(r, len)]]
<1>1. n \in Nat /\ all \in Seq(Byte)
  BY LenIsNat, DequeRest DEF SoundContents, RestOf
<1>2. start \in R
  <2>1. << >> \in Seq(Byte) /\ << >> \o all = all
    BY <1>1, ConcatEmptySeq, EmptySeq
  <2>2. c \in [chunks : Seq(Seq(Byte)), prefix : Nat, buffered : Nat]
    BY DEF SoundContents
  <2> QED
    BY <2>1, <2>2 DEF Reading
<1>3. ASSUME NEW r \in R PROVE ReadOnce(r, len) \in R
  BY ReadOnceKeeps
<1> HIDE DEF R, start
<1>4. f \in [1 .. n -> [R -> R]]
  BY <1>3
<1>5. ASSUME NEW i \in 1 .. n, NEW r \in R PROVE f[i][r] = ReadOnce(r, len)
  OBVIOUS
<1> HIDE DEF n, f
<1>6. PICK g \in [0 .. n -> R] : IsIteration(g, n, f, start)
  BY <1>1, <1>2, <1>4, Iterates, Zenon
<1>7. g[0] = start /\ \A i \in 1 .. n : g[i] = f[i][g[i - 1]]
  BY <1>6 DEF IsIteration
<1>8. ASSUME NEW i \in 1 .. n PROVE g[i] = ReadOnce(g[i - 1], len)
  <2>1. g[i - 1] \in R
    BY <1>1, <1>6
  <2> QED
    BY <1>5, <1>7, <2>1
<1>9. g = [i \in 0 .. n |-> IF i = 0 THEN start ELSE ReadOnce(g[i - 1], len)]
  <2>1. \A i \in 0 .. n : g[i] = IF i = 0 THEN start ELSE ReadOnce(g[i - 1], len)
    BY <1>1, <1>7, <1>8
  <2> QED
    BY <1>6, <2>1
<1>10. T = [i \in 0 .. n |-> IF i = 0 THEN start ELSE ReadOnce(T[i - 1], len)]
  BY <1>9, Zenon DEF ReadTurns, n, start
<1> HIDE DEF T
<1>11. T[0] = start /\ \A i \in 1 .. n : T[i] = ReadOnce(T[i - 1], len)
  BY <1>1, <1>10
<1> DEFINE kept == {i \in 0 .. n : T[i] \in R}
<1>12. 0 \in kept
  BY <1>1, <1>2, <1>11
<1>13. ASSUME NEW i \in kept, i < n PROVE i + 1 \in kept
  <2>1. i + 1 \in 1 .. n /\ (i + 1) - 1 = i /\ i + 1 \in 0 .. n
    BY <1>1, <1>13
  <2>2. T[i + 1] = ReadOnce(T[i], len)
    BY <1>11, <2>1
  <2> QED
    BY <1>3, <2>1, <2>2
<1>14. kept = 0 .. n
  <2>1. kept \in SUBSET (0 .. n)
    OBVIOUS
  <2> HIDE DEF kept
  <2> QED
    BY <1>1, <1>12, <1>13, <2>1, BoundedInduction
<1>15. T[n] \in R
  <2>1. n \in kept
    <3> HIDE DEF kept
    <3> QED
      BY <1>1, <1>14
  <2> QED
    BY <2>1
<1> DEFINE r == ReadFrom(c, len)
           got == r.got
           left == r.left
<1>16. r = T[n]
  BY DEF ReadFrom, T, n
<1> HIDE DEF r
<1>17. /\ got \in Seq(Byte) /\ SoundContents(left) /\ got \o RestOf(left) = all
  BY <1>15, <1>16 DEF R, Reading
<1>18. /\ RestOf(left) \in Seq(Byte) /\ Len(RestOf(left)) = left.buffered /\ left.buffered \in Nat
       /\ Len(all) = c.buffered /\ c.buffered \in Nat
  BY <1>17, DequeRest DEF SoundContents, RestOf
<1> HIDE DEF got, left, all
<1>19. Len(got) \in 0 .. Len(all) /\ SubSeq(all, 1, Len(got)) = got
       /\ After(all, Len(got)) = RestOf(left)
  BY <1>17, <1>18, PartsOfConcat
<1>20. Len(all) = Len(got) + Len(RestOf(left)) /\ Len(got) \in Nat
  BY <1>17, <1>18, ConcatProperties, LenIsNat
<1>21. left.buffered = c.buffered - Len(got)
  BY <1>18, <1>20
<1> QED
  BY <1>17, <1>18, <1>19, <1>21 DEF r, got, left, all

-----------------------------------------------------------------------------
(***************************************************************************)
(* The inductive invariant: the counters and the deque, updated at         *)
(* different places, agree, and their types.                               *)
(***************************************************************************)
IInv ==
    /\ TypeOK
    /\ CountersMatchDeque

(***************************************************************************)
(* It says that what reading works on is sound.                            *)
(***************************************************************************)
LEMMA InvIsSound ==
    IInv <=> /\ SoundContents(Contents) /\ bytes_buffered <= Capacity
             /\ error \in BOOLEAN /\ closed \in BOOLEAN
             /\ bytes_pushed \in 0 .. MaxBytes /\ bytes_popped \in 0 .. MaxBytes
             /\ bytes_pushed = bytes_popped + bytes_buffered
             /\ out \in Seq(Byte)
<1> DEFINE c == Contents
<1>1. c.chunks = bytes_stream /\ c.prefix = remove_prefix_len /\ c.buffered = bytes_buffered
  BY DEF Contents
<1>2. c \in [chunks : Seq(Seq(Byte)), prefix : Nat, buffered : Nat]
        <=> /\ bytes_stream \in Seq(Seq(Byte)) /\ remove_prefix_len \in Nat
            /\ bytes_buffered \in Nat
  BY DEF Contents
<1>3. ASSUME SoundDeque(bytes_stream, remove_prefix_len), bytes_buffered \in Nat
      PROVE  Len(RestOf(c)) = bytes_buffered
                <=> Len(FlattenSeq(bytes_stream)) = bytes_buffered + remove_prefix_len
  <2>1. /\ Len(FlattenSeq(bytes_stream)) = remove_prefix_len + Len(Rest(bytes_stream, remove_prefix_len))
        /\ Len(Rest(bytes_stream, remove_prefix_len)) \in Nat /\ remove_prefix_len \in Nat
    BY <1>3, DequeRest DEF SoundDeque
  <2> QED
    BY <1>1, <1>3, <2>1 DEF RestOf
<1> HIDE DEF c
<1>4. ASSUME IInv PROVE SoundContents(c)
  <2>1. /\ SoundDeque(bytes_stream, remove_prefix_len) /\ bytes_buffered \in Nat
        /\ bytes_stream \in Seq(Seq(Byte)) /\ remove_prefix_len \in Nat
        /\ Len(FlattenSeq(bytes_stream)) = bytes_buffered + remove_prefix_len
    BY <1>4, CapacityAssumption DEF IInv, TypeOK, CountersMatchDeque, SoundDeque
  <2> QED
    BY <2>1, <1>1, <1>2, <1>3 DEF SoundContents
<1>5. ASSUME SoundContents(c)
      PROVE  /\ bytes_buffered \in Nat /\ bytes_stream \in Seq(Seq(Byte))
             /\ remove_prefix_len \in Nat
             /\ \A i \in DOMAIN bytes_stream : bytes_stream[i] # << >>
             /\ IF bytes_stream = << >> THEN remove_prefix_len = 0
                ELSE remove_prefix_len < Len(Head(bytes_stream))
             /\ Len(FlattenSeq(bytes_stream)) = bytes_buffered + remove_prefix_len
  <2>1. SoundDeque(bytes_stream, remove_prefix_len) /\ bytes_buffered \in Nat
        /\ Len(RestOf(c)) = bytes_buffered
    BY <1>5, <1>1, <1>2 DEF SoundContents
  <2> QED
    BY <2>1, <1>3 DEF SoundDeque
<1>6. IInv => /\ bytes_buffered <= Capacity /\ error \in BOOLEAN /\ closed \in BOOLEAN
              /\ bytes_pushed \in 0 .. MaxBytes /\ bytes_popped \in 0 .. MaxBytes
              /\ bytes_pushed = bytes_popped + bytes_buffered /\ out \in Seq(Byte)
  BY DEF IInv, TypeOK, CountersMatchDeque
<1>7. ASSUME SoundContents(c), bytes_buffered <= Capacity,
             error \in BOOLEAN, closed \in BOOLEAN,
             bytes_pushed \in 0 .. MaxBytes, bytes_popped \in 0 .. MaxBytes,
             bytes_pushed = bytes_popped + bytes_buffered, out \in Seq(Byte)
      PROVE  IInv
  <2>1. bytes_buffered \in 0 .. Capacity
    BY <1>5, <1>7, CapacityAssumption
  <2>2. TypeOK
    BY <2>1, <1>5, <1>7 DEF TypeOK
  <2>3. CountersMatchDeque
    BY <1>5, <1>7 DEF CountersMatchDeque
  <2> QED
    BY <2>2, <2>3 DEF IInv
<1> QED
  BY <1>4, <1>6, <1>7 DEF c

(***************************************************************************)
(* What is unread, seen from outside, is what the deque has yet to give.   *)
(***************************************************************************)
LEMMA UnreadIsRest ==
    Unread = RestOf(Contents)
BY DEF Unread, RestOf, Rest, After, Contents

(***************************************************************************)
(* An operation of the reader that leaves the contents d.                  *)
(***************************************************************************)
LEMMA PoppedKeeps ==
    ASSUME IInv, NEW d, SoundContents(d), d.buffered <= bytes_buffered, Popped(d),
           out' \in Seq(Byte)
    PROVE  /\ IInv' /\ Unread' = RestOf(d)
           /\ error' = error /\ closed' = closed /\ bytes_pushed' = bytes_pushed
<1>1. /\ bytes_buffered <= Capacity /\ error \in BOOLEAN /\ closed \in BOOLEAN
      /\ bytes_pushed \in 0 .. MaxBytes /\ bytes_popped \in 0 .. MaxBytes
      /\ bytes_pushed = bytes_popped + bytes_buffered
      /\ SoundContents(Contents)
  BY InvIsSound
<1>2. bytes_buffered \in Nat /\ d.buffered \in Nat
      /\ d = [chunks |-> d.chunks, prefix |-> d.prefix, buffered |-> d.buffered]
  BY <1>1 DEF SoundContents, Contents
<1>3. /\ bytes_popped' = bytes_popped + (bytes_buffered - d.buffered)
      /\ bytes_buffered' = d.buffered /\ bytes_stream' = d.chunks
      /\ remove_prefix_len' = d.prefix
      /\ error' = error /\ closed' = closed /\ bytes_pushed' = bytes_pushed
  BY DEF Popped
<1>4. Contents' = d
  BY <1>2, <1>3 DEF Contents
<1>5. /\ bytes_buffered' <= Capacity
      /\ bytes_pushed' \in 0 .. MaxBytes /\ bytes_popped' \in 0 .. MaxBytes
      /\ bytes_pushed' = bytes_popped' + bytes_buffered'
  BY <1>1, <1>2, <1>3, CapacityAssumption
<1>6. SoundContents(Contents')
  BY <1>4
<1>7. ( /\ SoundContents(Contents) /\ bytes_buffered <= Capacity
        /\ error \in BOOLEAN /\ closed \in BOOLEAN
        /\ bytes_pushed \in 0 .. MaxBytes /\ bytes_popped \in 0 .. MaxBytes
        /\ bytes_pushed = bytes_popped + bytes_buffered
        /\ out \in Seq(Byte) )' => IInv'
  BY InvIsSound, PTL
<1>8. IInv'
  BY <1>1, <1>3, <1>5, <1>6, <1>7
<1>9. (Unread = RestOf(Contents))'
  BY UnreadIsRest, PTL
<1> QED
  BY <1>3, <1>4, <1>8, <1>9

(***************************************************************************)
(* A string added at the back of a sound deque.                            *)
(***************************************************************************)
LEMMA PushKeeps ==
    ASSUME NEW chunks, NEW prefix, SoundDeque(chunks, prefix),
           NEW s \in Seq(Byte), s # << >>
    PROVE  /\ SoundDeque(Append(chunks, s), prefix)
           /\ Rest(Append(chunks, s), prefix) = Rest(chunks, prefix) \o s
<1> DEFINE more == Append(chunks, s)
           all == FlattenSeq(chunks)
<1>1. chunks \in Seq(Seq(Byte)) /\ prefix \in Nat
  BY DEF SoundDeque
<1>2. /\ more \in Seq(Seq(Byte)) /\ Len(more) = Len(chunks) + 1 /\ more # << >>
      /\ \A i \in 1 .. Len(chunks) : more[i] = chunks[i]
      /\ more[Len(chunks) + 1] = s
      /\ Head(more) = IF chunks = << >> THEN s ELSE Head(chunks)
      /\ Len(chunks) \in Nat
  BY <1>1, AppendProperties, HeadTailAppend, LenIsNat
<1>3. ASSUME NEW i \in DOMAIN more PROVE more[i] # << >>
  <2>1. DOMAIN more = 1 .. Len(more) /\ DOMAIN chunks = 1 .. Len(chunks)
    BY <1>1, <1>2, LenProperties
  <2> HIDE DEF more
  <2>2. CASE i \in 1 .. Len(chunks)
    BY <2>1, <2>2, <1>2 DEF SoundDeque
  <2>3. CASE i \notin 1 .. Len(chunks)
    <3>1. i = Len(chunks) + 1
      BY <2>1, <2>3, <1>2
    <3> QED
      BY <3>1, <1>2
  <2> QED
    BY <2>2, <2>3
<1>4. prefix < Len(Head(more))
  <2>1. CASE chunks = << >>
    <3>1. Len(s) \in Nat \ {0}
      BY EmptySeq
    <3> QED
      BY <2>1, <3>1, <1>2 DEF SoundDeque
  <2>2. CASE chunks # << >>
    BY <2>2, <1>2 DEF SoundDeque
  <2> QED
    BY <2>1, <2>2
<1>5. all \in Seq(Byte) /\ prefix \in 0 .. Len(all)
  BY DequeRest
<1>6. FlattenSeq(more) = all \o s
  BY <1>1, FlattenAppend
<1> HIDE DEF more, all
<1>7. After(all \o s, prefix) = After(all, prefix) \o s
  BY <1>5, AfterInConcat
<1>8. SoundDeque(more, prefix)
  BY <1>1, <1>2, <1>3, <1>4 DEF SoundDeque
<1>9. Rest(more, prefix) = Rest(chunks, prefix) \o s
  BY <1>6, <1>7 DEF Rest, all
<1> QED
  BY <1>8, <1>9 DEF more

(***************************************************************************)
(* Writer::push: as many of the bytes as there is room for come behind     *)
(* those that wait.                                                        *)
(***************************************************************************)
LEMMA WriteKeeps ==
    ASSUME IInv, NEW n \in Nat, Write(n)
    PROVE  LET data == BytesFrom(bytes_pushed, n)
               len == Lesser(n, Capacity - bytes_buffered)
           IN  /\ IInv'
               /\ error' = error /\ closed' = closed /\ out' = out
               /\ closed => bytes_pushed' = bytes_pushed /\ Unread' = Unread
               /\ ~closed => /\ bytes_pushed' = bytes_pushed + len
                             /\ Unread' = Unread \o SubSeq(data, 1, len)
<1> DEFINE data == BytesFrom(bytes_pushed, n)
           room == Capacity - bytes_buffered
           len == Lesser(n, room)
           part == SubSeq(data, 1, len)
<1>1. /\ SoundContents(Contents) /\ bytes_buffered <= Capacity
      /\ error \in BOOLEAN /\ closed \in BOOLEAN
      /\ bytes_pushed \in 0 .. MaxBytes /\ bytes_popped \in 0 .. MaxBytes
      /\ bytes_pushed = bytes_popped + bytes_buffered
      /\ out \in Seq(Byte)
  BY InvIsSound
<1>2. /\ SoundDeque(bytes_stream, remove_prefix_len) /\ bytes_buffered \in Nat
      /\ bytes_stream \in Seq(Seq(Byte)) /\ remove_prefix_len \in Nat
      /\ Len(Rest(bytes_stream, remove_prefix_len)) = bytes_buffered
  BY <1>1 DEF SoundContents, Contents, RestOf
<1>3. room \in Nat /\ MaxBytes \in Nat /\ Capacity \in Nat
  BY <1>1, <1>2, CapacityAssumption
<1>4. data \in Seq(Byte) /\ Len(data) = n /\ bytes_pushed + n <= MaxBytes
  BY <1>1, <1>3, BytesFromType DEF Write
<1> HIDE DEF data, room
<1>5. len \in 0 .. n /\ len <= room /\ (len = 0 <=> n = 0 \/ room = 0)
  BY <1>3 DEF Lesser
<1>6. part \in Seq(Byte) /\ Len(part) = len
  BY <1>4, <1>5, PrefixProperties
<1>7. Push(data)
  BY DEF Write, data
<1>8. Unread = Rest(bytes_stream, remove_prefix_len) /\ Unread \in Seq(Byte)
  BY <1>2, UnreadIsRest, DequeRest DEF RestOf, Contents
<1>9. Unread' = Rest(bytes_stream', remove_prefix_len')
  <2>1. (Unread = RestOf(Contents))'
    BY UnreadIsRest, PTL
  <2> QED
    BY <2>1 DEF RestOf, Contents
<1>10. n = 0 <=> data = << >>
  BY <1>4, EmptySeq
<1>11. CASE ~closed /\ room > 0 /\ n # 0
  <2>1. /\ bytes_stream' = Append(bytes_stream, part)
        /\ bytes_pushed' = bytes_pushed + len
        /\ bytes_buffered' = bytes_buffered + len
        /\ UNCHANGED << error, closed, bytes_popped, remove_prefix_len, out >>
    BY <1>4, <1>7, <1>10, <1>11 DEF Push, available_capacity, room
  <2> HIDE DEF part, len
  <2>2. len > 0 /\ part # << >>
    <3>1. len > 0
      BY <1>3, <1>5, <1>11
    <3> QED
      BY <3>1, <1>6, EmptySeq
  <2>3. /\ SoundDeque(bytes_stream', remove_prefix_len)
        /\ Rest(bytes_stream', remove_prefix_len) = Unread \o part
    BY <1>2, <1>6, <1>8, <2>1, <2>2, PushKeeps
  <2>4. Len(Unread \o part) = bytes_buffered + len
    BY <1>2, <1>6, <1>8, ConcatProperties
  <2>5. SoundContents(Contents')
    <3> DEFINE c == [chunks |-> bytes_stream', prefix |-> remove_prefix_len, buffered |-> bytes_buffered + len]
    <3>1. Contents' = c
      BY <2>1 DEF Contents
    <3>2. c.chunks = bytes_stream' /\ c.prefix = remove_prefix_len /\ c.buffered = bytes_buffered + len
      OBVIOUS
    <3>3. c \in [chunks : Seq(Seq(Byte)), prefix : Nat, buffered : Nat]
      <4>1. bytes_stream' \in Seq(Seq(Byte))
        BY <2>3 DEF SoundDeque
      <4>2. bytes_buffered + len \in Nat
        BY <1>2, <1>5
      <4> QED
        BY <4>1, <4>2, <1>2
    <3> HIDE DEF c
    <3>4. SoundContents(c)
      BY <2>3, <2>4, <3>2, <3>3 DEF SoundContents, RestOf
    <3> QED
      BY <3>1, <3>4
  <2>6. /\ bytes_buffered' <= Capacity
        /\ bytes_pushed' \in 0 .. MaxBytes /\ bytes_popped' \in 0 .. MaxBytes
        /\ bytes_pushed' = bytes_popped' + bytes_buffered'
    BY <1>1, <1>2, <1>3, <1>4, <1>5, <2>1 DEF room
  <2>7. ( /\ SoundContents(Contents) /\ bytes_buffered <= Capacity
          /\ error \in BOOLEAN /\ closed \in BOOLEAN
          /\ bytes_pushed \in 0 .. MaxBytes /\ bytes_popped \in 0 .. MaxBytes
          /\ bytes_pushed = bytes_popped + bytes_buffered
          /\ out \in Seq(Byte) )' => IInv'
    BY InvIsSound, PTL
  <2>8. IInv'
    BY <1>1, <2>1, <2>5, <2>6, <2>7
  <2>9. Unread' = Unread \o part
    BY <1>9, <2>1, <2>3
  <2> QED
    BY <1>11, <2>1, <2>8, <2>9 DEF len, part, data, room
<1>12. CASE ~(~closed /\ room > 0 /\ n # 0)
  <2>1. UNCHANGED vars
    <3>1. ~(~closed /\ available_capacity > 0 /\ data # << >>)
      BY <1>10, <1>12 DEF available_capacity, room
    <3> QED
      BY <1>7, <3>1 DEF Push
  <2>2. /\ IInv' /\ error' = error /\ closed' = closed /\ out' = out
        /\ bytes_pushed' = bytes_pushed /\ Unread' = Unread
    BY <2>1 DEF vars, IInv, TypeOK, CountersMatchDeque, Unread
  <2>3. ~closed => len = 0
    BY <1>3, <1>5, <1>12
  <2>4. ~closed => part = << >>
    BY <2>3, SubSeqEmpty
  <2>5. ~closed => bytes_pushed + len = bytes_pushed /\ Unread \o part = Unread
    <3>1. Unread \o << >> = Unread
      BY <1>8, ConcatEmptySeq
    <3> HIDE DEF len, part
    <3>2. ~closed => bytes_pushed + len = bytes_pushed
      BY <2>3, <1>1
    <3> QED
      BY <3>1, <3>2, <2>4
  <2> QED
    BY <2>2, <2>5 DEF len, part, data, room
<1> QED
  BY <1>11, <1>12

(***************************************************************************)
(* What one step does to the bytes that wait: Takes n of them from the     *)
(* front and returns them, or Drops them unseen.                           *)
(***************************************************************************)
Gone(n) ==
    /\ n \in 0 .. Len(Unread) /\ n \in 0 .. Capacity
    /\ error' = error /\ closed' = closed /\ bytes_pushed' = bytes_pushed
    /\ Unread' = After(Unread, n)

(***************************************************************************)
(* Every call on the reader.                                               *)
(***************************************************************************)
LEMMA ReaderKeeps ==
    ASSUME IInv, NEW len \in Nat
    PROVE  /\ Pop(len) => IInv' /\ Gone(len) /\ out' = out
           /\ Read(len) => IInv' /\ \E n \in Nat : Gone(n) /\ out' = SubSeq(Unread, 1, n)
           /\ Drain(len) => IInv' /\ Gone(len) /\ out' = SubSeq(Unread, 1, len)
<1> DEFINE c == Contents
<1>1. /\ SoundContents(c) /\ bytes_buffered <= Capacity /\ out \in Seq(Byte)
      /\ c.buffered = bytes_buffered /\ bytes_buffered \in Nat /\ Capacity \in Nat
  <2>1. SoundContents(c) /\ bytes_buffered <= Capacity /\ out \in Seq(Byte)
    BY InvIsSound
  <2> QED
    BY <2>1, CapacityAssumption DEF Contents, SoundContents
<1>2. Unread = RestOf(c) /\ Unread \in Seq(Byte) /\ Len(Unread) = bytes_buffered
  <2>1. RestOf(c) \in Seq(Byte) /\ Len(RestOf(c)) = bytes_buffered
    BY <1>1, DequeRest DEF SoundContents, RestOf
  <2> QED
    BY <2>1, UnreadIsRest
<1>3. ASSUME NEW n \in 0 .. bytes_buffered, NEW d, SoundContents(d), RestOf(d) = After(RestOf(c), n),
             d.buffered = c.buffered - n, Popped(d), out' \in Seq(Byte)
      PROVE  IInv' /\ Gone(n)
  <2>1. d.buffered <= bytes_buffered
    BY <1>1, <1>3
  <2>2. /\ IInv' /\ Unread' = RestOf(d)
        /\ error' = error /\ closed' = closed /\ bytes_pushed' = bytes_pushed
    BY <1>3, <2>1, PoppedKeeps
  <2>3. n \in 0 .. Len(Unread) /\ n \in 0 .. Capacity
    BY <1>1, <1>2
  <2> QED
    BY <1>2, <1>3, <2>2, <2>3 DEF Gone
<1>4. ASSUME NEW n \in 0 .. bytes_buffered, Popped(PopFrom(c, n)), out' \in Seq(Byte)
      PROVE  IInv' /\ Gone(n)
  <2> DEFINE d == PopFrom(c, n)
  <2>1. SoundContents(d) /\ RestOf(d) = After(RestOf(c), n) /\ d.buffered = c.buffered - n
    BY <1>1, PopFromSound
  <2> HIDE DEF c, d
  <2>2. Popped(d)
    BY <1>4 DEF d
  <2> QED
    BY <1>3, <1>4, <2>1, <2>2
<1>5. ASSUME Pop(len) PROVE IInv' /\ Gone(len) /\ out' = out
  <2>1. len \in 0 .. bytes_buffered /\ Popped(PopFrom(c, len)) /\ out' = out
    BY <1>1, <1>5 DEF Pop
  <2> QED
    BY <2>1, <1>1, <1>4
<1>6. ASSUME Read(len)
      PROVE  IInv' /\ \E n \in Nat : Gone(n) /\ out' = SubSeq(Unread, 1, n)
  <2> DEFINE r == ReadFrom(c, len)
             n == Len(r.got)
  <2>1. Popped(r.left) /\ out' = r.got
    BY <1>6 DEF Read
  <2>2. /\ SoundContents(r.left) /\ r.got \in Seq(Byte) /\ n \in 0 .. c.buffered
        /\ r.got = SubSeq(RestOf(c), 1, n) /\ RestOf(r.left) = After(RestOf(c), n)
        /\ r.left.buffered = c.buffered - n
    BY <1>1, ReadFromSound
  <2> HIDE DEF r, n, c
  <2>3. n \in 0 .. bytes_buffered /\ n \in Nat
    BY <1>1, <2>2
  <2>4. IInv' /\ Gone(n)
    BY <1>3, <2>1, <2>2, <2>3
  <2>5. out' = SubSeq(Unread, 1, n)
    BY <1>2, <2>1, <2>2
  <2> QED
    BY <2>3, <2>4, <2>5
<1>7. ASSUME Drain(len) PROVE IInv' /\ Gone(len) /\ out' = SubSeq(Unread, 1, len)
  <2>1. /\ len <= Len(Peek(c)) /\ out' = SubSeq(Peek(c), 1, len)
        /\ Popped(PopFrom(c, len))
    BY <1>7 DEF Drain
  <2>2. /\ Peek(c) \in Seq(Byte) /\ Len(Peek(c)) \in Nat /\ Len(Peek(c)) <= bytes_buffered
        /\ \A k \in 0 .. Len(Peek(c)) : SubSeq(Peek(c), 1, k) = SubSeq(RestOf(c), 1, k)
    BY <1>1, PeekIsFront
  <2> HIDE DEF c
  <2>3. len \in 0 .. Len(Peek(c)) /\ len \in 0 .. bytes_buffered
    BY <1>1, <2>1, <2>2
  <2>4. out' = SubSeq(Unread, 1, len) /\ out' \in Seq(Byte)
    BY <1>2, <2>1, <2>2, <2>3, PrefixProperties
  <2> QED
    BY <1>4, <2>1, <2>3, <2>4
<1> QED
  BY <1>5, <1>6, <1>7

(***************************************************************************)
(* The invariant holds after any calls on writer and reader, in any order. *)
(***************************************************************************)
THEOREM Invariance == Spec => []IInv
<1>1. ASSUME Init PROVE IInv
  <2> DEFINE c == [chunks |-> << >>, prefix |-> 0, buffered |-> 0]
  <2>1. Contents = c
    BY <1>1 DEF Init, Contents
  <2>2. c.chunks = << >> /\ c.prefix = 0 /\ c.buffered = 0
    OBVIOUS
  <2>3. << >> \in Seq(Seq(Byte)) /\ << >> \in Seq(Byte) /\ DOMAIN << >> = {}
    BY EmptySeq
  <2>4. c \in [chunks : Seq(Seq(Byte)), prefix : Nat, buffered : Nat]
    BY <2>3
  <2> HIDE DEF c
  <2>5. SoundDeque(<< >>, 0)
    BY <2>3 DEF SoundDeque
  <2>6. Rest(<< >>, 0) = << >>
    BY <2>5, DequeRest
  <2>7. SoundContents(c)
    BY <2>2, <2>4, <2>5, <2>6, EmptySeq DEF SoundContents, RestOf
  <2>8. SoundContents(Contents)
    BY <2>1, <2>7
  <2>9. /\ bytes_buffered <= Capacity /\ error \in BOOLEAN /\ closed \in BOOLEAN
        /\ bytes_pushed \in 0 .. MaxBytes /\ bytes_popped \in 0 .. MaxBytes
        /\ bytes_pushed = bytes_popped + bytes_buffered /\ out \in Seq(Byte)
    <3>1. error \in BOOLEAN /\ closed \in BOOLEAN
      BY <1>1, Zenon DEF Init
    <3>2. bytes_buffered = 0 /\ bytes_pushed = 0 /\ bytes_popped = 0 /\ out = << >>
      BY <1>1 DEF Init
    <3> QED
      BY <2>3, <3>1, <3>2, CapacityAssumption
  <2> QED
    BY <2>8, <2>9, InvIsSound
<1>2. ASSUME IInv, [Next]_vars PROVE IInv'
  <2>1. ASSUME NEW n \in 0 .. MaxBytes, Write(n) PROVE IInv'
    BY <1>2, <2>1, WriteKeeps, CapacityAssumption
  <2>2. ASSUME Close PROVE IInv'
    BY <1>2, <2>2 DEF Close, IInv, TypeOK, CountersMatchDeque
  <2>3. ASSUME SetErr PROVE IInv'
    BY <1>2, <2>3 DEF SetErr, IInv, TypeOK, CountersMatchDeque
  <2>4. ASSUME NEW len \in Nat, Pop(len) \/ Read(len) \/ Drain(len) PROVE IInv'
    BY <1>2, <2>4, ReaderKeeps
  <2>5. ASSUME UNCHANGED vars PROVE IInv'
    BY <1>2, <2>5 DEF vars, IInv, TypeOK, CountersMatchDeque
  <2> QED
    BY <1>2, <2>1, <2>2, <2>3, <2>4, <2>5, CapacityAssumption DEF Next
<1> QED
  BY <1>1, <1>2, PTL DEF Spec

(***************************************************************************)
(* Type correctness of the stream, for every capacity.                     *)
(***************************************************************************)
THEOREM TypeCorrect == Spec => []TypeOK
<1>1. IInv => TypeOK
  BY DEF IInv
<1> QED
  BY <1>1, Invariance, PTL

(***************************************************************************)
(* The counters and the deque always agree (the separate updates in        *)
(* Writer::push and Reader::pop).                                          *)
(***************************************************************************)
THEOREM CountersAlwaysMatch == Spec => []CountersMatchDeque
<1>1. IInv => CountersMatchDeque
  BY DEF IInv
<1> QED
  BY <1>1, Invariance, PTL

-----------------------------------------------------------------------------
(***************************************************************************)
(* The queue that users of the stream see, from its flags, its count and   *)
(* the unread bytes.                                                       *)
(***************************************************************************)
Queue(e, cl, pushed, bytes) ==
    [capacity |-> Capacity, error |-> e, closed |-> cl, pushed |-> pushed, buf |-> bytes]

(***************************************************************************)
(* What the abstract calls do to it: closing,                              *)
(***************************************************************************)
LEMMA QueueClose ==
    ASSUME NEW e, NEW cl, NEW pushed, NEW bytes
    PROVE  Abstract!CloseStream(Queue(e, cl, pushed, bytes))
               = Queue(e, TRUE, pushed, bytes)
<1> DEFINE q == Queue(e, cl, pushed, bytes)
<1>2. \A x : [q EXCEPT !.closed = x] = Queue(e, x, pushed, bytes)
  BY DEF Queue
<1> HIDE DEF q
<1>3. Abstract!CloseStream(q) = Queue(e, TRUE, pushed, bytes)
  BY <1>2 DEF Abstract!CloseStream
<1> QED
  BY <1>3 DEF q

(***************************************************************************)
(* the error flag,                                                         *)
(***************************************************************************)
LEMMA QueueError ==
    Abstract!SetError(Queue(error, closed, bytes_pushed, Unread))
        = Queue(TRUE, closed, bytes_pushed, Unread)
<1> DEFINE q == Queue(error, closed, bytes_pushed, Unread)
<1>2. \A x : [q EXCEPT !.error = x] = Queue(x, closed, bytes_pushed, Unread)
  BY DEF Queue
<1> HIDE DEF q
<1>3. Abstract!SetError(q) = Queue(TRUE, closed, bytes_pushed, Unread)
  BY <1>2 DEF Abstract!SetError
<1> QED
  BY <1>3 DEF q

(***************************************************************************)
(* taking bytes from the front                                             *)
(***************************************************************************)
LEMMA QueuePop ==
    ASSUME NEW e, NEW cl, NEW pushed, NEW bytes, NEW n
    PROVE  Abstract!PopBytes(Queue(e, cl, pushed, bytes), n)
               = Queue(e, cl, pushed, After(bytes, n))
<1> DEFINE q == Queue(e, cl, pushed, bytes)
<1>1. q.buf = bytes
  BY DEF Queue
<1>2. \A x : [q EXCEPT !.buf = x] = Queue(e, cl, pushed, x)
  BY DEF Queue
<1> HIDE DEF q
<1>3. Abstract!PopBytes(q, n) = Queue(e, cl, pushed, After(bytes, n))
  BY <1>1, <1>2 DEF Abstract!PopBytes, After
<1> QED
  BY <1>3 DEF q

(***************************************************************************)
(* ... and pushing, on one that is closed and on one that is not.          *)
(***************************************************************************)
LEMMA QueuePush ==
    ASSUME NEW e, NEW cl, NEW pushed, NEW bytes, NEW data
    PROVE  LET q == Queue(e, cl, pushed, bytes)
               n == Lesser(Len(data), Capacity - Len(bytes))
           IN  /\ cl => Abstract!PushBytes(q, data) = q
               /\ ~cl => Abstract!PushBytes(q, data)
                             = Queue(e, cl, pushed + n, bytes \o SubSeq(data, 1, n))
<1> DEFINE q == Queue(e, cl, pushed, bytes)
           n == Lesser(Len(data), Capacity - Len(bytes))
           pushes == [q EXCEPT !.buf = @ \o SubSeq(data, 1, n), !.pushed = @ + n]
<1>1. q.closed = cl
  BY DEF Queue
<1>2. Abstract!Lesser(Len(data), Abstract!AvailableCapacity(q)) = n
  BY DEF Queue, Abstract!Lesser, Abstract!AvailableCapacity, Lesser
<1>3. Abstract!PushBytes(q, data) = IF q.closed THEN q ELSE pushes
  BY <1>2, Zenon DEF Abstract!PushBytes
<1> HIDE DEF n
<1>4. pushes = Queue(e, cl, pushed + n, bytes \o SubSeq(data, 1, n))
  <2>1. \A x, y : /\ [q EXCEPT !.buf = x] = Queue(e, cl, pushed, x)
                  /\ [Queue(e, cl, pushed, x) EXCEPT !.pushed = y] = Queue(e, cl, y, x)
    BY DEF Queue
  <2>2. q.buf = bytes /\ q.pushed = pushed
    BY DEF Queue
  <2> DEFINE x == bytes \o SubSeq(data, 1, n)
             y == pushed + n
  <2> HIDE DEF q
  <2>3. pushes = [[q EXCEPT !.buf = x] EXCEPT !.pushed = y]
    BY <2>2
  <2> QED
    BY <2>1, <2>3
<1> HIDE DEF q, pushes
<1> QED
  BY <1>1, <1>3, <1>4 DEF q, n

(***************************************************************************)
(* The structure, seen through its interface, implements the bounded FIFO: *)
(* every call on the deque is one on the queue or a stutter.               *)
(***************************************************************************)
THEOREM QueueImplemented == Spec => ImplementsQueue
<1>1. ASSUME Init PROVE Abstract!Init
  <2>1. Unread = << >>
    <3>1. FlattenSeq(bytes_stream) = << >> /\ remove_prefix_len = 0
      BY <1>1, FlattenNone DEF Init
    <3> QED
      BY <3>1, EmptySeq, SubSeqEmpty DEF Unread
  <2> QED
    BY <1>1, <2>1, Zenon DEF Init, Abstract!Init, Abstract!NewStream
<1>2. ASSUME IInv, [Next]_vars PROVE [Abstract!Next]_(Abstract!vars)
  <2> DEFINE seen == Queue(error, closed, bytes_pushed, Unread)
             later == Queue(error', closed', bytes_pushed', Unread')
  <2>1. /\ Unread \in Seq(Byte) /\ Len(Unread) = bytes_buffered /\ bytes_buffered \in Nat
        /\ bytes_pushed \in Nat /\ MaxBytes \in Nat /\ Capacity \in Nat
    <3>1. SoundContents(Contents) /\ bytes_pushed \in 0 .. MaxBytes
      BY <1>2, InvIsSound
    <3>2. RestOf(Contents) \in Seq(Byte) /\ Len(RestOf(Contents)) = bytes_buffered
          /\ bytes_buffered \in Nat
      BY <3>1, DequeRest DEF SoundContents, RestOf, Contents
    <3> QED
      BY <3>1, <3>2, UnreadIsRest, CapacityAssumption
  <2>2. ASSUME NEW n \in 0 .. MaxBytes, Write(n) PROVE Abstract!Push(n)
    <3> DEFINE data == BytesFrom(bytes_pushed, n)
               len == Lesser(n, Capacity - bytes_buffered)
    <3>1. n \in Nat
      BY <2>1
    <3>2. /\ error' = error /\ closed' = closed /\ out' = out
          /\ closed => bytes_pushed' = bytes_pushed /\ Unread' = Unread
          /\ ~closed => /\ bytes_pushed' = bytes_pushed + len
                        /\ Unread' = Unread \o SubSeq(data, 1, len)
      BY <1>2, <2>2, <3>1, WriteKeeps
    <3>3. Len(data) = n /\ bytes_pushed + n <= MaxBytes
      BY <2>1, <2>2, <3>1, BytesFromType DEF Write
    <3>4. len = Lesser(Len(data), Capacity - Len(Unread))
      BY <2>1, <3>3
    <3>5. Abstract!BytesFrom(bytes_pushed, n) = data
      BY DEF BytesFrom, Abstract!BytesFrom
    <3> HIDE DEF data, len
    <3>6. /\ closed => Abstract!PushBytes(seen, data) = seen
          /\ ~closed => Abstract!PushBytes(seen, data)
                            = Queue(error, closed, bytes_pushed + len, Unread \o SubSeq(data, 1, len))
      BY <3>4, QueuePush
    <3>7. later = Abstract!PushBytes(seen, data)
      <4>1. CASE closed
        BY <3>2, <3>6, <4>1
      <4>2. CASE ~closed
        BY <3>2, <3>6, <4>2
      <4> QED
        BY <4>1, <4>2
    <3>8. seen.pushed + n <= MaxBytes
      BY <3>3 DEF Queue
    <3> QED
      BY <3>2, <3>5, <3>7, <3>8, Zenon DEF Abstract!Push, Queue
  <2>3. ASSUME Close PROVE Abstract!Close
    <3>1. closed' = TRUE /\ error' = error /\ bytes_pushed' = bytes_pushed /\ out' = out
          /\ Unread' = Unread
      BY <2>3 DEF Close, Unread
    <3>2. Abstract!CloseStream(seen) = Queue(error, TRUE, bytes_pushed, Unread)
      BY QueueClose
    <3> QED
      BY <3>1, <3>2, Zenon DEF Abstract!Close, Queue
  <2>4. ASSUME SetErr PROVE Abstract!SetErr
    <3>1. error' = TRUE /\ closed' = closed /\ bytes_pushed' = bytes_pushed /\ out' = out
          /\ Unread' = Unread
      BY <2>4 DEF SetErr, Unread
    <3>2. Abstract!SetError(seen) = Queue(TRUE, closed, bytes_pushed, Unread)
      BY QueueError
    <3> QED
      BY <3>1, <3>2, Zenon DEF Abstract!SetErr, Queue
  <2>5. ASSUME NEW n, Gone(n)
        PROVE  later = Abstract!PopBytes(seen, n) /\ n <= Len(seen.buf) /\ n \in 0 .. Capacity
    <3>1. /\ n \in 0 .. Len(Unread) /\ n \in 0 .. Capacity
          /\ error' = error /\ closed' = closed /\ bytes_pushed' = bytes_pushed
          /\ Unread' = After(Unread, n)
      BY <2>5 DEF Gone
    <3>2. Abstract!PopBytes(seen, n) = Queue(error, closed, bytes_pushed, After(Unread, n))
      BY QueuePop
    <3>4. seen.buf = Unread
      BY DEF Queue
    <3>3. n <= Len(Unread)
      BY <3>1, <2>1
    <3> QED
      BY <3>1, <3>2, <3>3, <3>4
  <2>6. ASSUME NEW n, Gone(n), out' = out PROVE Abstract!Discard(n) /\ n \in 0 .. Capacity
    BY <2>5, <2>6, Zenon DEF Abstract!Discard, Queue
  <2>7. ASSUME NEW n, Gone(n), out' = SubSeq(Unread, 1, n)
        PROVE  Abstract!Take(n) /\ n \in 0 .. Capacity
    <3>1. seen.buf = Unread
      BY DEF Queue
    <3> QED
      BY <2>5, <2>7, <3>1, Zenon DEF Abstract!Take, Queue
  <2>8. ASSUME NEW len \in Nat, Pop(len) \/ Read(len) \/ Drain(len) PROVE Abstract!Next
    <3>1. \/ Gone(len) /\ out' = out
          \/ \E n \in Nat : Gone(n) /\ out' = SubSeq(Unread, 1, n)
      BY <1>2, <2>8, ReaderKeeps
    <3> QED
      BY <2>6, <2>7, <3>1 DEF Abstract!Next
  <2>9. ASSUME UNCHANGED vars PROVE UNCHANGED Abstract!vars
    BY <2>9, Zenon DEF vars, Abstract!vars, Unread
  <2> QED
    BY <1>2, <2>2, <2>3, <2>4, <2>8, <2>9, CapacityAssumption DEF Next, Abstract!Next
<1> QED
  BY <1>1, <1>2, Invariance, PTL DEF Spec, ImplementsQueue, Abstract!Spec
=============================================================================
