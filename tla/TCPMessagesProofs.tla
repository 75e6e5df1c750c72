------------------------- MODULE TCPMessagesProofs --------------------------
(***************************************************************************)
(* What the operators on sequence numbers, byte streams and message queues *)
(* return, preserve and bound, for the proofs about those who use them,    *)
(* and before that facts about natural numbers, about functions defined by *)
(* counting up, and about remainders, which these proofs rest on.          *)
(***************************************************************************)
EXTENDS TCPMessages, SequenceTheorems, WellFoundedInduction, TLAPS

(***************************************************************************)
(* Every nonempty set of natural numbers has a least element.              *)
(***************************************************************************)
LEMMA LeastNumber ==
    ASSUME NEW T \in SUBSET Nat, T # {}
    PROVE  \E x \in T : \A y \in T : x <= y
<1>1. IsWellFoundedOn(OpToRel(<, Nat), Nat)
  BY NatLessThanWellFounded
<1>2. PICK x \in T : \A y \in T : ~(<< y, x >> \in OpToRel(<, Nat))
  BY <1>1, WFMin
<1>3. ASSUME NEW y \in T PROVE x <= y
  <2>1. << y, x >> \in Nat \X Nat
    OBVIOUS
  <2>2. ~(y < x)
    BY <1>2, <2>1, Zenon DEF OpToRel
  <2> QED
    BY <2>2
<1> QED
  BY <1>3

(***************************************************************************)
(* Induction, for a set rather than a predicate.                           *)
(***************************************************************************)
LEMMA SetInduction ==
    ASSUME NEW S \in SUBSET Nat, 0 \in S, \A n \in S : n + 1 \in S
    PROVE  S = Nat
<1> SUFFICES ASSUME S # Nat PROVE FALSE
  OBVIOUS
<1> DEFINE T == Nat \ S
<1>1. PICK x \in T : \A y \in T : x <= y
  BY LeastNumber
<1>2. x # 0 /\ x - 1 \in Nat
  BY <1>1
<1>3. x - 1 \in S
  BY <1>1, <1>2
<1>4. (x - 1) + 1 = x
  BY <1>1
<1> QED
  BY <1>1, <1>3, <1>4

(***************************************************************************)
(* The same up to a bound: what holds at 0 and is passed on below the      *)
(* bound holds up to it.                                                   *)
(***************************************************************************)
LEMMA BoundedInduction ==
    ASSUME NEW n \in Nat, NEW S \in SUBSET (0 .. n), 0 \in S,
           \A i \in S : i < n => i + 1 \in S
    PROVE  S = 0 .. n
<1> DEFINE T == {i \in Nat : i <= n => i \in S}
<1>1. 0 \in T
  OBVIOUS
<1>2. ASSUME NEW i \in T PROVE i + 1 \in T
  OBVIOUS
<1>3. T = Nat
  BY <1>1, <1>2, SetInduction
<1>4. ASSUME NEW i \in 0 .. n PROVE i \in S
  <2>1. i \in T
    BY <1>3
  <2> QED
    BY <2>1
<1> QED
  BY <1>4

(***************************************************************************)
(* Counting up defines a function: whatever the steps f[1], ..., f[n] are, *)
(* there is a function that starts at c and takes them one after another.  *)
(***************************************************************************)
IsIteration(g, n, f, c) == g[0] = c /\ \A i \in 1 .. n : g[i] = f[i][g[i - 1]]

(***************************************************************************)
(* A function defined by iteration on 0 .. n exists.                       *)
(***************************************************************************)
LEMMA Iterates ==
    ASSUME NEW G, NEW n \in Nat, NEW f \in [1 .. n -> [G -> G]], NEW c \in G
    PROVE  \E g \in [0 .. n -> G] : IsIteration(g, n, f, c)
<1> DEFINE Upto(k, g) ==
        /\ g \in [0 .. k -> G]
        /\ \A i \in 0 .. k : g[i] = IF i = 0 THEN c ELSE f[i][g[i - 1]]
<1> DEFINE S == {k \in 0 .. n : \E g \in [0 .. k -> G] : Upto(k, g)}
<1>1. 0 \in S
  <2> DEFINE g0 == [i \in 0 .. 0 |-> c]
  <2>1. g0 \in [0 .. 0 -> G] /\ Upto(0, g0)
    OBVIOUS
  <2> HIDE DEF g0, Upto
  <2>2. \E g \in [0 .. 0 -> G] : Upto(0, g)
    BY <2>1
  <2> QED
    BY <2>2
<1>2. ASSUME NEW k \in S, k < n PROVE k + 1 \in S
  <2>1. PICK g \in [0 .. k -> G] : Upto(k, g)
    OBVIOUS
  <2> DEFINE h == [i \in 0 .. k + 1 |-> IF i = k + 1 THEN f[i][g[k]] ELSE g[i]]
  <2>2. h \in [0 .. k + 1 -> G]
    <3>1. f[k + 1] \in [G -> G]
      BY <1>2
    <3>2. f[k + 1][g[k]] \in G
      BY <2>1, <3>1
    <3> QED
      BY <2>1, <3>2
  <2>3. ASSUME NEW i \in 0 .. k + 1 PROVE h[i] = IF i = 0 THEN c ELSE f[i][h[i - 1]]
    <3>1. CASE i = k + 1
      BY <3>1, <2>1
    <3>2. CASE i # k + 1
      BY <3>2, <2>1
    <3> QED
      BY <3>1, <3>2
  <2>4. Upto(k + 1, h)
    BY <2>2, <2>3
  <2> HIDE DEF h, Upto
  <2>5. \E g1 \in [0 .. k + 1 -> G] : Upto(k + 1, g1)
    BY <2>2, <2>4
  <2> QED
    BY <1>2, <2>5
<1>3. S = 0 .. n
  <2>1. S \in SUBSET (0 .. n)
    OBVIOUS
  <2> HIDE DEF S
  <2> QED
    BY <1>1, <1>2, <2>1, BoundedInduction
<1>4. PICK g \in [0 .. n -> G] : Upto(n, g)
  <2>1. n \in S
    <3> HIDE DEF S
    <3> QED
      BY <1>3
  <2> QED
    BY <2>1
<1>5. IsIteration(g, n, f, c)
  BY <1>4 DEF IsIteration
<1> QED
  BY <1>5

(***************************************************************************)
(* ... and without end: counting up defines a function on all of Nat.      *)
(***************************************************************************)
IsEndlessIteration(g, f, c) == g[0] = c /\ \A i \in Nat \ {0} : g[i] = f[i][g[i - 1]]

(***************************************************************************)
(* A function defined by iteration on the natural numbers exists.          *)
(***************************************************************************)
LEMMA IteratesForever ==
    ASSUME NEW G, NEW f \in [Nat -> [G -> G]], NEW c \in G
    PROVE  \E g \in [Nat -> G] : IsEndlessIteration(g, f, c)
<1> DEFINE Upto(k) == CHOOSE g \in [0 .. k -> G] : IsIteration(g, k, f, c)
           g == [k \in Nat |-> Upto(k)[k]]
<1>1. ASSUME NEW k \in Nat
      PROVE  Upto(k) \in [0 .. k -> G] /\ IsIteration(Upto(k), k, f, c)
  <2> DEFINE start == [i \in 1 .. k |-> f[i]]
  <2>1. start \in [1 .. k -> [G -> G]]
    OBVIOUS
  <2>2. \A i \in 1 .. k : start[i] = f[i]
    OBVIOUS
  <2> HIDE DEF start
  <2>3. PICK h \in [0 .. k -> G] : IsIteration(h, k, start, c)
    BY <2>1, Iterates, Zenon
  <2>4. IsIteration(h, k, f, c)
    BY <2>2, <2>3 DEF IsIteration
  <2> QED
    BY <2>4
<1> HIDE DEF Upto
<1>2. ASSUME NEW k \in Nat PROVE Upto(k + 1)[k] = Upto(k)[k]
  <2> DEFINE a == Upto(k)
             b == Upto(k + 1)
             S == {i \in 0 .. k : a[i] = b[i]}
  <2>1. a[0] = c /\ \A i \in 1 .. k : a[i] = f[i][a[i - 1]]
    BY <1>1 DEF IsIteration
  <2>2. b[0] = c /\ \A i \in 1 .. k + 1 : b[i] = f[i][b[i - 1]]
    <3> DEFINE next == k + 1
    <3>1. next \in Nat
      OBVIOUS
    <3> HIDE DEF next
    <3>2. IsIteration(Upto(next), next, f, c)
      BY <1>1, <3>1
    <3> QED
      BY <3>2 DEF IsIteration, next
  <2> HIDE DEF a, b
  <2>3. 0 \in S
    BY <2>1, <2>2
  <2>4. ASSUME NEW i \in S, i < k PROVE i + 1 \in S
    <3>1. i + 1 \in 1 .. k /\ i + 1 \in 1 .. k + 1 /\ (i + 1) - 1 = i
      BY <2>4
    <3>2. a[i + 1] = f[i + 1][a[i]] /\ b[i + 1] = f[i + 1][b[i]]
      BY <2>1, <2>2, <3>1
    <3> QED
      BY <2>4, <3>1, <3>2
  <2>5. S = 0 .. k
    <3>1. S \in SUBSET (0 .. k)
      OBVIOUS
    <3> HIDE DEF S
    <3> QED
      BY <2>3, <2>4, <3>1, BoundedInduction
  <2>6. k \in S
    <3> HIDE DEF S
    <3> QED
      BY <2>5
  <2> QED
    BY <2>6 DEF a, b
<1>3. g \in [Nat -> G]
  <2>1. ASSUME NEW k \in Nat PROVE Upto(k)[k] \in G
    BY <1>1
  <2> QED
    BY <2>1
<1>4. g[0] = c
  BY <1>1 DEF IsIteration
<1>5. ASSUME NEW i \in Nat \ {0} PROVE g[i] = f[i][g[i - 1]]
  <2>1. i - 1 \in Nat /\ (i - 1) + 1 = i /\ i \in 1 .. i
    OBVIOUS
  <2>2. Upto(i)[i] = f[i][Upto(i)[i - 1]]
    BY <1>1, <2>1 DEF IsIteration
  <2>3. Upto(i)[i - 1] = Upto(i - 1)[i - 1]
    BY <1>2, <2>1
  <2> QED
    BY <2>1, <2>2, <2>3
<1> HIDE DEF g
<1> QED
  BY <1>3, <1>4, <1>5 DEF IsEndlessIteration

-----------------------------------------------------------------------------
(***************************************************************************)
(* Division with a remainder: the remainder is the only number below the   *)
(* modulus that differs from the dividend by a multiple of it.             *)
(***************************************************************************)
LEMMA Remainder ==
    ASSUME NEW a \in Int, NEW m \in Nat \ {0}
    PROVE  /\ a % m \in 0 .. m - 1
           /\ a \div m \in Int
           /\ a = m * (a \div m) + (a % m)
OBVIOUS

(***************************************************************************)
(* The remainder of m * k + r is r.                                        *)
(***************************************************************************)
LEMMA RemainderUnique ==
    ASSUME NEW m \in Nat \ {0}, NEW k \in Int, NEW r \in 0 .. m - 1
    PROVE  (m * k + r) % m = r
<1> DEFINE a == m * k + r
           q == a \div m
           s == a % m
           d == q - k
<1>1. a \in Int
  OBVIOUS
<1>2. s \in 0 .. m - 1 /\ q \in Int /\ a = m * q + s
  BY <1>1, Remainder
<1> HIDE DEF q, s
<1>3. d \in Int /\ m * q = m * k + m * d
  BY <1>2
<1>4. r - s = m * d
  BY <1>2, <1>3
<1> HIDE DEF a, d
<1>5. d = 0
  <2>1. CASE d >= 1
    <3>1. m * d >= m
      BY <1>3, <2>1
    <3> QED
      BY <1>2, <1>4, <3>1
  <2>2. CASE d <= -1
    <3>1. m * d <= -m
      BY <1>3, <2>2
    <3> QED
      BY <1>2, <1>4, <3>1
  <2> QED
    BY <1>3, <2>1, <2>2
<1>6. r = s
  BY <1>2, <1>4, <1>5
<1> QED
  BY <1>6 DEF a, s

(***************************************************************************)
(* A number below m is its own remainder.                                  *)
(***************************************************************************)
LEMMA SmallRemainder ==
    ASSUME NEW m \in Nat \ {0}, NEW a \in 0 .. m - 1
    PROVE  a % m = a
OBVIOUS

(***************************************************************************)
(* Adding a multiple of the modulus changes no remainder, and numbers with *)
(* the same remainder differ by such a multiple.                           *)
(***************************************************************************)
LEMMA SameRemainder ==
    ASSUME NEW m \in Nat \ {0}, NEW a \in Int, NEW k \in Int
    PROVE  (a + m * k) % m = a % m
<1> DEFINE q == a \div m
           r == a % m
<1>1. r \in 0 .. m - 1 /\ q \in Int /\ a = m * q + r
  BY Remainder
<1> HIDE DEF q, r
<1>2. a + m * k = m * (q + k) + r /\ q + k \in Int
  BY <1>1
<1>3. (m * (q + k) + r) % m = r
  BY <1>1, <1>2, RemainderUnique
<1> QED
  BY <1>2, <1>3 DEF r

(***************************************************************************)
(* Numbers with the same remainder differ by a multiple of m.              *)
(***************************************************************************)
LEMMA Congruent ==
    ASSUME NEW m \in Nat \ {0}, NEW a \in Int, NEW b \in Int, a % m = b % m
    PROVE  \E k \in Int : a = b + m * k
<1> DEFINE p == a \div m
           q == b \div m
           r == a % m
           k == p - q
<1>1. r \in Int /\ p \in Int /\ q \in Int /\ a = m * p + r /\ b = m * q + r
  BY Remainder
<1> HIDE DEF p, q, r
<1>2. k \in Int /\ m * p = m * q + m * k
  BY <1>1
<1> HIDE DEF k
<1>3. a = b + m * k
  BY <1>1, <1>2
<1> QED
  BY <1>2, <1>3

(***************************************************************************)
(* A multiple of a modulus that is smaller than it is 0.                   *)
(***************************************************************************)
LEMMA SmallMultiple ==
    ASSUME NEW m \in Nat \ {0}, NEW k \in Int, -m < m * k, m * k < m
    PROVE  k = 0
<1>1. CASE k >= 1
  <2>1. m * k >= m
    BY <1>1
  <2> QED
    BY <2>1
<1>2. CASE k <= -1
  <2>1. m * k <= -m
    BY <1>2
  <2> QED
    BY <2>1
<1> QED
  BY <1>1, <1>2

-----------------------------------------------------------------------------
(***************************************************************************)
(* The widths, and what they have to do with one another.                  *)
(***************************************************************************)
LEMMA Widths ==
    /\ Mod32 \in Nat \ {0} /\ Mod64 \in Nat \ {0}
    /\ Mod32 \div 2 \in Nat /\ Mod32 = 2 * (Mod32 \div 2) /\ Mod32 \div 2 >= 1
    /\ Mod64 \div 2 \in Nat /\ Mod64 = 2 * (Mod64 \div 2)
    /\ Mod64 >= 2 * Mod32 /\ Mod64 \div 2 >= Mod32
<1>1. /\ Mod32 \in Nat /\ Mod32 >= 2 /\ Mod32 % 2 = 0
      /\ Mod64 \in Nat /\ Mod64 >= 2 * Mod32 /\ Mod64 % Mod32 = 0
  BY WidthAssumption
<1>2. Mod32 \div 2 \in Nat /\ Mod32 = 2 * (Mod32 \div 2)
  BY <1>1
<1>3. Mod64 = Mod32 * (Mod64 \div Mod32) /\ Mod64 \div Mod32 \in Int
  BY <1>1, Remainder
<1> DEFINE h == Mod32 \div 2
           q == Mod64 \div Mod32
<1>4. h \in Nat /\ q \in Int /\ Mod64 = 2 * (h * q)
  BY <1>2, <1>3
<1>5. h * q \in Int
  BY <1>4
<1> DEFINE p == h * q
<1> HIDE DEF p
<1>6. Mod64 \div 2 = p /\ p \in Nat
  BY <1>1, <1>4, <1>5 DEF p
<1> QED
  BY <1>1, <1>2, <1>4, <1>6 DEF p

(***************************************************************************)
(* wrap gives a 32-bit number, unwrap a number.                            *)
(***************************************************************************)
LEMMA WrapType ==
    ASSUME NEW n \in Nat, NEW zero_point \in Wrap32
    PROVE  Wrap(n, zero_point) \in Wrap32
BY WidthAssumption DEF Wrap, Wrap32

(***************************************************************************)
(* unwrap returns a number, whatever the checkpoint.                       *)
(***************************************************************************)
LEMMA UnwrapType ==
    ASSUME NEW raw \in Wrap32, NEW zero_point \in Wrap32, NEW checkpoint \in Nat
    PROVE  Unwrap(raw, zero_point, checkpoint) \in Int
<1> DEFINE offset == Offset(raw, zero_point, checkpoint)
           value  == (checkpoint + offset) % Mod64
           absseq == AsInt64(value)
<1>1. Mod32 \in Nat \ {0} /\ Mod64 \in Nat \ {0}
  BY WidthAssumption
<1>2. Wrap(checkpoint, zero_point) \in Int
  BY WrapType DEF Wrap32
<1>3. offset \in Int
  <2> DEFINE distance == (raw - Wrap(checkpoint, zero_point)) % Mod32
  <2>1. distance \in Int
    BY <1>1, <1>2 DEF Wrap32
  <2> HIDE DEF distance
  <2>2. (IF distance < Mod32 \div 2 THEN distance ELSE distance - Mod32) \in Int
    BY <1>1, <2>1
  <2> QED
    BY <2>2 DEF Offset, distance
<1> HIDE DEF offset
<1>4. value \in Int
  BY <1>1, <1>3
<1> HIDE DEF value
<1>5. absseq \in Int
  BY <1>1, <1>4 DEF AsInt64
<1> HIDE DEF absseq
<1>6. (IF absseq < 0 THEN (absseq + Mod32) % Mod64 ELSE absseq) \in Int
  BY <1>1, <1>5
<1> QED
  BY <1>6 DEF Unwrap, absseq, value, offset

(***************************************************************************)
(* Wrapped numbers, and the signed distance unwrap works with: at most     *)
(* half the space either way, and it leads from the checkpoint to a number *)
(* that wraps to the given value.                                          *)
(***************************************************************************)
LEMMA OffsetLeads ==
    ASSUME NEW raw \in Wrap32, NEW zero_point \in Wrap32, NEW checkpoint \in Nat
    PROVE  LET offset == Offset(raw, zero_point, checkpoint)
           IN  /\ offset \in Int
               /\ -(Mod32 \div 2) <= offset /\ offset < Mod32 \div 2
               /\ (zero_point + (checkpoint + offset)) % Mod32 = raw
<1> DEFINE m == Mod32
           h == Mod32 \div 2
           x == zero_point + checkpoint
           w == x % m
           j == x \div m
           y == raw - w
           d == y % m
           k == y \div m
           offset == IF d < h THEN d ELSE d - m
           e == IF d < h THEN 0 ELSE 1
           i == j - k - e
<1>1. m \in Nat \ {0} /\ h \in Nat /\ m = 2 * h
  BY Widths
<1>2. raw \in 0 .. m - 1 /\ zero_point \in 0 .. m - 1
  BY DEF Wrap32
<1> HIDE DEF m, h
<1>3. w \in 0 .. m - 1 /\ j \in Int /\ zero_point + checkpoint = m * j + w
  <2>1. x \in Int
    BY <1>2
  <2> HIDE DEF x
  <2>2. w \in 0 .. m - 1 /\ j \in Int /\ x = m * j + w
    BY <1>1, <2>1, Remainder
  <2> QED
    BY <2>2 DEF x
<1> HIDE DEF w, j
<1>4. d \in 0 .. m - 1 /\ k \in Int /\ raw - w = m * k + d
  <2>1. y \in Int
    BY <1>2, <1>3
  <2> HIDE DEF y
  <2>2. d \in 0 .. m - 1 /\ k \in Int /\ y = m * k + d
    BY <1>1, <2>1, Remainder
  <2> QED
    BY <2>2 DEF y
<1> HIDE DEF d, k
<1>5. e \in Int /\ offset = d - m * e
  BY <1>1, <1>4
<1>6. offset \in Int /\ -h <= offset /\ offset < h
  BY <1>1, <1>4
<1> HIDE DEF offset, e
<1>7. i \in Int /\ m * i = m * j - m * k - m * e
  BY <1>1, <1>3, <1>4, <1>5
<1> HIDE DEF i
<1>8. zero_point + (checkpoint + offset) = m * i + raw
  BY <1>1, <1>2, <1>3, <1>4, <1>5, <1>6, <1>7
<1>9. (m * i + raw) % m = raw
  BY <1>1, <1>2, <1>7, RemainderUnique
<1>10. Offset(raw, zero_point, checkpoint) = offset
  BY DEF Offset, Wrap, offset, d, y, w, x, m, h
<1> QED
  BY <1>6, <1>8, <1>9, <1>10 DEF m, h

(***************************************************************************)
(* unwrap inverts wrap next to the checkpoint, below 2^63.                 *)
(***************************************************************************)
LEMMA UnwrapInvertsWrap ==
    ASSUME NEW zero_point \in Wrap32, NEW checkpoint \in Nat,
           NEW n \in Nat, n < Mod64 \div 2,
           n - checkpoint < Mod32 \div 2, checkpoint - n <= Mod32 \div 2
    PROVE  Unwrap(Wrap(n, zero_point), zero_point, checkpoint) = n
<1> DEFINE m == Mod32
           raw == Wrap(n, zero_point)
           offset == Offset(raw, zero_point, checkpoint)
           a == zero_point + (checkpoint + offset)
           b == zero_point + n
<1>1. m \in Nat \ {0} /\ m \div 2 \in Nat /\ m = 2 * (m \div 2)
  BY Widths
<1>2. raw \in Wrap32 /\ zero_point \in Int
  BY WrapType DEF Wrap32
<1>3. /\ offset \in Int /\ -(m \div 2) <= offset /\ offset < m \div 2
      /\ a % m = raw
  BY <1>2, OffsetLeads
<1> HIDE DEF offset
<1>4. b % m = raw
  BY DEF Wrap
<1> HIDE DEF raw, m
<1>5. a \in Int /\ b \in Int
  BY <1>2, <1>3
<1>6. PICK k \in Int : a = b + m * k
  <2> HIDE DEF a, b
  <2>1. a % m = b % m
    BY <1>3, <1>4
  <2> QED
    BY <1>1, <1>5, <2>1, Congruent
<1>7. k = 0
  <2>1. m * k = (checkpoint + offset) - n
    BY <1>1, <1>2, <1>3, <1>6
  <2>2. -m < m * k /\ m * k < m
    BY <1>1, <1>3, <2>1 DEF m
  <2> QED
    BY <1>1, <2>2, SmallMultiple
<1>8. checkpoint + offset = n
  BY <1>1, <1>2, <1>3, <1>6, <1>7
<1>9. n % Mod64 = n /\ AsInt64(n) = n
  <2>1. n \in 0 .. Mod64 - 1
    BY Widths
  <2> QED
    BY <2>1, Widths, SmallRemainder DEF AsInt64
<1> QED
  BY <1>8, <1>9 DEF Unwrap, offset, raw

-----------------------------------------------------------------------------
(***************************************************************************)
(* A sequence's length, and the elements and length of a part of it.       *)
(***************************************************************************)
LEMMA LenIsNat ==
    ASSUME NEW S, NEW q \in Seq(S)
    PROVE  Len(q) \in Nat
OBVIOUS

(***************************************************************************)
(* A suffix of a sequence: its length and its elements.                    *)
(***************************************************************************)
LEMMA SuffixProperties ==
    ASSUME NEW S, NEW q \in Seq(S), NEW n \in 0 .. Len(q)
    PROVE  LET rest == SubSeq(q, n + 1, Len(q))
           IN  /\ rest \in Seq(S)
               /\ Len(rest) = Len(q) - n
               /\ \A i \in 1 .. Len(q) - n : rest[i] = q[n + i]
OBVIOUS

(***************************************************************************)
(* A prefix of a sequence: its length and its elements.                    *)
(***************************************************************************)
LEMMA PrefixProperties ==
    ASSUME NEW S, NEW q \in Seq(S), NEW n \in 0 .. Len(q)
    PROVE  LET front == SubSeq(q, 1, n)
           IN  /\ front \in Seq(S)
               /\ Len(front) = n
               /\ \A i \in 1 .. n : front[i] = q[i]
OBVIOUS

-----------------------------------------------------------------------------
(***************************************************************************)
(* A stream within its capacity, and the calls on it that keep it so.      *)
(***************************************************************************)
SoundStream(q) == q \in Stream /\ Len(q.buf) <= q.capacity

(***************************************************************************)
(* A new stream is sound.                                                  *)
(***************************************************************************)
LEMMA NewStreamSound ==
    ASSUME NEW capacity \in Nat
    PROVE  SoundStream(NewStream(capacity))
BY DEF SoundStream, Stream, NewStream

(***************************************************************************)
(* n consecutive bytes of a stream are a sequence of n bytes.              *)
(***************************************************************************)
LEMMA BytesFromType ==
    ASSUME NEW first \in Nat, NEW n \in Nat
    PROVE  BytesFrom(first, n) \in Seq(Byte) /\ Len(BytesFrom(first, n)) = n
BY DEF BytesFrom, Byte

(***************************************************************************)
(* Cutting a run of consecutive bytes, and joining two adjacent ones.      *)
(***************************************************************************)
LEMMA BytesFromParts ==
    ASSUME NEW first \in Nat, NEW n \in Nat, NEW k \in 0 .. n
    PROVE  /\ SubSeq(BytesFrom(first, n), 1, k) = BytesFrom(first, k)
           /\ SubSeq(BytesFrom(first, n), k + 1, n) = BytesFrom(first + k, n - k)
<1> DEFINE all == BytesFrom(first, n)
<1>1. all \in Seq(Byte) /\ Len(all) = n /\ \A i \in 1 .. n : all[i] = first + i - 1
  BY BytesFromType DEF BytesFrom
<1>2. BytesFrom(first, k) = [i \in 1 .. k |-> first + i - 1]
  BY DEF BytesFrom
<1>3. BytesFrom(first + k, n - k) = [i \in 1 .. n - k |-> first + k + i - 1]
  BY DEF BytesFrom
<1> HIDE DEF all
<1>4. SubSeq(all, 1, k) = [i \in 1 .. k |-> first + i - 1]
  BY <1>1
<1>5. SubSeq(all, k + 1, n) = [i \in 1 .. n - k |-> first + k + i - 1]
  BY <1>1
<1> QED
  BY <1>2, <1>3, <1>4, <1>5 DEF all

(***************************************************************************)
(* No bytes are the empty sequence.                                        *)
(***************************************************************************)
LEMMA BytesFromNone ==
    ASSUME NEW first \in Nat
    PROVE  BytesFrom(first, 0) = << >>
<1>1. BytesFrom(first, 0) \in Seq(Byte) /\ Len(BytesFrom(first, 0)) = 0
  BY BytesFromType
<1> QED
  BY <1>1, EmptySeq

(***************************************************************************)
(* A piece of consecutive bytes is made of consecutive bytes.              *)
(***************************************************************************)
LEMMA BytesFromMiddle ==
    ASSUME NEW first \in Nat, NEW n \in Nat, NEW b \in 0 .. n, NEW a \in 0 .. b
    PROVE  SubSeq(BytesFrom(first, n), a + 1, b) = BytesFrom(first + a, b - a)
<1> DEFINE all == BytesFrom(first, n)
           front == BytesFrom(first, b)
<1>1. all \in Seq(Byte) /\ Len(all) = n /\ \A i \in 1 .. n : all[i] = first + i - 1
  BY BytesFromType DEF BytesFrom
<1>2. b \in Nat /\ a \in Nat /\ a <= b /\ b <= n
  OBVIOUS
<1>3. front \in Seq(Byte) /\ Len(front) = b /\ \A i \in 1 .. b : front[i] = first + i - 1
  BY <1>2, BytesFromType DEF BytesFrom
<1>4. SubSeq(front, a + 1, b) = BytesFrom(first + a, b - a)
  BY <1>2, BytesFromParts
<1> HIDE DEF all, front
<1>5. SubSeq(all, a + 1, b) = SubSeq(front, a + 1, b)
  BY <1>1, <1>2, <1>3
<1> QED
  BY <1>4, <1>5 DEF all

(***************************************************************************)
(* Consecutive bytes continue each other.                                  *)
(***************************************************************************)
LEMMA BytesFromJoined ==
    ASSUME NEW first \in Nat, NEW n \in Nat, NEW k \in Nat
    PROVE  BytesFrom(first, n) \o BytesFrom(first + n, k) = BytesFrom(first, n + k)
<1> DEFINE a == BytesFrom(first, n)
           second == first + n
           b == BytesFrom(second, k)
           total == n + k
           both == BytesFrom(first, total)
<1>1. second \in Nat /\ total \in Nat
  OBVIOUS
<1> HIDE DEF second, total
<1>2. a \in Seq(Byte) /\ Len(a) = n /\ \A i \in 1 .. n : a[i] = first + i - 1
  BY BytesFromType DEF BytesFrom
<1>3. b \in Seq(Byte) /\ Len(b) = k /\ \A i \in 1 .. k : b[i] = second + i - 1
  BY <1>1, BytesFromType DEF BytesFrom
<1>4. both \in Seq(Byte) /\ Len(both) = total /\ \A i \in 1 .. total : both[i] = first + i - 1
  BY <1>1, BytesFromType DEF BytesFrom
<1> HIDE DEF a, b, both
<1>5. a \o b \in Seq(Byte) /\ Len(a \o b) = total
  BY <1>2, <1>3 DEF total
<1>6. ASSUME NEW i \in 1 .. total PROVE (a \o b)[i] = both[i]
  <2>1. CASE i \in 1 .. n
    BY <1>2, <1>3, <1>4, <2>1 DEF total
  <2>2. CASE i \notin 1 .. n
    <3>1. i - n \in 1 .. k /\ (a \o b)[i] = b[i - n]
      BY <1>2, <1>3, <2>2 DEF total
    <3> QED
      BY <1>3, <1>4, <3>1 DEF second
  <2> QED
    BY <2>1, <2>2
<1>7. a \o b = both
  BY <1>4, <1>5, <1>6, SeqEqual
<1> QED
  BY <1>7 DEF a, b, both, second, total

(***************************************************************************)
(* push never fills a stream beyond its capacity.                          *)
(***************************************************************************)
LEMMA PushBytesSound ==
    ASSUME NEW q, SoundStream(q), NEW data \in Seq(Byte)
    PROVE  SoundStream(PushBytes(q, data))
<1> DEFINE n == Lesser(Len(data), AvailableCapacity(q))
           front == SubSeq(data, 1, n)
<1>1. q \in Stream /\ q.buf \in Seq(Byte) /\ q.capacity \in Nat /\ q.pushed \in Nat
  BY DEF SoundStream, Stream
<1>2. Len(data) \in Nat /\ Len(q.buf) \in Nat
  BY <1>1, LenIsNat
<1>3. n \in 0 .. Len(data) /\ Len(q.buf) + n <= q.capacity
  BY <1>1, <1>2 DEF SoundStream, AvailableCapacity, Lesser
<1>4. front \in Seq(Byte) /\ Len(front) = n
  BY <1>3, PrefixProperties
<1>5. q.buf \o front \in Seq(Byte) /\ Len(q.buf \o front) = Len(q.buf) + n
  BY <1>1, <1>4
<1> HIDE DEF n, front
<1>6. SoundStream([q EXCEPT !.buf = @ \o front, !.pushed = @ + n])
  <2> DEFINE b == q.buf \o front
             p == q.pushed + n
  <2>1. b \in Seq(Byte) /\ p \in Nat /\ Len(b) <= q.capacity
    BY <1>1, <1>2, <1>3, <1>5
  <2> HIDE DEF b, p
  <2> DEFINE r == [q EXCEPT !.buf = b, !.pushed = p]
  <2>2. r \in Stream /\ r.buf = b /\ r.capacity = q.capacity
    BY <1>1, <2>1 DEF Stream
  <2> HIDE DEF r
  <2>3. SoundStream(r)
    BY <2>1, <2>2 DEF SoundStream
  <2> QED
    BY <2>3 DEF r, b, p
<1> QED
  BY <1>6 DEF PushBytes, n, front

(***************************************************************************)
(* pop leaves a sound stream that has less in its buffer and the same      *)
(* counter of what was pushed.                                             *)
(***************************************************************************)
LEMMA PopBytesSound ==
    ASSUME NEW q, SoundStream(q), NEW n \in 0 .. Len(q.buf)
    PROVE  /\ SoundStream(PopBytes(q, n))
           /\ Len(PopBytes(q, n).buf) = Len(q.buf) - n
<1>1. q \in Stream /\ q.buf \in Seq(Byte) /\ q.capacity \in Nat
  BY DEF SoundStream, Stream
<1>2. SubSeq(q.buf, n + 1, Len(q.buf)) \in Seq(Byte)
  BY <1>1, SuffixProperties
<1>3. Len(SubSeq(q.buf, n + 1, Len(q.buf))) = Len(q.buf) - n
  BY <1>1, SuffixProperties
<1>4. Len(q.buf) \in Nat
  BY <1>1, LenIsNat
<1> DEFINE b == SubSeq(q.buf, n + 1, Len(q.buf))
           r == [q EXCEPT !.buf = b]
<1>5. b \in Seq(Byte) /\ Len(b) = Len(q.buf) - n /\ Len(b) <= q.capacity
  BY <1>1, <1>2, <1>3, <1>4 DEF SoundStream
<1> HIDE DEF b
<1>6. r \in Stream /\ r.buf = b /\ r.capacity = q.capacity
  BY <1>1, <1>5 DEF Stream
<1> HIDE DEF r
<1> QED
  BY <1>5, <1>6 DEF SoundStream, PopBytes, r, b

(***************************************************************************)
(* close and set_error leave a stream sound.                               *)
(***************************************************************************)
LEMMA FlagsSound ==
    ASSUME NEW q, SoundStream(q)
    PROVE  SoundStream(CloseStream(q)) /\ SoundStream(SetError(q))
BY DEF SoundStream, Stream, CloseStream, SetError

(***************************************************************************)
(* A buffer that holds the stream's bytes in order: those from the first   *)
(* one not yet popped to the last one pushed.                              *)
(***************************************************************************)
OrderlyBuffer(q) ==
    /\ Len(q.buf) <= q.pushed
    /\ q.buf = BytesFrom(BytesPopped(q), Len(q.buf))

(***************************************************************************)
(* A new stream holds consecutive bytes, none, and nothing was popped from *)
(* it.                                                                     *)
(***************************************************************************)
LEMMA NewStreamOrderly ==
    ASSUME NEW capacity \in Nat
    PROVE  OrderlyBuffer(NewStream(capacity)) /\ BytesPopped(NewStream(capacity)) = 0
<1>1. BytesFrom(0, 0) \in Seq(Byte) /\ Len(BytesFrom(0, 0)) = 0
  BY BytesFromType
<1>2. BytesFrom(0, 0) = << >>
  BY <1>1
<1> QED
  BY <1>2 DEF OrderlyBuffer, NewStream, BytesPopped

(***************************************************************************)
(* Pushing the next bytes of the stream keeps its buffer consecutive;      *)
(* nothing is popped by it.                                                *)
(***************************************************************************)
LEMMA PushKeepsOrder ==
    ASSUME NEW q, SoundStream(q), OrderlyBuffer(q), NEW n \in Nat
    PROVE  LET r == PushBytes(q, BytesFrom(q.pushed, n))
           IN  /\ OrderlyBuffer(r)
               /\ BytesPopped(r) = BytesPopped(q)
               /\ r.closed = q.closed
               /\ q.closed => r = q
<1> DEFINE data == BytesFrom(q.pushed, n)
           k == Lesser(Len(data), AvailableCapacity(q))
           popped == BytesPopped(q)
           b == q.buf \o SubSeq(data, 1, k)
           r == [q EXCEPT !.buf = b, !.pushed = @ + k]
<1>1. /\ q \in Stream /\ q.buf \in Seq(Byte) /\ q.pushed \in Nat /\ q.capacity \in Nat
      /\ Len(q.buf) <= q.capacity /\ Len(q.buf) <= q.pushed
  BY DEF SoundStream, Stream, OrderlyBuffer
<1>2. Len(q.buf) \in Nat /\ popped \in Nat /\ popped + Len(q.buf) = q.pushed
  BY <1>1, LenIsNat DEF BytesPopped
<1>3. q.buf = BytesFrom(popped, Len(q.buf))
  BY DEF OrderlyBuffer
<1>4. Len(data) = n
  BY <1>1, BytesFromType
<1>5. k \in 0 .. n
  BY <1>1, <1>2, <1>4 DEF AvailableCapacity, Lesser
<1>6. SubSeq(data, 1, k) = BytesFrom(q.pushed, k)
  BY <1>1, <1>5, BytesFromParts
<1> HIDE DEF data, k, popped
<1>7. b = BytesFrom(popped, Len(q.buf) + k)
  <2>1. b = BytesFrom(popped, Len(q.buf)) \o BytesFrom(popped + Len(q.buf), k)
    BY <1>2, <1>3, <1>6
  <2>2. k \in Nat
    BY <1>5
  <2>3. BytesFrom(popped, Len(q.buf)) \o BytesFrom(popped + Len(q.buf), k)
            = BytesFrom(popped, Len(q.buf) + k)
    BY <1>2, <2>2, BytesFromJoined
  <2> QED
    BY <2>1, <2>3
<1>8. Len(b) = Len(q.buf) + k
  <2>1. Len(q.buf) + k \in Nat
    BY <1>2, <1>5
  <2> QED
    BY <1>2, <1>7, <2>1, BytesFromType
<1> HIDE DEF b
<1>9. r.buf = b /\ r.pushed = q.pushed + k /\ r.closed = q.closed
  BY <1>1 DEF Stream
<1> HIDE DEF r
<1>10. BytesPopped(r) = popped /\ OrderlyBuffer(r)
  BY <1>2, <1>5, <1>7, <1>8, <1>9 DEF BytesPopped, OrderlyBuffer
<1>11. PushBytes(q, data) = IF q.closed THEN q ELSE r
  BY DEF PushBytes, k, b, r
<1> QED
  BY <1>9, <1>10, <1>11 DEF data, popped

(***************************************************************************)
(* What fits into the capacity of an open stream is pushed in full.        *)
(***************************************************************************)
LEMMA PushFits ==
    ASSUME NEW q, SoundStream(q), ~q.closed, NEW data \in Seq(Byte),
           Len(data) <= AvailableCapacity(q)
    PROVE  LET r == PushBytes(q, data)
           IN  /\ r.pushed = q.pushed + Len(data)
               /\ r.capacity = q.capacity /\ r.error = q.error /\ r.closed = q.closed
<1>1. Len(data) \in Nat /\ Lesser(Len(data), AvailableCapacity(q)) = Len(data)
  BY DEF Lesser
<1> QED
  BY <1>1 DEF PushBytes, SoundStream, Stream

(***************************************************************************)
(* close and set_error do not touch the buffer.                            *)
(***************************************************************************)
LEMMA FlagsKeepOrder ==
    ASSUME NEW q \in Stream, OrderlyBuffer(q), NEW r \in {CloseStream(q), SetError(q)}
    PROVE  /\ r \in Stream /\ OrderlyBuffer(r)
           /\ BytesPopped(r) = BytesPopped(q)
           /\ IsFinished(q) => IsFinished(r)
<1>1. r \in Stream /\ r.buf = q.buf /\ r.pushed = q.pushed /\ (q.closed => r.closed)
  BY DEF CloseStream, SetError, Stream
<1> QED
  BY <1>1 DEF OrderlyBuffer, BytesPopped, IsFinished

(***************************************************************************)
(* pop keeps the rest of the buffer consecutive and counts what it         *)
(* removed.                                                                *)
(***************************************************************************)
LEMMA PopKeepsOrder ==
    ASSUME NEW q, SoundStream(q), OrderlyBuffer(q), NEW k \in 0 .. Len(q.buf)
    PROVE  /\ OrderlyBuffer(PopBytes(q, k))
           /\ BytesPopped(PopBytes(q, k)) = BytesPopped(q) + k
           /\ PopBytes(q, k).closed = q.closed
           /\ SubSeq(q.buf, 1, k) = BytesFrom(BytesPopped(q), k)
<1> DEFINE popped == BytesPopped(q)
           n == Len(q.buf)
           b == SubSeq(q.buf, k + 1, n)
           r == PopBytes(q, k)
<1>1. /\ q \in Stream /\ q.buf \in Seq(Byte) /\ q.pushed \in Nat /\ n <= q.pushed
  BY DEF SoundStream, Stream, OrderlyBuffer
<1>2. n \in Nat /\ popped \in Nat /\ popped + n = q.pushed
  BY <1>1, LenIsNat DEF BytesPopped
<1>3. q.buf = BytesFrom(popped, n)
  BY DEF OrderlyBuffer
<1> HIDE DEF popped, n
<1>4. k \in 0 .. n
  BY DEF n
<1>5. SubSeq(q.buf, 1, k) = BytesFrom(popped, k) /\ b = BytesFrom(popped + k, n - k)
  BY <1>2, <1>3, <1>4, BytesFromParts
<1>6. Len(b) = n - k
  BY <1>2, <1>4, <1>5, BytesFromType
<1>7. r.buf = b /\ r.pushed = q.pushed /\ r.closed = q.closed
  BY <1>1 DEF PopBytes, Stream, n
<1> HIDE DEF b, r
<1>8. BytesPopped(r) = popped + k /\ Len(r.buf) <= r.pushed
  BY <1>1, <1>2, <1>4, <1>6, <1>7 DEF BytesPopped
<1>9. OrderlyBuffer(r)
  BY <1>5, <1>6, <1>7, <1>8 DEF OrderlyBuffer
<1> QED
  BY <1>5, <1>9, <1>7, <1>8 DEF popped, r

-----------------------------------------------------------------------------
(***************************************************************************)
(* A message occupies a natural number of sequence numbers.                *)
(***************************************************************************)
LEMMA SeqLengthType ==
    ASSUME NEW msg \in SenderMessage
    PROVE  SeqLength(msg) \in Nat
<1>1. Len(msg.payload) \in Nat
  BY LenIsNat DEF SenderMessage
<1>2. One(msg.SYN) \in Nat /\ One(msg.FIN) \in Nat
  BY DEF One
<1> QED
  BY <1>1, <1>2 DEF SeqLength

(***************************************************************************)
(* Ends is what its recursive definition says.                             *)
(***************************************************************************)
LEMMA EndsUnfold ==
    ASSUME NEW queue \in Seq(SenderMessage), NEW start \in Nat
    PROVE  /\ Ends(queue, start) \in [0 .. Len(queue) -> Nat]
           /\ Ends(queue, start)[0] = start
           /\ \A i \in 1 .. Len(queue) :
                  Ends(queue, start)[i] = Ends(queue, start)[i - 1] + SeqLength(queue[i])
<1> DEFINE n == Len(queue)
           f == [i \in 1 .. n |-> [x \in Nat |-> x + SeqLength(queue[i])]]
           E == Ends(queue, start)
<1>1. n \in Nat
  BY LenIsNat
<1>2. \A i \in 1 .. n : SeqLength(queue[i]) \in Nat
  BY SeqLengthType
<1>3. f \in [1 .. n -> [Nat -> Nat]]
  BY <1>2
<1> HIDE DEF n
<1>4. PICK g \in [0 .. n -> Nat] :
          g[0] = start /\ \A i \in 1 .. n : g[i] = f[i][g[i - 1]]
  <2> HIDE DEF f
  <2>1. \E g \in [0 .. n -> Nat] : IsIteration(g, n, f, start)
    BY <1>1, <1>3, Iterates, Zenon
  <2> QED
    BY <2>1 DEF IsIteration
<1>5. ASSUME NEW i \in 1 .. n
      PROVE  g[i] = g[i - 1] + SeqLength(queue[i])
  <2>1. g[i - 1] \in Nat
    BY <1>1
  <2> QED
    BY <1>4, <2>1
<1>6. g = [i \in 0 .. n |-> IF i = 0 THEN start ELSE g[i - 1] + SeqLength(queue[i])]
  <2> HIDE DEF f
  <2>1. g = [i \in 0 .. n |-> g[i]]
    OBVIOUS
  <2>2. \A i \in 0 .. n : g[i] = IF i = 0 THEN start ELSE g[i - 1] + SeqLength(queue[i])
    BY <1>1, <1>4, <1>5
  <2> QED
    BY <2>1, <2>2
<1>7. E = [i \in 0 .. n |-> IF i = 0 THEN start ELSE E[i - 1] + SeqLength(queue[i])]
  BY <1>6 DEF Ends, n
<1> HIDE DEF E
<1>8. E \in [0 .. n -> Nat]
  <2> DEFINE S == {i \in 0 .. n : E[i] \in Nat}
  <2>1. 0 \in S
    BY <1>1, <1>7
  <2>2. ASSUME NEW i \in S, i < n PROVE i + 1 \in S
    <3>1. i + 1 \in 1 .. n /\ (i + 1) - 1 = i
      BY <1>1, <2>2
    <3>2. E[i + 1] = E[i] + SeqLength(queue[i + 1])
      BY <1>1, <1>7, <3>1
    <3> QED
      BY <1>1, <1>2, <3>1, <3>2
  <2>3. S = 0 .. n
    <3> HIDE DEF S
    <3>1. S \in SUBSET (0 .. n)
      BY DEF S
    <3> QED
      BY <1>1, <2>1, <2>2, <3>1, BoundedInduction
  <2> QED
    BY <1>7, <2>3
<1> QED
  BY <1>1, <1>7, <1>8 DEF E, n

(***************************************************************************)
(* ... and it is the only function of which that is true.                  *)
(***************************************************************************)
LEMMA EndsUnique ==
    ASSUME NEW queue \in Seq(SenderMessage), NEW start \in Nat,
           NEW m \in 0 .. Len(queue), NEW g, g[0] = start,
           \A i \in 1 .. m : g[i] = g[i - 1] + SeqLength(queue[i])
    PROVE  \A i \in 0 .. m : g[i] = Ends(queue, start)[i]
<1> DEFINE E == Ends(queue, start)
           S == {i \in 0 .. m : g[i] = E[i]}
<1>1. m \in Nat /\ Len(queue) \in Nat /\ m <= Len(queue)
  BY LenIsNat
<1>2. E[0] = start /\ \A i \in 1 .. m : E[i] = E[i - 1] + SeqLength(queue[i])
  BY <1>1, EndsUnfold
<1> HIDE DEF E
<1>3. 0 \in S
  BY <1>1, <1>2
<1>4. ASSUME NEW i \in S, i < m PROVE i + 1 \in S
  <2>1. i + 1 \in 1 .. m /\ (i + 1) - 1 = i
    BY <1>1, <1>4
  <2>2. E[i + 1] = E[i] + SeqLength(queue[i + 1]) /\ g[i + 1] = g[i] + SeqLength(queue[i + 1])
    BY <1>2, <2>1
  <2> QED
    BY <1>1, <2>1, <2>2
<1>5. S = 0 .. m
  <2>1. S \in SUBSET (0 .. m)
    OBVIOUS
  <2> HIDE DEF S
  <2> QED
    BY <1>1, <1>3, <1>4, <2>1, BoundedInduction
<1>6. ASSUME NEW i \in 0 .. m PROVE g[i] = E[i]
  <2>1. i \in S
    <3> HIDE DEF S
    <3> QED
      BY <1>5
  <2> QED
    BY <2>1
<1> QED
  BY <1>6 DEF E

(***************************************************************************)
(* A queue ends where it starts or later, and no message of it ends after  *)
(* the queue does.                                                         *)
(***************************************************************************)
LEMMA EndsBounded ==
    ASSUME NEW queue \in Seq(SenderMessage), NEW start \in Nat
    PROVE  \A i \in 0 .. Len(queue) :
               /\ start <= Ends(queue, start)[i]
               /\ Ends(queue, start)[i] <= Ends(queue, start)[Len(queue)]
<1> DEFINE E == Ends(queue, start)
           n == Len(queue)
           Low  == {i \in 0 .. n : start <= E[i]}
           High == {k \in 0 .. n : E[n - k] <= E[n]}
<1>1. n \in Nat
  BY LenIsNat
<1>2. E \in [0 .. n -> Nat] /\ E[0] = start
  BY EndsUnfold
<1>3. ASSUME NEW i \in 0 .. n, i < n PROVE E[i] <= E[i + 1]
  <2>1. i + 1 \in 1 .. n /\ (i + 1) - 1 = i
    BY <1>1, <1>3
  <2>2. E[i + 1] = E[i] + SeqLength(queue[i + 1])
    BY <2>1, EndsUnfold
  <2>3. SeqLength(queue[i + 1]) \in Nat /\ E[i] \in Nat
    BY <1>2, <2>1, SeqLengthType
  <2> QED
    BY <2>2, <2>3
<1> HIDE DEF E, n
<1>4. Low = 0 .. n
  <2>1. 0 \in Low
    BY <1>1, <1>2
  <2>2. ASSUME NEW i \in Low, i < n PROVE i + 1 \in Low
    <3>1. i + 1 \in 0 .. n /\ E[i] \in Nat /\ E[i + 1] \in Nat
      BY <1>1, <1>2, <2>2
    <3> QED
      BY <1>3, <2>2, <3>1
  <2>3. Low \in SUBSET (0 .. n)
    OBVIOUS
  <2> HIDE DEF Low
  <2> QED
    BY <1>1, <2>1, <2>2, <2>3, BoundedInduction
<1>5. High = 0 .. n
  <2>1. 0 \in High
    BY <1>1, <1>2
  <2>2. ASSUME NEW k \in High, k < n PROVE k + 1 \in High
    <3>1. n - (k + 1) \in 0 .. n /\ n - (k + 1) < n /\ (n - (k + 1)) + 1 = n - k
      BY <1>1, <2>2
    <3>2. E[n - (k + 1)] <= E[n - k]
      BY <1>3, <3>1
    <3>3. E[n - (k + 1)] \in Nat /\ E[n - k] \in Nat /\ E[n] \in Nat
      BY <1>1, <1>2, <3>1
    <3> QED
      BY <1>1, <2>2, <3>2, <3>3
  <2>3. High \in SUBSET (0 .. n)
    OBVIOUS
  <2> HIDE DEF High
  <2> QED
    BY <1>1, <2>1, <2>2, <2>3, BoundedInduction
<1>6. ASSUME NEW i \in 0 .. n PROVE start <= E[i] /\ E[i] <= E[n]
  <2>1. i \in Low /\ n - i \in High
    <3> HIDE DEF Low, High
    <3> QED
      BY <1>1, <1>4, <1>5
  <2>2. n - (n - i) = i
    BY <1>1
  <2> QED
    BY <2>1, <2>2
<1> QED
  BY <1>6 DEF E, n

(***************************************************************************)
(* A message put at the end of a queue ends its length after the queue.    *)
(***************************************************************************)
LEMMA EndsAppend ==
    ASSUME NEW queue \in Seq(SenderMessage), NEW start \in Nat, NEW msg \in SenderMessage
    PROVE  /\ \A i \in 0 .. Len(queue) :
                  Ends(Append(queue, msg), start)[i] = Ends(queue, start)[i]
           /\ Ends(Append(queue, msg), start)[Len(queue) + 1] =
                  Ends(queue, start)[Len(queue)] + SeqLength(msg)
<1> DEFINE n == Len(queue)
           longer == Append(queue, msg)
           L == Ends(longer, start)
<1>1. n \in Nat
  BY LenIsNat
<1>2. longer \in Seq(SenderMessage) /\ Len(longer) = n + 1 /\ longer[n + 1] = msg
  OBVIOUS
<1>3. \A i \in 1 .. n : longer[i] = queue[i]
  OBVIOUS
<1>4. L[0] = start /\ \A i \in 1 .. n + 1 : L[i] = L[i - 1] + SeqLength(longer[i])
  <2> HIDE DEF longer, n
  <2>1. L[0] = start /\ \A i \in 1 .. Len(longer) : L[i] = L[i - 1] + SeqLength(longer[i])
    BY <1>2, EndsUnfold
  <2> QED
    BY <1>2, <2>1
<1> HIDE DEF longer, L
<1>5. \A i \in 1 .. n : L[i] = L[i - 1] + SeqLength(queue[i])
  <2> HIDE DEF n
  <2> QED
    BY <1>1, <1>3, <1>4
<1>6. \A i \in 0 .. n : L[i] = Ends(queue, start)[i]
  BY <1>1, <1>4, <1>5, EndsUnique
<1>7. L[n + 1] = L[n] + SeqLength(msg)
  <2> HIDE DEF n
  <2>1. n + 1 \in 1 .. n + 1 /\ (n + 1) - 1 = n
    BY <1>1
  <2> QED
    BY <1>2, <1>4, <2>1
<1> QED
  BY <1>1, <1>6, <1>7 DEF longer, L

(***************************************************************************)
(* What is left when n messages leave the front of a queue starts where    *)
(* the n-th ended, and its messages end where they did.                    *)
(***************************************************************************)
LEMMA EndsSuffix ==
    ASSUME NEW queue \in Seq(SenderMessage), NEW start \in Nat, NEW n \in 0 .. Len(queue)
    PROVE  LET left == SubSeq(queue, n + 1, Len(queue))
           IN  \A i \in 0 .. Len(queue) - n :
                   Ends(left, Ends(queue, start)[n])[i] = Ends(queue, start)[n + i]
<1> DEFINE E == Ends(queue, start)
           m == Len(queue) - n
           left == SubSeq(queue, n + 1, Len(queue))
           g == [i \in 0 .. m |-> E[n + i]]
<1>1. m \in Nat /\ Len(queue) \in Nat /\ n \in Nat /\ n + m = Len(queue)
  BY LenIsNat
<1>2. left \in Seq(SenderMessage) /\ Len(left) = m /\ \A i \in 1 .. m : left[i] = queue[n + i]
  BY SuffixProperties
<1>3. E \in [0 .. Len(queue) -> Nat]
      /\ \A i \in 1 .. Len(queue) : E[i] = E[i - 1] + SeqLength(queue[i])
  BY EndsUnfold
<1> HIDE DEF E, m, left
<1>4. E[n] \in Nat /\ g[0] = E[n]
  BY <1>1, <1>3
<1>5. ASSUME NEW i \in 1 .. m PROVE g[i] = g[i - 1] + SeqLength(left[i])
  <2>1. n + i \in 1 .. Len(queue) /\ (n + i) - 1 = n + (i - 1) /\ i - 1 \in 0 .. m /\ i \in 0 .. m
    BY <1>1
  <2>2. g[i] = E[n + i] /\ g[i - 1] = E[n + (i - 1)]
    BY <2>1
  <2>3. E[n + i] = E[n + (i - 1)] + SeqLength(queue[n + i])
    BY <1>3, <2>1
  <2> QED
    BY <1>2, <2>2, <2>3
<1>6. \A i \in 0 .. m : g[i] = Ends(left, E[n])[i]
  <2> HIDE DEF g
  <2>1. m \in 0 .. Len(left)
    BY <1>1, <1>2
  <2>2. \A i \in 1 .. m : g[i] = g[i - 1] + SeqLength(left[i])
    BY <1>5
  <2> DEFINE a == E[n]
  <2>3. a \in Nat /\ g[0] = a
    BY <1>4
  <2> HIDE DEF a
  <2>4. \A i \in 0 .. m : g[i] = Ends(left, a)[i]
    BY <1>2, <2>1, <2>2, <2>3, EndsUnique
  <2> QED
    BY <2>4 DEF a
<1>7. \A i \in 0 .. m : E[n + i] = Ends(left, E[n])[i]
  BY <1>6
<1> QED
  BY <1>7 DEF E, m, left
=============================================================================
