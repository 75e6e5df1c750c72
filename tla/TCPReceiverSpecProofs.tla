------------------------ MODULE TCPReceiverSpecProofs -----------------------
(***************************************************************************)
(* The reassembler keeps a normal list, loses nothing it has room for, and *)
(* does what StreamAssembly promises.  With it in the TCPReceiver, what    *)
(* the receiver acknowledges has arrived, what it has promised is          *)
(* never taken back, and what it advertises it can take: for every stream  *)
(* length, every capacity, every ISN and all integer widths.               *)
(***************************************************************************)
EXTENDS ReassemblerSpec, TCPReceiverSpec, TCPPeerProofs

(***************************************************************************)
(* The Reassembler on its own.  The inductive invariant.                   *)
(***************************************************************************)
AssemblyInv ==
    /\ SoundReassembler(reassembler, InsertedLen)
    /\ reassembler.output.capacity = OutputCapacity

(***************************************************************************)
(* After any sequence of inserts and reads the reassembler is sound.       *)
(***************************************************************************)
THEOREM AssemblyInvariance == AssemblySpec => []AssemblyInv
<1>1. AssemblyInit => AssemblyInv
  BY StreamAssumption, NewReassemblerSound DEF AssemblyInit, AssemblyInv
<1>2. ASSUME AssemblyInv, [AssemblyNext]_reassembler PROVE AssemblyInv'
  <2>1. ASSUME NEW first \in 0 .. InsertedLen, NEW n \in 0 .. InsertedLen, NEW is_last \in BOOLEAN,
               InsertSubstring(first, n, is_last)
        PROVE  AssemblyInv'
    <3>1. /\ first \in Nat /\ n \in Nat /\ first + n <= InsertedLen
          /\ is_last => first + n = InsertedLen
      BY <2>1, StreamAssumption DEF InsertSubstring
    <3> DEFINE s == Insert(reassembler, first, BytesFrom(first, n), is_last)
    <3>2. SoundReassembler(s, InsertedLen) /\ SameReader(s, reassembler)
      BY <1>2, <3>1, StreamAssumption, InsertDelivers DEF AssemblyInv
    <3>3. reassembler' = s
      BY <2>1 DEF InsertSubstring
    <3> HIDE DEF s
    <3> QED
      BY <1>2, <3>2, <3>3 DEF AssemblyInv, SameReader
  <2>2. ASSUME NEW n \in 1 .. OutputCapacity, TakeAssembled(n) PROVE AssemblyInv'
    <3>1. n \in 0 .. Len(reassembler.output.buf)
      BY <2>2, StreamAssumption DEF TakeAssembled
    <3> QED
      BY <1>2, <2>2, <3>1, StreamAssumption, PopSound DEF AssemblyInv, TakeAssembled
  <2>3. CASE UNCHANGED reassembler
    BY <1>2, <2>3 DEF AssemblyInv
  <2> QED
    BY <1>2, <2>1, <2>2, <2>3 DEF AssemblyNext
<1> QED
  BY <1>1, <1>2, PTL DEF AssemblySpec

(***************************************************************************)
(* Every field keeps its type and its range (Reassembler and its list).    *)
(***************************************************************************)
THEOREM AssemblyTypeCorrect == AssemblySpec => []AssemblyTypeOK
<1>1. AssemblyInv => AssemblyTypeOK
  <2> SUFFICES ASSUME AssemblyInv PROVE AssemblyTypeOK
    OBVIOUS
  <2>1. Fits(reassembler, InsertedLen) /\ reassembler \in ReassemblerState /\ Normal(buffers)
    BY DEF AssemblyInv, SoundReassembler, Fits, buffers
  <2>2. out \in Stream /\ Len(out.buf) <= OutputCapacity
    BY <2>1 DEF AssemblyInv, Fits, SoundStream, out
  <2>3. reassembler.first_unassembled \in 0 .. InsertedLen
    BY <2>1, StreamAssumption DEF Fits, ReassemblerState
  <2>4. reassembler.eof_index \in {InsertedLen, UINT64_MAX}
    BY <2>1 DEF Fits
  <2>5. buffers \in Seq(IntervalType)
    <3>1. ASSUME NEW i \in 1 .. Len(buffers) PROVE buffers[i] \in IntervalType
      <4>1. buffers[i] \in Chunk /\ buffers[i].end_idx <= InsertedLen
        BY <2>1 DEF Normal, Fits, buffers
      <4>2. /\ buffers[i].beg_idx \in 0 .. InsertedLen /\ buffers[i].end_idx \in 0 .. InsertedLen
            /\ buffers[i].str \in Seq(Byte)
        BY <4>1, StreamAssumption, ChunkParts
      <4> QED
        BY <4>1, <4>2 DEF Chunk, IntervalType
    <3>2. buffers \in Seq(Chunk)
      BY <2>1 DEF Normal
    <3> QED
      BY <3>1, <3>2
  <2> QED
    BY <2>2, <2>3, <2>4, <2>5 DEF AssemblyTypeOK
<1> QED
  BY <1>1, AssemblyInvariance, PTL

(***************************************************************************)
(* However the inserts overlap, the list is in normal form after each of   *)
(* them (the merging in Reassembler::insert).                              *)
(***************************************************************************)
THEOREM AlwaysNormal == AssemblySpec => []BuffersNormal
<1>1. AssemblyInv => BuffersNormal
  <2> SUFFICES ASSUME AssemblyInv PROVE BuffersNormal
    OBVIOUS
  <2>1. /\ Fits(reassembler, InsertedLen) /\ Normal(buffers) /\ buffers \in Seq(Chunk)
        /\ \A i \in 1 .. Len(buffers) : buffers[i].beg_idx # reassembler.output.pushed
    BY DEF AssemblyInv, SoundReassembler, Fits, Normal, buffers
  <2>2. DOMAIN buffers = 1 .. Len(buffers) /\ Len(buffers) \in Nat
    BY <2>1
  <2>3. ASSUME NEW i \in 1 .. Len(buffers)
        PROVE  /\ buffers[i].beg_idx < buffers[i].end_idx
               /\ buffers[i].str = BytesFrom(buffers[i].beg_idx,
                                             buffers[i].end_idx - buffers[i].beg_idx)
               /\ reassembler.first_unassembled < buffers[i].beg_idx
    <3>1. buffers[i] \in Chunk
      BY <2>1
    <3>2. /\ reassembler.first_unassembled = reassembler.output.pushed
          /\ reassembler.output.pushed <= buffers[i].beg_idx
          /\ reassembler.output.pushed # buffers[i].beg_idx
      BY <2>1 DEF Fits, buffers
    <3>3. reassembler.output.pushed \in Nat
      BY <2>1, StreamAssumption, LimitFixed
    <3> QED
      BY <3>1, <3>2, <3>3, ChunkParts
  <2>4. ASSUME NEW i \in 1 .. Len(buffers) - 1
        PROVE  buffers[i].end_idx < buffers[i + 1].beg_idx
    <3>1. i \in 1 .. Len(buffers) /\ i + 1 \in 1 .. Len(buffers) /\ i < i + 1
      BY <2>2
    <3> QED
      BY <2>1, <3>1 DEF Normal
  <2> QED
    BY <2>2, <2>3, <2>4 DEF BuffersNormal
<1> QED
  BY <1>1, AssemblyInvariance, PTL

(***************************************************************************)
(* Writer::push never drops a byte of what insert hands it, and the bytes  *)
(* stored and buffered stay within the capacity.                           *)
(***************************************************************************)
THEOREM NeverTruncated == AssemblySpec => []NothingTruncated
<1>1. AssemblyInv => NothingTruncated
  <2> SUFFICES ASSUME AssemblyInv PROVE NothingTruncated
    OBVIOUS
  <2> DEFINE r == reassembler
             low == r.output.pushed
             high == Limit(r)
             used == Len(r.output.buf)
  <2>1. /\ Fits(r, InsertedLen) /\ Normal(r.buffers) /\ r.first_unassembled = low
        /\ OrderlyBuffer(r.output) /\ r.output \in Stream /\ r.output.capacity = OutputCapacity
    BY DEF AssemblyInv, SoundReassembler, Fits, SoundStream
  <2>2. /\ low \in Nat /\ high = low + AvailableCapacity(r.output) /\ low <= high
        /\ AvailableCapacity(r.output) \in Nat
    BY <2>1, StreamAssumption, LimitFixed
  <2>3. used \in Nat /\ AvailableCapacity(r.output) = OutputCapacity - used
    BY <2>1, LenIsNat DEF Stream, AvailableCapacity
  <2>4. high \in Nat
    BY <2>2
  <2>5. \A i \in 1 .. Len(r.buffers) : low <= r.buffers[i].beg_idx /\ r.buffers[i].end_idx <= high
    BY <2>1 DEF Fits
  <2> HIDE DEF low, high, used, r
  <2>6. BytesPending(r) \in Nat /\ BytesPending(r) <= high - low
    BY <2>1, <2>2, <2>4, <2>5, PendingBounded
  <2>7. used + BytesPending(r) <= OutputCapacity
    BY <2>2, <2>3, <2>6, StreamAssumption
  <2> QED
    BY <2>1, <2>7 DEF NothingTruncated, OrderlyBuffer, out, r, low, used
<1> QED
  BY <1>1, AssemblyInvariance, PTL

-----------------------------------------------------------------------------
(***************************************************************************)
(* The refinement mapping.  What the promise calls held is Held; the       *)
(* longest prefix is unique.                                               *)
(***************************************************************************)
HeldSet == (0 .. out.pushed - 1) \cup UNION {Indices(buffers[i]) : i \in DOMAIN buffers}

(***************************************************************************)
(* The set that the run refines StreamAssembly with is the set of indices  *)
(* held.                                                                   *)
(***************************************************************************)
LEMMA HeldIsHeld ==
    ASSUME SoundReassembler(reassembler, InsertedLen)
    PROVE  HeldSet = Held(reassembler)
<1> DEFINE list == reassembler.buffers
           low == reassembler.output.pushed
<1>1. /\ list \in Seq(Chunk) /\ DOMAIN list = 1 .. Len(list)
      /\ \A i \in 1 .. Len(list) : list[i] \in Chunk
  BY DEF SoundReassembler, Fits, Normal
<1>2. low \in Nat
  BY StreamAssumption, LimitFixed DEF SoundReassembler
<1>3. HeldSet = (0 .. low - 1) \cup UNION {Indices(list[i]) : i \in 1 .. Len(list)}
  BY <1>1 DEF HeldSet, out, buffers
<1>4. Held(reassembler) = {x \in Nat : x < low} \cup Covered(list)
  BY DEF Held
<1> HIDE DEF list, low
<1>5. \A x : x \in 0 .. low - 1 <=> x \in Nat /\ x < low
  BY <1>2
<1>6. ASSUME NEW i \in 1 .. Len(list), NEW x
      PROVE  x \in Indices(list[i]) <=> x \in Nat /\ Within(x, list[i])
  <2>1. list[i].beg_idx \in Nat /\ list[i].end_idx \in Nat
    BY <1>1, ChunkParts
  <2> QED
    BY <2>1 DEF Indices, Within
<1>7. \A x : x \in UNION {Indices(list[i]) : i \in 1 .. Len(list)} <=> x \in Covered(list)
  BY <1>6 DEF Covered
<1> QED
  BY <1>3, <1>4, <1>5, <1>7

(***************************************************************************)
(* The gap-free prefix of what is held is exactly what was pushed to the   *)
(* output.                                                                 *)
(***************************************************************************)
LEMMA PrefixIsPushed ==
    ASSUME NEW r, SoundReassembler(r, InsertedLen)
    PROVE  Promise!Prefix(Held(r)) = r.output.pushed
<1> DEFINE low == r.output.pushed
           H == Held(r)
           IsPrefix(n) == (0 .. n - 1) \subseteq H /\ n \notin H
           p == CHOOSE n \in 0 .. InsertedLen : IsPrefix(n)
<1>1. low \in 0 .. InsertedLen /\ low \notin H /\ \A x \in Nat : x < low => x \in H
  BY StreamAssumption, HeldPrefix
<1> HIDE DEF low, H
<1>2. low \in 0 .. InsertedLen /\ IsPrefix(low)
  BY <1>1
<1>3. p \in 0 .. InsertedLen /\ IsPrefix(p)
  <2> HIDE DEF IsPrefix
  <2> QED
    BY <1>2
<1> HIDE DEF p
<1>4. ~(p < low)
  BY <1>1, <1>3
<1>5. ~(low < p)
  <2> SUFFICES ASSUME low < p PROVE FALSE
    OBVIOUS
  <2>1. low \in 0 .. p - 1
    BY <1>1, <1>3, StreamAssumption
  <2> QED
    BY <1>1, <1>3, <2>1
<1>6. p = low
  BY <1>1, <1>3, <1>4, <1>5, StreamAssumption
<1> QED
  BY <1>6 DEF Promise!Prefix, p, H, low

(***************************************************************************)
(* Every insert and every read of the detailed structure is one of the     *)
(* abstract promise, or changes nothing that it speaks of.                 *)
(***************************************************************************)
THEOREM PromiseKept == AssemblySpec => KeepsPromise
<1>1. ASSUME AssemblyInit PROVE Promise!Init
  <2>1. /\ SoundReassembler(reassembler, InsertedLen) /\ Held(reassembler) = {}
        /\ out.pushed = 0 /\ BytesPopped(out) = 0
        /\ reassembler.eof_index = UINT64_MAX /\ out.closed \in BOOLEAN /\ ~out.closed
    BY <1>1, StreamAssumption, NewReassemblerSound
       DEF AssemblyInit, out, SoundReassembler, Fits, SoundStream, Stream
  <2>2. HeldSet = {}
    BY <2>1, HeldIsHeld
  <2> QED
    BY <2>1, <2>2 DEF Promise!Init, HeldSet
<1>2. ASSUME AssemblyInv, AssemblyInv', [AssemblyNext]_reassembler PROVE [Promise!Next]_(Promise!vars)
  <2> DEFINE r == reassembler
             s == reassembler'
  <2>1. /\ SoundReassembler(r, InsertedLen) /\ SoundReassembler(s, InsertedLen)
        /\ r.output.capacity = OutputCapacity /\ s.output.capacity = OutputCapacity
    BY <1>2 DEF AssemblyInv
  <2>2. /\ HeldSet = Held(r) /\ HeldSet' = Held(s)
        /\ Promise!Prefix(HeldSet') = s.output.pushed
    <3>1. HeldSet' = Held(s)
      <4>1. SoundReassembler(reassembler, InsertedLen)' => (HeldSet = Held(reassembler))'
        BY HeldIsHeld, PTL
      <4> QED
        BY <2>1, <4>1
    <3> QED
      BY <2>1, <3>1, HeldIsHeld, PrefixIsPushed
  <2>3. /\ r.eof_index \in {InsertedLen, UINT64_MAX} /\ s.eof_index \in {InsertedLen, UINT64_MAX}
        /\ r.output.closed \in BOOLEAN /\ s.output.closed \in BOOLEAN
        /\ InsertedLen # UINT64_MAX /\ InsertedLen \in Nat
    BY <2>1, StreamAssumption DEF SoundReassembler, Fits, SoundStream, Stream
  <2>4. ASSUME NEW first \in 0 .. InsertedLen, NEW n \in 0 .. InsertedLen, NEW is_last \in BOOLEAN,
               InsertSubstring(first, n, is_last)
        PROVE  [Promise!Next]_(Promise!vars)
    <3>1. /\ first \in Nat /\ n \in Nat /\ first + n <= InsertedLen
          /\ is_last => first + n = InsertedLen
      BY <2>4, StreamAssumption DEF InsertSubstring
    <3>2. s = Insert(r, first, BytesFrom(first, n), is_last)
      BY <2>4 DEF InsertSubstring
    <3>3. /\ SameReader(s, r)
          /\ IF r.output.closed \/ first >= r.eof_index \/ first >= Limit(r)
             THEN s = r
             ELSE /\ s.eof_index = IF is_last THEN InsertedLen ELSE r.eof_index
                  /\ Held(s) = Held(r) \cup
                         {x \in Nat : first <= x /\ x < first + n /\ x < Limit(r)}
      BY <2>1, <3>1, <3>2, StreamAssumption, InsertDelivers
    <3>4. CASE s = r
      BY <3>4 DEF Promise!vars, out, buffers
    <3>5. CASE s # r
      <4>1. /\ ~r.output.closed /\ ~(first >= Limit(r))
            /\ s.eof_index = IF is_last THEN InsertedLen ELSE r.eof_index
            /\ Held(s) = Held(r) \cup
                   {x \in Nat : first <= x /\ x < first + n /\ x < Limit(r)}
        BY <3>3, <3>5
      <4>2. Limit(r) = BytesPopped(r.output) + OutputCapacity /\ Limit(r) \in Nat
        BY <2>1, <2>3, LimitFixed, StreamAssumption DEF SoundReassembler
      <4>3. first < BytesPopped(r.output) + OutputCapacity
        BY <3>1, <4>1, <4>2
      <4>4. (s.eof_index # UINT64_MAX) = (r.eof_index # UINT64_MAX \/ is_last)
        BY <2>3, <4>1
      <4>5. HeldSet' = HeldSet \cup {i \in first .. first + n - 1 : i < BytesPopped(r.output) + OutputCapacity}
        <5> DEFINE A == {x \in Nat : first <= x /\ x < first + n /\ x < Limit(r)}
                   B == {i \in first .. first + n - 1 : i < Limit(r)}
        <5>1. A = B
          BY <3>1
        <5> QED
          BY <2>2, <4>1, <4>2, <5>1
      <4>6. s.output.closed = (s.eof_index # UINT64_MAX /\ s.output.pushed = InsertedLen)
        <5>1. s.output.closed <=> (s.eof_index = InsertedLen /\ s.output.pushed = InsertedLen)
          BY <2>1 DEF SoundReassembler
        <5> QED
          BY <2>3, <5>1
      <4>7. BytesPopped(s.output) = BytesPopped(r.output)
        BY <3>3 DEF SameReader
      <4>8. Promise!Insert(first, n, is_last)
        BY <2>2, <4>1, <4>3, <4>4, <4>5, <4>6, <4>7
           DEF Promise!Insert, HeldSet, out
      <4> QED
        BY <3>1, <4>8 DEF Promise!Next
    <3> QED
      BY <3>4, <3>5
  <2>5. ASSUME NEW n \in 1 .. OutputCapacity, TakeAssembled(n)
        PROVE  [Promise!Next]_(Promise!vars)
    <3>1. n \in 0 .. Len(r.output.buf) /\ s = [r EXCEPT !.output = PopBytes(@, n)]
      BY <2>5, StreamAssumption DEF TakeAssembled
    <3>2. /\ s.output.pushed = r.output.pushed /\ s.output.closed = r.output.closed
          /\ s.eof_index = r.eof_index /\ s.buffers = r.buffers
          /\ BytesPopped(s.output) = BytesPopped(r.output) + n
      BY <2>1, <2>3, <3>1, PopSound
    <3>3. BytesPopped(r.output) + n <= r.output.pushed
      <4>1. r.output.pushed \in Nat /\ Len(r.output.buf) \in Nat
        BY <2>1, LenIsNat DEF SoundReassembler, Fits, SoundStream, Stream
      <4> QED
        BY <3>1, <4>1 DEF BytesPopped
    <3>4. Promise!Take(n)
      BY <3>2, <3>3 DEF Promise!Take, out, buffers
    <3> QED
      BY <3>4 DEF Promise!Next
  <2>6. CASE UNCHANGED reassembler
    BY <2>6 DEF Promise!vars, out, buffers
  <2> QED
    BY <1>2, <2>4, <2>5, <2>6 DEF AssemblyNext
<1> QED
  BY <1>1, <1>2, AssemblyInvariance, PTL DEF AssemblySpec, KeepsPromise, Promise!Spec

-----------------------------------------------------------------------------
(***************************************************************************)
(* The assumption on the constants, for the lemmas about the receiver.     *)
(***************************************************************************)
LEMMA PeerBounds ==
    /\ Bounds(StreamLen, PeerISN, Capacity)
    /\ StreamLen \in Nat /\ StreamLen + 2 < Mod64 \div 2 /\ StreamLen + 2 < Mod64
    /\ StreamLen < UINT64_MAX /\ UINT64_MAX \in Nat
    /\ Capacity \in Nat \ {0} /\ PeerISN \in Wrap32 /\ PeerISN # None
<1>1. Bounds(StreamLen, PeerISN, Capacity)
  BY PeerAssumption DEF Bounds
<1> QED
  BY <1>1, StreamBounds

(***************************************************************************)
(* The receiver of this specification is sound.                            *)
(***************************************************************************)
Sound(r) == SoundReceiver(r, StreamLen, PeerISN, Capacity)

USE DEF Sound

(***************************************************************************)
(* The specification's segments are those of the lemmas.                   *)
(***************************************************************************)
LEMMA PeerSegments ==
    ASSUME NEW first, NEW n, NEW fin
    PROVE  PeerSegment(first, n, fin) = StreamSegment(PeerISN, first, n, fin)
BY DEF PeerSegment, StreamSegment, Index

(***************************************************************************)
(* ... that holds only what has arrived: numbers in the sequence space are *)
(* one more than in the stream, because of the SYN.                        *)
(***************************************************************************)
HoldsArrived(r, seen) ==
    r.isn # None =>
        /\ 0 \in seen
        /\ \A x \in Held(r.reassembler) : x + 1 \in seen
        /\ r.reassembler.eof_index # UINT64_MAX => StreamLen + 1 \in seen

(***************************************************************************)
(* The inductive invariant.                                                *)
(***************************************************************************)
IInv ==
    /\ Sound(receiver)
    /\ arrived \subseteq 0 .. StreamLen + 1
    /\ HoldsArrived(receiver, arrived)

-----------------------------------------------------------------------------
(***************************************************************************)
(* Every step keeps the invariant and moves the receiver on.               *)
(***************************************************************************)
LEMMA Step ==
    ASSUME IInv, [Next]_vars
    PROVE  IInv' /\ Later(receiver', receiver)
<1> DEFINE r == receiver
           s == receiver'
<1>1. Sound(r) /\ arrived \subseteq 0 .. StreamLen + 1 /\ HoldsArrived(r, arrived)
  BY DEF IInv
<1>2. ASSUME NEW first \in 0 .. StreamLen + 1, NEW n \in 0 .. StreamLen, NEW fin \in BOOLEAN,
             SegmentArrives(first, n, fin)
      PROVE  IInv' /\ Later(s, r)
  <2> DEFINE msg == PeerSegment(first, n, fin)
             last == first + SeqLength(msg) - 1
             idx == Index(first)
  <2>1. /\ first \in Nat /\ n \in Nat /\ StreamLen \in Nat
        /\ idx \in Nat /\ idx = IF first = 0 THEN 0 ELSE first - 1
    BY PeerBounds DEF Index
  <2>2. /\ first + One(first = 0) + n <= StreamLen + 1
        /\ fin => first + One(first = 0) + n = StreamLen + 1
        /\ first = 0 \/ AckAbsseq(r) - first < Mod32 \div 2
        /\ first - AckAbsseq(r) < Mod32 \div 2
        /\ s = ReceiveSegment(r, msg)
        /\ arrived' = IF s.isn = None THEN arrived ELSE arrived \cup (first .. last)
    BY <1>2 DEF SegmentArrives
  <2>3. last = first + One(first = 0) + n + One(fin) - 1
    <3>1. Len(msg.payload) = n /\ msg.SYN = (first = 0) /\ msg.FIN = fin
      BY <2>1, BytesFromType DEF PeerSegment, Index
    <3> HIDE DEF msg
    <3>2. SeqLength(msg) = One(first = 0) + n + One(fin)
      BY <3>1 DEF SeqLength
    <3> QED
      BY <2>1, <3>2 DEF One
  <2> HIDE DEF last, msg, idx
  <2>4. idx + n <= StreamLen /\ (fin => idx + n = StreamLen)
    BY <2>1, <2>2 DEF One
  <2>5. /\ last \in Int /\ last <= StreamLen + 1 /\ idx + n <= last
        /\ fin => last = StreamLen + 1
    BY <2>1, <2>2, <2>3 DEF One
  <2>6. /\ Sound(s) /\ Later(s, r)
        /\ Held(s.reassembler) \subseteq
               Held(r.reassembler) \cup {x \in Nat : idx <= x /\ x < idx + n}
        /\ s.reassembler.eof_index # r.reassembler.eof_index => fin
        /\ s.isn # r.isn => first = 0
    <3>1. msg = StreamSegment(PeerISN, first, n, fin)
      BY PeerSegments DEF msg
    <3>2. /\ Index(first) + n <= StreamLen
          /\ fin => Index(first) + n = StreamLen
      BY <2>4 DEF idx
    <3> HIDE DEF r, s
    <3> QED
      <4>1. LET u == ReceiveSegment(r, StreamSegment(PeerISN, first, n, fin))
            IN  /\ SoundReceiver(u, StreamLen, PeerISN, Capacity) /\ Later(u, r)
                /\ Held(u.reassembler) \subseteq
                       Held(r.reassembler) \cup
                           {x \in Nat : Index(first) <= x /\ x < Index(first) + n}
                /\ u.reassembler.eof_index # r.reassembler.eof_index => fin
                /\ u.isn # r.isn => first = 0
        BY <1>1, <2>1, <2>2, <3>2, PeerBounds, SegmentTaken
      <4> QED
        BY <2>2, <3>1, <4>1 DEF idx
  <2> HIDE DEF s, r
  <2>7. arrived' \subseteq 0 .. StreamLen + 1
    BY <1>1, <2>1, <2>2, <2>5
  <2>8. ASSUME s.isn # None
        PROVE  /\ 0 \in arrived'
               /\ \A x \in Held(s.reassembler) : x + 1 \in arrived'
               /\ s.reassembler.eof_index # UINT64_MAX => StreamLen + 1 \in arrived'
    <3>1. arrived' = arrived \cup (first .. last)
      BY <2>2, <2>8
    <3>2. CASE r.isn = None
      <4>1. Held(r.reassembler) = {} /\ r.reassembler.eof_index = UINT64_MAX /\ first = 0
        BY <1>1, <2>6, <2>8, <3>2 DEF SoundReceiver
      <4>2. 0 \in first .. last
        BY <2>1, <2>5, <4>1
      <4>3. ASSUME NEW x \in Held(s.reassembler) PROVE x + 1 \in first .. last
        BY <2>1, <2>5, <2>6, <4>1
      <4>4. s.reassembler.eof_index # UINT64_MAX => StreamLen + 1 \in first .. last
        BY <2>1, <2>5, <2>6, <4>1
      <4> QED
        BY <3>1, <4>2, <4>3, <4>4
    <3>3. CASE r.isn # None
      <4>1. /\ 0 \in arrived /\ \A x \in Held(r.reassembler) : x + 1 \in arrived
            /\ r.reassembler.eof_index # UINT64_MAX => StreamLen + 1 \in arrived
        BY <1>1, <3>3 DEF HoldsArrived
      <4>2. ASSUME NEW x \in Held(s.reassembler), x \notin Held(r.reassembler)
            PROVE  x + 1 \in first .. last
        BY <2>1, <2>5, <2>6, <4>2
      <4>3. fin => StreamLen + 1 \in first .. last
        BY <2>1, <2>5
      <4> QED
        BY <2>6, <3>1, <4>1, <4>2, <4>3
    <3> QED
      BY <3>2, <3>3
  <2> QED
    BY <2>6, <2>7, <2>8 DEF IInv, HoldsArrived, s
<1>3. ASSUME Sound(s), Held(s.reassembler) = Held(r.reassembler),
             s.reassembler.eof_index = r.reassembler.eof_index, s.isn = r.isn,
             arrived' = arrived
      PROVE  IInv'
  BY <1>1, <1>3 DEF IInv, HoldsArrived
<1>4. CASE KeepAliveArrives
  <2>1. s = r /\ arrived' = arrived
    <3> DEFINE msg == [PeerSegment(0, 0, FALSE) EXCEPT !.SYN = FALSE]
    <3>1. msg \in SenderMessage /\ ~msg.SYN /\ ~msg.FIN /\ ~msg.RST /\ msg.payload = << >>
      <4> DEFINE zero == 0
      <4>1. zero \in Nat
        OBVIOUS
      <4> HIDE DEF zero
      <4>2. BytesFrom(zero, 0) = << >> /\ Wrap(zero, PeerISN) \in Wrap32
        BY <4>1, PeerBounds, WrapType, BytesFromNone
      <4>3. << >> \in Seq(Byte)
        OBVIOUS
      <4> QED
        BY <4>2, <4>3 DEF PeerSegment, SenderMessage, zero
    <3> HIDE DEF msg
    <3>2. ReceiveSegment(r, msg) = r
      BY <1>1, <3>1, PeerBounds, EmptyIgnored
    <3> QED
      BY <1>4, <3>2 DEF KeepAliveArrives, msg
  <2> QED
    BY <1>1, <1>3, <2>1, PeerBounds, LaterItself
<1>5. CASE ResetArrives
  <2>1. PeerSegment(1, 0, FALSE) = StreamSegment(PeerISN, 1, 0, FALSE)
    BY PeerSegments
  <2>2. /\ Sound(s) /\ Later(s, r) /\ Held(s.reassembler) = Held(r.reassembler)
        /\ s.reassembler.eof_index = r.reassembler.eof_index /\ s.isn = r.isn
        /\ arrived' = arrived
    <3> DEFINE u == ReceiveSegment(r, ResetSegment(PeerISN))
    <3>1. s = u /\ arrived' = arrived
      BY <1>5, <2>1 DEF ResetArrives, ResetSegment
    <3>2. /\ SoundReceiver(u, StreamLen, PeerISN, Capacity) /\ Later(u, r)
          /\ Held(u.reassembler) = Held(r.reassembler)
          /\ u.reassembler.eof_index = r.reassembler.eof_index /\ u.isn = r.isn
      <4> HIDE DEF r
      <4> QED
        BY <1>1, PeerBounds, ResetTaken
    <3> HIDE DEF u, r, s
    <3> QED
      BY <3>1, <3>2
  <2> QED
    BY <1>3, <2>2
<1>6. ASSUME NEW n \in 1 .. Capacity, Take(n) PROVE IInv' /\ Later(s, r)
  <2>1. /\ n \in 0 .. Len(Inbound(r).buf) /\ arrived' = arrived
        /\ s = [r EXCEPT !.reassembler.output = PopBytes(@, n)]
    BY <1>6, PeerBounds DEF Take
  <2>2. /\ Sound(s) /\ Later(s, r) /\ Held(s.reassembler) = Held(r.reassembler)
        /\ s.reassembler.eof_index = r.reassembler.eof_index /\ s.isn = r.isn
    <3> DEFINE u == AfterRead(r, n)
    <3>1. s = u
      BY <2>1 DEF AfterRead
    <3>2. /\ SoundReceiver(u, StreamLen, PeerISN, Capacity) /\ Later(u, r)
          /\ Held(u.reassembler) = Held(r.reassembler)
          /\ u.reassembler.eof_index = r.reassembler.eof_index /\ u.isn = r.isn
      <4> HIDE DEF r
      <4> QED
        BY <1>1, <2>1, PeerBounds, ReadTaken
    <3> HIDE DEF u, r, s
    <3> QED
      BY <3>1, <3>2
  <2> QED
    BY <1>3, <2>1, <2>2
<1>7. CASE UNCHANGED vars
  BY <1>1, <1>3, <1>7, PeerBounds, LaterItself DEF vars
<1> QED
  BY <1>2, <1>4, <1>5, <1>6, <1>7 DEF Next

(***************************************************************************)
(* Whatever segments arrive and whatever is read, the receiver is sound    *)
(* and holds only what has arrived.                                        *)
(***************************************************************************)
THEOREM Invariance == Spec => []IInv
<1>1. ASSUME Init PROVE IInv
  <2> DEFINE old == NewReassembler(Capacity)
  <2>1. receiver = [reassembler |-> old, isn |-> None] /\ arrived = {}
    BY <1>1 DEF Init, NewReceiver
  <2>2. /\ SoundReassembler(old, StreamLen) /\ Held(old) = {}
        /\ old.output.capacity = Capacity /\ old.eof_index = UINT64_MAX
    BY PeerBounds, NewReassemblerSound
  <2> HIDE DEF old
  <2>3. old \in ReassemblerState
    BY <2>2 DEF SoundReassembler, Fits
  <2>4. Sound(receiver)
    BY <2>1, <2>2, <2>3 DEF SoundReceiver
  <2> QED
    BY <2>1, <2>4 DEF IInv, HoldsArrived
<1>2. IInv /\ [Next]_vars => IInv'
  BY Step
<1> QED
  BY <1>1, <1>2, PTL DEF Spec

(***************************************************************************)
(* The receiver's fields keep their types and ranges.                      *)
(***************************************************************************)
THEOREM TypeCorrect == Spec => []TypeOK
<1>1. ASSUME IInv PROVE TypeOK
  <2>1. Sound(receiver) /\ arrived \subseteq 0 .. StreamLen + 1
    BY <1>1 DEF IInv
  <2>2. Inbound(receiver) \in Stream /\ Inbound(receiver).pushed \in 0 .. StreamLen
    BY <2>1, PeerBounds, SoundParts
  <2> QED
    BY <2>1, <2>2 DEF TypeOK, Sound, SoundReceiver, SoundReassembler, Fits, Inbound
<1> QED
  BY <1>1, Invariance, PTL

(***************************************************************************)
(* An ackno is never sent for a number that has not arrived, and the bytes *)
(* handed to the reader are the peer's (TCPReceiver::send).                *)
(***************************************************************************)
THEOREM AckedAlwaysArrived == Spec => []AckedHasArrived
<1>1. ASSUME IInv PROVE AckedHasArrived
  <2> SUFFICES ASSUME receiver.isn # None
               PROVE  /\ 0 .. AckAbsseq(receiver) - 1 \subseteq arrived
                      /\ Inbound(receiver).buf =
                             BytesFrom(BytesPopped(Inbound(receiver)), Len(Inbound(receiver).buf))
    BY DEF AckedHasArrived
  <2> DEFINE r == receiver
             old == r.reassembler
             low == old.output.pushed
             ack == AckAbsseq(r)
  <2>1. /\ Sound(r) /\ SoundReassembler(old, StreamLen)
        /\ 0 \in arrived /\ \A x \in Held(old) : x + 1 \in arrived
        /\ old.eof_index # UINT64_MAX => StreamLen + 1 \in arrived
    BY <1>1 DEF IInv, HoldsArrived, Sound, SoundReceiver
  <2>2. /\ low \in 0 .. StreamLen /\ old.output.closed \in BOOLEAN
        /\ ack = low + 1 + One(old.output.closed)
        /\ old.output.closed => low = StreamLen /\ old.eof_index = StreamLen
    BY <2>1, PeerBounds, SoundParts
  <2>3. \A x \in Nat : x < low => x \in Held(old)
    BY <2>1, PeerBounds, HeldPrefix
  <2>4. Inbound(r).buf = BytesFrom(BytesPopped(Inbound(r)), Len(Inbound(r).buf))
    BY <2>1 DEF SoundReassembler, Fits, OrderlyBuffer, Inbound
  <2> HIDE DEF old, low, ack
  <2>5. ASSUME NEW y \in 0 .. ack - 1 PROVE y \in arrived
    <3>1. y \in Nat /\ low \in Nat /\ StreamLen \in Nat /\ StreamLen # UINT64_MAX
      BY <2>2, PeerBounds
    <3>2. CASE y = 0
      BY <2>1, <3>2
    <3>3. CASE y > 0 /\ y <= low
      <4> DEFINE x == y - 1
      <4>1. x \in Nat /\ x < low /\ y = x + 1
        BY <3>1, <3>3
      <4> HIDE DEF x
      <4> QED
        BY <2>1, <2>3, <4>1
    <3>4. CASE y > low
      <4>1. old.output.closed /\ y = StreamLen + 1
        BY <2>2, <2>5, <3>1, <3>4 DEF One
      <4> QED
        BY <2>1, <2>2, <3>1, <4>1
    <3> QED
      BY <3>1, <3>2, <3>3, <3>4
  <2> QED
    BY <2>4, <2>5 DEF ack
<1> QED
  BY <1>1, Invariance, PTL

(***************************************************************************)
(* Neither the ackno nor the right edge of the window moves back.          *)
(***************************************************************************)
LEMMA EdgesAdvance ==
    ASSUME NEW r, Sound(r), NEW s, Sound(s), Later(s, r)
    PROVE  AckAbsseq(r) <= AckAbsseq(s) /\ RightEdge(r) <= RightEdge(s)
<1> DEFINE Popped(t) == BytesPopped(Inbound(t))
           Pushed(t) == Inbound(t).pushed
           Fin(t) == One(Inbound(t).closed)
<1>1. ASSUME NEW t, Sound(t)
      PROVE  /\ Pushed(t) \in Nat /\ Popped(t) \in Nat /\ Fin(t) \in Nat
             /\ AckAbsseq(t) = Pushed(t) + 1 + Fin(t)
             /\ RightEdge(t) = 1 + Fin(t) + Lesser(Capacity + Popped(t), Pushed(t) + UINT16_MAX)
  <2> DEFINE q == Inbound(t)
             used == Len(q.buf)
  <2>1. /\ q \in Stream /\ q.capacity = Capacity /\ Popped(t) \in Nat
        /\ q.pushed \in Nat /\ Fin(t) \in Nat /\ AckAbsseq(t) = q.pushed + 1 + Fin(t)
    <3>1. /\ Inbound(t) = t.reassembler.output /\ Inbound(t) \in Stream
          /\ Inbound(t).pushed \in 0 .. StreamLen
          /\ AckAbsseq(t) = Inbound(t).pushed + 1 + One(Inbound(t).closed)
      BY <1>1, SoundParts, PeerBounds
    <3> QED
      BY <1>1, <3>1, PeerBounds, LimitFixed DEF SoundReceiver, SoundReassembler, One
  <2>2. used \in Nat /\ Popped(t) = q.pushed - used /\ AvailableCapacity(q) = Capacity - used
    BY <2>1, LenIsNat DEF Stream, BytesPopped, AvailableCapacity
  <2>3. RightEdge(t) = AckAbsseq(t) + Lesser(Capacity - used, UINT16_MAX)
    BY <2>2 DEF RightEdge, ReceiverReply
  <2> HIDE DEF q, used, Popped, Fin
  <2>4. Capacity \in Nat /\ UINT16_MAX \in Nat
    BY PeerBounds, WindowAssumption
  <2>5. RightEdge(t) = 1 + Fin(t) + Lesser(Capacity + Popped(t), q.pushed + UINT16_MAX)
    BY <2>1, <2>2, <2>3, <2>4 DEF Lesser
  <2> QED
    BY <2>1, <2>5 DEF q
<1>2. Pushed(r) <= Pushed(s)
  BY PeerBounds, HeldGrows DEF SoundReceiver, Later, Inbound
<1>3. Popped(r) <= Popped(s) /\ (Inbound(r).closed => Inbound(s).closed)
  BY DEF Later
<1>4. Fin(r) <= Fin(s)
  BY <1>3 DEF One
<1> HIDE DEF Popped, Pushed, Fin
<1>5. Capacity \in Nat /\ UINT16_MAX \in Nat
  BY PeerBounds, WindowAssumption
<1>6. Lesser(Capacity + Popped(r), Pushed(r) + UINT16_MAX)
          <= Lesser(Capacity + Popped(s), Pushed(s) + UINT16_MAX)
  BY <1>1, <1>2, <1>3, <1>5 DEF Lesser
<1> DEFINE Edge(t) == Lesser(Capacity + Popped(t), Pushed(t) + UINT16_MAX)
<1>7. Edge(r) \in Nat /\ Edge(s) \in Nat
  BY <1>1, <1>5 DEF Lesser
<1>8. Edge(r) <= Edge(s)
  BY <1>6
<1> HIDE DEF Edge
<1>9. RightEdge(r) = 1 + Fin(r) + Edge(r) /\ RightEdge(s) = 1 + Fin(s) + Edge(s)
  BY <1>1 DEF Edge
<1> QED
  BY <1>1, <1>2, <1>4, <1>7, <1>8, <1>9

(***************************************************************************)
(* The ackno and the right edge of the window that the receiver announces  *)
(* never move back, whatever arrives and however the application reads.    *)
(***************************************************************************)
THEOREM PromisesAlwaysKept == Spec => PromisesKept
<1>1. ASSUME IInv, [Next]_vars, receiver.isn # None
      PROVE  /\ receiver'.isn = receiver.isn
             /\ AckAbsseq(receiver) <= AckAbsseq(receiver')
             /\ RightEdge(receiver) <= RightEdge(receiver')
  <2>1. Later(receiver', receiver) /\ Sound(receiver) /\ Sound(receiver')
    BY <1>1, Step DEF IInv
  <2> QED
    BY <1>1, <2>1, EdgesAdvance DEF Later
<1>2. IInv /\ [Next]_vars =>
         [receiver.isn # None =>
             /\ receiver'.isn = receiver.isn
             /\ AckAbsseq(receiver) <= AckAbsseq(receiver')
             /\ RightEdge(receiver) <= RightEdge(receiver')]_vars
  BY <1>1
<1> QED
  BY <1>2, Invariance, PTL DEF Spec, PromisesKept

(***************************************************************************)
(* A peer that fills the advertised window has every byte of it taken,     *)
(* whatever has been stored out of order.                                  *)
(***************************************************************************)
THEOREM WindowAlwaysHonest == Spec => []WindowIsHonest
<1>1. ASSUME IInv PROVE WindowIsHonest
  <2> DEFINE r == receiver
             reply == ReceiverReply(r)
             ack == AckAbsseq(r)
             n == Lesser(reply.window_size, StreamLen + 1 - ack)
             s == ReceiveSegment(r, PeerSegment(ack, n, FALSE))
             old == r.reassembler
             low == old.output.pushed
             free == AvailableCapacity(old.output)
             new == Insert(old, low, BytesFrom(low, n), FALSE)
  <2> SUFFICES ASSUME reply.ackno # None, ~reply.RST, n > 0
               PROVE  AckAbsseq(s) >= ack + n
    BY DEF WindowIsHonest
  <2>1. /\ Sound(r) /\ SoundReassembler(old, StreamLen) /\ Fits(old, StreamLen)
        /\ old.output = Inbound(r) /\ StreamLen \in Nat /\ StreamLen < UINT64_MAX
        /\ UINT16_MAX \in Nat /\ UINT64_MAX \in Nat
    BY <1>1, PeerBounds, WindowAssumption
       DEF IInv, Sound, SoundReceiver, SoundReassembler, Inbound
  <2>2. r.isn # None /\ ~Inbound(r).error /\ reply.window_size = Lesser(free, UINT16_MAX)
    BY DEF ReceiverReply, Inbound
  <2>3. /\ low \in 0 .. StreamLen /\ ack \in 1 .. StreamLen + 2
        /\ ack = low + 1 + One(old.output.closed) /\ old.output.closed \in BOOLEAN
        /\ old.output.closed => low = StreamLen
    BY <2>1, PeerBounds, SoundParts
  <2>4. /\ free \in Nat /\ Limit(old) = low + free
        /\ old.eof_index \in {StreamLen, UINT64_MAX}
    BY <2>1, LimitFixed DEF Fits
  <2>5. n \in Nat /\ n <= free /\ n <= StreamLen + 1 - ack
    <3> HIDE DEF ack, free, reply
    <3> QED
      BY <2>1, <2>2, <2>3, <2>4 DEF Lesser
  <2> HIDE DEF reply, n, ack
  <2>6. ~old.output.closed /\ ack = low + 1 /\ low + n <= StreamLen
    <3> HIDE DEF low, old
    <3> QED
      BY <2>1, <2>3, <2>5 DEF One
  <2>7. Index(ack) = low /\ ack \in 0 .. StreamLen + 1
    <3> HIDE DEF low, old
    <3> QED
      BY <2>1, <2>3, <2>6 DEF Index
  <2>8. s = [reassembler |-> new, isn |-> PeerISN]
    <3>1. ack - AckAbsseq(r) < Mod32 \div 2 /\ AckAbsseq(r) - ack < Mod32 \div 2
      <4>1. ack - ack = 0
        BY <2>3
      <4> QED
        BY <4>1, Widths DEF ack
    <3>2. Index(ack) + n <= StreamLen
      BY <2>6, <2>7
    <3>3. ReceiveSegment(r, PeerSegment(ack, n, FALSE)) =
              [reassembler |-> Insert(r.reassembler, Index(ack),
                                      BytesFrom(Index(ack), n), FALSE),
               isn |-> PeerISN]
      <4>1. PeerSegment(ack, n, FALSE) = StreamSegment(PeerISN, ack, n, FALSE)
        BY PeerSegments
      <4> QED
        <5> DEFINE fin == FALSE
        <5>1. fin \in BOOLEAN
          OBVIOUS
        <5> HIDE DEF fin, ack, low, old, r
        <5>2. ReceiveSegment(r, StreamSegment(PeerISN, ack, n, fin)) =
                  [reassembler |-> Insert(r.reassembler, Index(ack),
                                          BytesFrom(Index(ack), n), fin),
                   isn |-> PeerISN]
          BY <2>1, <2>2, <2>5, <2>7, <3>1, <3>2, <5>1, PeerBounds, SegmentPlaced
        <5> QED
          BY <4>1, <5>2 DEF fin
    <3> QED
      BY <2>7, <3>3
  <2> HIDE DEF s
  <2>9. /\ SoundReassembler(new, StreamLen)
        /\ Held(new) = Held(old) \cup {x \in Nat : low <= x /\ x < low + n /\ x < Limit(old)}
    <3> HIDE DEF low, free
    <3>1. low \in Nat /\ ~(low >= old.eof_index) /\ ~(low >= Limit(old))
      BY <2>1, <2>3, <2>4, <2>5, <2>6
    <3> DEFINE last == FALSE
               t == Insert(old, low, BytesFrom(low, n), last)
    <3>2. last \in BOOLEAN /\ ~last
      OBVIOUS
    <3> HIDE DEF last
    <3>3. /\ SoundReassembler(t, StreamLen)
          /\ IF old.output.closed \/ low >= old.eof_index \/ low >= Limit(old)
             THEN t = old
             ELSE /\ t.eof_index = IF last THEN StreamLen ELSE old.eof_index
                  /\ Held(t) = Held(old) \cup
                         {x \in Nat : low <= x /\ x < low + n /\ x < Limit(old)}
      BY <2>1, <2>5, <2>6, <3>1, <3>2, InsertDelivers
    <3> HIDE DEF t
    <3>4. /\ SoundReassembler(t, StreamLen)
          /\ Held(t) = Held(old) \cup
                 {x \in Nat : low <= x /\ x < low + n /\ x < Limit(old)}
      BY <2>6, <3>1, <3>3
    <3> QED
      BY <3>4 DEF t, last
  <2> HIDE DEF new
  <2>10. low + n <= new.output.pushed
    <3> DEFINE p == new.output.pushed
    <3>1. p \in Nat /\ p \notin Held(new) /\ low <= p
      BY <2>1, <2>9, PeerBounds, HeldPrefix, HeldGrows
    <3> HIDE DEF p, low, free
    <3>2. p \notin {x \in Nat : low <= x /\ x < low + n /\ x < Limit(old)}
      BY <2>9, <3>1
    <3> QED
      BY <2>3, <2>4, <2>5, <3>1, <3>2 DEF p
  <2>11. AckAbsseq(s) = new.output.pushed + 1 + One(new.output.closed)
    BY <2>8 DEF AckAbsseq, Inbound
  <2>12. new.output.pushed \in Nat
    BY <2>1, <2>9, PeerBounds, HeldPrefix
  <2>13. One(new.output.closed) \in Nat
    BY DEF One
  <2> DEFINE p == new.output.pushed
             c == One(new.output.closed)
  <2> HIDE DEF low, p, c
  <2>14. p \in Nat /\ c \in Nat /\ low + n <= p /\ AckAbsseq(s) = p + 1 + c
    BY <2>10, <2>11, <2>12, <2>13 DEF p, c
  <2> QED
    BY <2>3, <2>5, <2>6, <2>14
<1> QED
  BY <1>1, Invariance, PTL
=============================================================================
