------------------------- MODULE FrameStreamProofs -------------------------
(* Proofs about FrameStream, for every buffer, chunk, header and frame     *)
(* length and for any amount of noise.                                     *)
EXTENDS FrameStream, SequenceTheorems, TLAPS

-----------------------------------------------------------------------------
(* Sequences *)

LEMMA DropProperties ==
  ASSUME NEW S, NEW s \in Seq(S), NEW n \in 0..Len(s)
  PROVE  /\ Drop(s, n) \in Seq(S)
         /\ Len(Drop(s, n)) = Len(s) - n
         /\ \A i \in 1..Len(s) - n : Drop(s, n)[i] = s[n + i]
<1>1. Len(s) \in Nat /\ n \in Nat /\ n <= Len(s)
  BY LenProperties
<1>2. \A i \in n + 1..Len(s) : s[i] \in S
  BY <1>1, ElementOfSeq
<1>3. /\ SubSeq(s, n + 1, Len(s)) \in Seq(S)
      /\ Len(SubSeq(s, n + 1, Len(s))) = IF n + 1 <= Len(s) THEN Len(s) - (n + 1) + 1 ELSE 0
      /\ \A i \in 1..Len(s) - (n + 1) + 1 : SubSeq(s, n + 1, Len(s))[i] = s[n + 1 + i - 1]
  BY <1>1, <1>2, SubSeqProperties
<1>4. QED
  BY <1>1, <1>3 DEF Drop

LEMMA PrefixProperties ==
  ASSUME NEW S, NEW s \in Seq(S), NEW n \in 0..Len(s)
  PROVE  /\ SubSeq(s, 1, n) \in Seq(S)
         /\ Len(SubSeq(s, 1, n)) = n
         /\ \A i \in 1..n : SubSeq(s, 1, n)[i] = s[i]
<1>1. Len(s) \in Nat /\ n \in Nat /\ n <= Len(s)
  BY LenProperties
<1>2. \A i \in 1..n : s[i] \in S
  BY <1>1, ElementOfSeq
<1>3. /\ SubSeq(s, 1, n) \in Seq(S)
      /\ Len(SubSeq(s, 1, n)) = IF 1 <= n THEN n - 1 + 1 ELSE 0
      /\ \A i \in 1..n - 1 + 1 : SubSeq(s, 1, n)[i] = s[1 + i - 1]
  BY <1>1, <1>2, SubSeqProperties
<1>4. QED
  BY <1>1, <1>3

LEMMA Associativity ==
  \A a, b, c \in Seq(Byte) : (a \o b) \o c = a \o (b \o c)
  BY ConcatAssociative

LEMMA BytesProperties ==
  ASSUME NEW f \in Nat, NEW size \in Nat
  PROVE  /\ Bytes(f, size) \in Seq(Byte)
         /\ Len(Bytes(f, size)) = size
         /\ \A i \in 1..size : Bytes(f, size)[i] = [frame |-> f, pos |-> i]
<1>1. Bytes(f, size) \in [1..size -> Byte]
  BY DEF Bytes, Byte
<1>2. QED
  BY <1>1, SeqDef, LenProperties DEF Bytes

(***************************************************************************)
(* A sequence thinned out: what is left keeps its order.                   *)
(***************************************************************************)
Thinned(t, s) ==
  \E h \in [1..Len(t) -> 1..Len(s)] :
    /\ \A i \in 1..Len(t) : t[i] = s[h[i]]
    /\ \A i, j \in 1..Len(t) : i < j => h[i] < h[j]

LEMMA DropThins ==
  ASSUME NEW a \in Seq(Byte), NEW w \in Seq(Byte), NEW n \in 0..Len(a)
  PROVE  Thinned(Drop(a, n) \o w, a \o w)
<1> DEFINE t == Drop(a, n) \o w
<1>1. /\ Len(a) \in Nat /\ Len(w) \in Nat /\ n \in Nat /\ n <= Len(a)
  BY LenProperties
<1>2. /\ Drop(a, n) \in Seq(Byte) /\ Len(Drop(a, n)) = Len(a) - n
      /\ \A i \in 1..Len(a) - n : Drop(a, n)[i] = a[n + i]
  BY DropProperties
<1>3. /\ Len(t) = Len(a) - n + Len(w)
      /\ \A i \in 1..Len(t) : t[i] = IF i <= Len(a) - n THEN a[n + i] ELSE w[i - (Len(a) - n)]
  <2>1. /\ Len(t) = Len(Drop(a, n)) + Len(w)
        /\ \A i \in 1..Len(Drop(a, n)) + Len(w) :
             t[i] = IF i <= Len(Drop(a, n)) THEN Drop(a, n)[i] ELSE w[i - Len(Drop(a, n))]
    BY <1>2, ConcatProperties
  <2> HIDE DEF t
  <2>2. QED
    BY <1>1, <1>2, <2>1
<1>4. /\ Len(a \o w) = Len(a) + Len(w)
      /\ \A i \in 1..Len(a) + Len(w) : (a \o w)[i] = IF i <= Len(a) THEN a[i] ELSE w[i - Len(a)]
  BY ConcatProperties
<1> HIDE DEF t
<1> DEFINE h == [i \in 1..Len(t) |-> n + i]
<1>5. h \in [1..Len(t) -> 1..Len(a \o w)]
  <2>1. \A i \in 1..Len(t) : n + i \in 1..Len(a \o w)
    BY <1>1, <1>3, <1>4
  <2>2. QED
    BY <2>1
<1>6. \A i \in 1..Len(t) : t[i] = (a \o w)[h[i]]
  <2> SUFFICES ASSUME NEW i \in 1..Len(t) PROVE t[i] = (a \o w)[h[i]]
    OBVIOUS
  <2>1. n + i \in 1..Len(a) + Len(w) /\ h[i] = n + i
    BY <1>1, <1>3
  <2>2. (n + i <= Len(a)) <=> (i <= Len(a) - n)
    BY <1>1, <1>3
  <2>3. n + i - Len(a) = i - (Len(a) - n)
    BY <1>1, <1>3
  <2>4. QED
    BY <1>3, <1>4, <2>1, <2>2, <2>3
<1>7. \A i, j \in 1..Len(t) : i < j => h[i] < h[j]
  BY <1>1, <1>3
<1> HIDE DEF h
<1>8. QED
  BY <1>5, <1>6, <1>7 DEF Thinned, t

LEMMA CutThins ==
  ASSUME NEW a \in Seq(Byte), NEW w \in Seq(Byte), NEW n \in 0..Len(w), NEW c \in 0..n
  PROVE  Thinned((a \o SubSeq(w, 1, c)) \o Drop(w, n), a \o w)
<1> DEFINE t == (a \o SubSeq(w, 1, c)) \o Drop(w, n)
<1>1. /\ Len(a) \in Nat /\ Len(w) \in Nat /\ n \in Nat /\ c \in Nat /\ c <= n /\ n <= Len(w)
  BY LenProperties
<1>2. /\ Drop(w, n) \in Seq(Byte) /\ Len(Drop(w, n)) = Len(w) - n
      /\ \A i \in 1..Len(w) - n : Drop(w, n)[i] = w[n + i]
  BY DropProperties
<1>3. /\ SubSeq(w, 1, c) \in Seq(Byte) /\ Len(SubSeq(w, 1, c)) = c
      /\ \A i \in 1..c : SubSeq(w, 1, c)[i] = w[i]
  BY <1>1, PrefixProperties
<1>4. /\ a \o SubSeq(w, 1, c) \in Seq(Byte)
      /\ Len(a \o SubSeq(w, 1, c)) = Len(a) + c
      /\ \A i \in 1..Len(a) + c :
           (a \o SubSeq(w, 1, c))[i] = IF i <= Len(a) THEN a[i] ELSE SubSeq(w, 1, c)[i - Len(a)]
  BY <1>3, ConcatProperties
<1>5. /\ Len(t) = Len(a) + c + (Len(w) - n)
      /\ \A i \in 1..Len(a) + c + (Len(w) - n) :
           t[i] = IF i <= Len(a) + c THEN (a \o SubSeq(w, 1, c))[i] ELSE Drop(w, n)[i - (Len(a) + c)]
  <2> DEFINE s == a \o SubSeq(w, 1, c)
  <2>1. /\ Len(t) = Len(s) + Len(Drop(w, n))
        /\ \A i \in 1..Len(s) + Len(Drop(w, n)) :
             t[i] = IF i <= Len(s) THEN s[i] ELSE Drop(w, n)[i - Len(s)]
    BY <1>2, <1>4, ConcatProperties
  <2>2. Len(s) = Len(a) + c
    BY <1>4
  <2> HIDE DEF s, t
  <2>3. QED
    BY <1>2, <2>1, <2>2 DEF s
<1>6. /\ Len(a \o w) = Len(a) + Len(w)
      /\ \A i \in 1..Len(a) + Len(w) : (a \o w)[i] = IF i <= Len(a) THEN a[i] ELSE w[i - Len(a)]
  BY ConcatProperties
<1> HIDE DEF t
<1> DEFINE g(i) == IF i <= Len(a) + c THEN i ELSE i + (n - c)
           h == [i \in 1..Len(t) |-> g(i)]
<1>7. h \in [1..Len(t) -> 1..Len(a \o w)]
  <2>1. \A i \in 1..Len(t) : g(i) \in 1..Len(a \o w)
    BY <1>1, <1>5, <1>6
  <2>2. QED
    BY <2>1
<1>8. \A i \in 1..Len(t) : t[i] = (a \o w)[h[i]]
  <2> SUFFICES ASSUME NEW i \in 1..Len(t) PROVE t[i] = (a \o w)[h[i]]
    OBVIOUS
  <2>0. i \in 1..Len(a) + c + (Len(w) - n)
    BY <1>5
  <2>1. CASE i <= Len(a)
    <3>1. h[i] = i /\ i \in 1..Len(a) + c /\ i \in 1..Len(a) + Len(w)
      BY <1>1, <2>0, <2>1
    <3>2. t[i] = a[i]
      BY <1>4, <1>5, <2>0, <2>1, <3>1
    <3>3. QED
      BY <1>6, <2>1, <3>1, <3>2
  <2>2. CASE Len(a) < i /\ i <= Len(a) + c
    <3>1. /\ h[i] = i /\ i \in 1..Len(a) + c /\ i \in 1..Len(a) + Len(w)
          /\ i - Len(a) \in 1..c /\ ~(i <= Len(a))
      BY <1>1, <2>0, <2>2
    <3>2. t[i] = w[i - Len(a)]
      BY <1>3, <1>4, <1>5, <2>0, <2>2, <3>1
    <3>3. QED
      BY <1>6, <3>1, <3>2
  <2>3. CASE Len(a) + c < i
    <3>1. /\ h[i] = i + (n - c) /\ i + (n - c) \in 1..Len(a) + Len(w)
          /\ ~(i <= Len(a) + c) /\ ~(i + (n - c) <= Len(a))
          /\ i - (Len(a) + c) \in 1..Len(w) - n
          /\ n + (i - (Len(a) + c)) = i + (n - c) - Len(a)
      BY <1>1, <2>0, <2>3
    <3>2. t[i] = w[n + (i - (Len(a) + c))]
      BY <1>2, <1>5, <2>0, <3>1
    <3>3. \A p \in 1..Len(a) + Len(w) : ~(p <= Len(a)) => (a \o w)[p] = w[p - Len(a)]
      BY <1>6
    <3>4. (a \o w)[h[i]] = w[h[i] - Len(a)]
      <4>1. h[i] \in 1..Len(a) + Len(w) /\ ~(h[i] <= Len(a))
        BY <3>1
      <4> HIDE DEF h
      <4>2. QED
        BY <3>3, <4>1
    <3>5. h[i] - Len(a) = n + (i - (Len(a) + c))
      BY <3>1
    <3>6. QED
      BY <3>2, <3>4, <3>5
  <2>4. QED
    BY <1>1, <2>0, <2>1, <2>2, <2>3
<1>9. \A i, j \in 1..Len(t) : i < j => h[i] < h[j]
  BY <1>1, <1>5
<1> HIDE DEF h
<1>10. QED
  BY <1>7, <1>8, <1>9 DEF Thinned, t

-----------------------------------------------------------------------------
(* Order: the stream, what is in the buffer and then what is on the wire,  *)
(* holds bytes of this connection's frames in the order in which they were *)
(* sent, all of them behind the frames processed.                          *)

Stream == recv_buf_ \o wire

Known(s) ==
  \A i \in 1..Len(s) : s[i].frame # 0 =>
     /\ s[i].frame \in base + 1..Len(frames)
     /\ s[i].pos \in 1..frames[s[i].frame].size

Precedes(a, b) ==
  \/ a.frame = 0 \/ b.frame = 0
  \/ a.frame < b.frame
  \/ a.frame = b.frame /\ a.pos < b.pos

Ascending(s) == \A i, j \in 1..Len(s) : i < j => Precedes(s[i], s[j])

Beyond(s) ==
  \A i \in 1..Len(s), d \in DOMAIN done : s[i].frame # 0 => done[d] < s[i].frame

OrderInv ==
  /\ TypeOK
  /\ Known(Stream)
  /\ Ascending(Stream)
  /\ Beyond(Stream)
  /\ FramesInOrder

LEMMA StreamProperties ==
  ASSUME TypeOK
  PROVE  /\ Stream \in Seq(Byte)
         /\ Len(recv_buf_) \in Nat /\ Len(wire) \in Nat /\ Len(frames) \in Nat
         /\ Len(Stream) = Len(recv_buf_) + Len(wire)
         /\ \A i \in 1..Len(recv_buf_) : Stream[i] = recv_buf_[i]
         /\ \A i \in 1..Len(recv_buf_) : recv_buf_[i] \in Byte
         /\ \A i \in 1..Len(Stream) : Stream[i] \in Byte
<1>1. recv_buf_ \in Seq(Byte) /\ wire \in Seq(Byte) /\ frames \in Seq(Frame)
  BY DEF TypeOK
<1>2. /\ Stream \in Seq(Byte)
      /\ Len(Stream) = Len(recv_buf_) + Len(wire)
      /\ \A i \in 1..Len(recv_buf_) + Len(wire) :
           Stream[i] = IF i <= Len(recv_buf_) THEN recv_buf_[i] ELSE wire[i - Len(recv_buf_)]
  BY <1>1, ConcatProperties DEF Stream
<1>3. Len(recv_buf_) \in Nat /\ Len(wire) \in Nat /\ Len(frames) \in Nat
  BY <1>1, LenProperties
<1>4. \A i \in 1..Len(recv_buf_) : Stream[i] = recv_buf_[i]
  BY <1>2, <1>3
<1>5. QED
  BY <1>1, <1>2, <1>3, <1>4, ElementOfSeq

LEMMA FrameProperties ==
  ASSUME TypeOK, NEW f \in 1..Len(frames)
  PROVE  /\ frames[f] \in Frame
         /\ frames[f].size \in Sizes
         /\ frames[f].size \in Nat
         /\ MinFrame <= frames[f].size
         /\ frames[f].size <= BufLen
         /\ HeadLen <= frames[f].size
<1>1. frames[f] \in Frame
  BY ElementOfSeq DEF TypeOK
<1>2. frames[f].size \in Sizes
  BY <1>1 DEF Frame
<1>3. /\ frames[f].size \in Nat
      /\ MinFrame <= frames[f].size
      /\ frames[f].size <= BufLen
  BY <1>2, SizeAssumption DEF SizeAssumption
<1>4. HeadLen <= frames[f].size
  BY <1>3, LengthAssumption DEF LengthAssumption
<1>5. QED
  BY <1>1, <1>2, <1>3, <1>4

LEMMA InitOrder == Init => OrderInv
<1> SUFFICES ASSUME Init PROVE OrderInv
  OBVIOUS
<1>1. /\ recv_buf_ \in Seq(Byte) /\ wire \in Seq(Byte) /\ frames \in Seq(Frame)
      /\ done \in Seq(1..Len(frames))
      /\ Len(recv_buf_) = 0 /\ Len(frames) = 0 /\ Len(done) = 0
  BY EmptySeq DEF Init
<1>2. DOMAIN done = {}
  BY <1>1, LenProperties
<1>3. TypeOK
  <2>1. Len(recv_buf_) <= BufLen /\ base \in 0..Len(frames) /\ noises \in Nat
    BY <1>1, LengthAssumption DEF Init, LengthAssumption
  <2>2. QED
    BY <1>1, <2>1 DEF TypeOK, Init
<1>4. Stream = <<>>
  BY <1>1, ConcatEmptySeq DEF Stream, Init
<1>5. QED
  BY <1>2, <1>3, <1>4, EmptySeq DEF OrderInv, Known, Ascending, Beyond, FramesInOrder

(* A step that only thins the stream out keeps its order.                  *)
LEMMA ThinnedKeepsOrder ==
  ASSUME OrderInv, TypeOK', Thinned(Stream', Stream), UNCHANGED <<frames, base, done>>
  PROVE  OrderInv'
<1>1. PICK h \in [1..Len(Stream') -> 1..Len(Stream)] :
         /\ \A i \in 1..Len(Stream') : Stream'[i] = Stream[h[i]]
         /\ \A i, j \in 1..Len(Stream') : i < j => h[i] < h[j]
  BY DEF Thinned
<1>2. Known(Stream)'
  BY <1>1 DEF OrderInv, Known
<1>3. Ascending(Stream)'
  BY <1>1 DEF OrderInv, Ascending
<1>4. Beyond(Stream)'
  BY <1>1 DEF OrderInv, Beyond
<1>5. FramesInOrder'
  BY DEF OrderInv, FramesInOrder
<1>6. QED
  BY <1>2, <1>3, <1>4, <1>5 DEF OrderInv

LEMMA EmptyStreamIsOrdered ==
  ASSUME TypeOK, recv_buf_ = <<>>, wire = <<>>
  PROVE  Stream = <<>> /\ Known(Stream) /\ Ascending(Stream) /\ Beyond(Stream)
<1>1. Stream = <<>>
  BY ConcatEmptySeq DEF Stream, TypeOK
<1>2. Len(Stream) = 0
  BY <1>1, EmptySeq
<1>3. QED
  BY <1>1, <1>2 DEF Known, Ascending, Beyond

LEMMA TotalIsNat ==
  ASSUME OrderInv, HasHead
  PROVE  Total(recv_buf_) \in Nat
<1> DEFINE b == recv_buf_[HeadLen]
<1>1. HeadLen \in 1..Len(recv_buf_) /\ HeadLen \in Nat
  BY LengthAssumption, StreamProperties DEF LengthAssumption, HasHead, OrderInv
<1>2. b \in Byte /\ b = Stream[HeadLen] /\ HeadLen \in 1..Len(Stream)
  BY <1>1, StreamProperties DEF OrderInv
<1>3. b.frame \in Nat /\ b.pos \in Nat
  BY <1>2 DEF Byte
<1>4. CASE b.frame # 0 /\ b.pos = HeadLen
  <2>1. b.frame \in base + 1..Len(frames)
    BY <1>2, <1>4 DEF OrderInv, Known
  <2>2. b.frame \in 1..Len(frames)
    BY <2>1, StreamProperties DEF OrderInv, TypeOK
  <2>3. QED
    BY <1>4, <2>2, FrameProperties DEF OrderInv, Total
<1>5. CASE ~(b.frame # 0 /\ b.pos = HeadLen)
  BY <1>1, <1>3, <1>5 DEF Total
<1>6. QED
  BY <1>4, <1>5

LEMMA ReceiveOrder ==
  ASSUME OrderInv, NEW n \in 0..ChunkLen, Receive(n)
  PROVE  OrderInv'
<1> DEFINE c == Copied(n)
<1>1. /\ recv_buf_ \in Seq(Byte) /\ wire \in Seq(Byte)
      /\ Len(recv_buf_) \in Nat /\ Len(wire) \in Nat /\ Len(recv_buf_) <= BufLen
      /\ BufLen \in Nat /\ ChunkLen \in Nat
  BY StreamProperties, LengthAssumption DEF OrderInv, TypeOK, LengthAssumption
<1>2. n \in 0..Len(wire) /\ c \in 0..n /\ c \in 0..Len(wire) /\ Len(recv_buf_) + c <= BufLen
  BY <1>1 DEF Receive, Copied, Space
<1>3. /\ SubSeq(wire, 1, c) \in Seq(Byte) /\ Len(SubSeq(wire, 1, c)) = c
      /\ Drop(wire, n) \in Seq(Byte)
  BY <1>1, <1>2, PrefixProperties, DropProperties
<1>4. recv_buf_' \in Seq(Byte) /\ Len(recv_buf_') = Len(recv_buf_) + c
  BY <1>1, <1>3, ConcatProperties DEF Receive
<1>5. TypeOK'
  BY <1>2, <1>3, <1>4 DEF OrderInv, TypeOK, Receive
<1>6. Stream' = (recv_buf_ \o SubSeq(wire, 1, c)) \o Drop(wire, n)
  BY DEF Stream, Receive
<1> HIDE DEF c
<1>7. Thinned(Stream', Stream)
  BY <1>1, <1>2, <1>6, CutThins DEF Stream
<1>8. QED
  BY <1>5, <1>7, ThinnedKeepsOrder DEF Receive

LEMMA DropOrder ==
  ASSUME OrderInv, NEW k \in 0..Len(recv_buf_), busy,
         recv_buf_' = Drop(recv_buf_, k), busy' \in BOOLEAN,
         UNCHANGED <<open, overrun, wire, frames, base, noises, truncated>>
  PROVE  /\ done' \in Seq(1..Len(frames)) => TypeOK'
         /\ done' = done => OrderInv'
<1>1. /\ recv_buf_ \in Seq(Byte) /\ wire \in Seq(Byte)
      /\ Len(recv_buf_) \in Nat /\ Len(recv_buf_) <= BufLen
      /\ BufLen \in Nat /\ open
  BY StreamProperties, LengthAssumption DEF OrderInv, TypeOK, LengthAssumption
<1>2. recv_buf_' \in Seq(Byte) /\ Len(recv_buf_') = Len(recv_buf_) - k
  BY <1>1, DropProperties
<1>3. ASSUME done' \in Seq(1..Len(frames))
      PROVE  TypeOK'
  BY <1>1, <1>2, <1>3 DEF OrderInv, TypeOK
<1>4. ASSUME done' = done
      PROVE  OrderInv'
  <2>1. TypeOK'
    BY <1>3, <1>4 DEF OrderInv, TypeOK
  <2>2. Thinned(Stream', Stream)
    BY <1>1, DropThins DEF Stream
  <2>3. QED
    BY <1>4, <2>1, <2>2, ThinnedKeepsOrder
<1>5. QED
  BY <1>3, <1>4

LEMMA ReturnOrder ==
  ASSUME OrderInv, Incomplete \/ Resync \/ TooLarge
  PROVE  OrderInv'
<1>1. recv_buf_ \in Seq(Byte) /\ Len(recv_buf_) \in Nat
  BY StreamProperties DEF OrderInv, TypeOK
<1>2. Drop(recv_buf_, 0) = recv_buf_
  BY <1>1, SubSeqFull DEF Drop
<1>3. Drop(recv_buf_, Len(recv_buf_)) = <<>>
  BY <1>1, SubSeqEmpty DEF Drop
<1>4. ASSUME NEW k \in 0..Len(recv_buf_), busy, ReturnFalse(Drop(recv_buf_, k))
      PROVE  OrderInv'
  BY <1>4, DropOrder DEF ReturnFalse
<1>5. CASE Incomplete
  BY <1>1, <1>2, <1>4, <1>5 DEF Incomplete
<1>6. CASE Resync
  <2>1. CASE ReturnFalse(<<>>)
    BY <1>1, <1>3, <1>4, <1>6, <2>1 DEF Resync
  <2>2. ASSUME NEW i \in LaterMarks, ReturnFalse(Drop(recv_buf_, i - 1))
        PROVE  OrderInv'
    <3>1. i - 1 \in 0..Len(recv_buf_)
      BY <1>1 DEF LaterMarks
    <3>2. QED
      BY <1>4, <1>6, <2>2, <3>1 DEF Resync
  <2>3. QED
    BY <1>6, <2>1, <2>2 DEF Resync
<1>7. CASE TooLarge
  BY <1>1, <1>3, <1>4, <1>7 DEF TooLarge
<1>8. QED
  BY <1>5, <1>6, <1>7

LEMMA DropStream ==
  ASSUME TypeOK, NEW k \in 0..Len(recv_buf_), TypeOK',
         recv_buf_' = Drop(recv_buf_, k), wire' = wire
  PROVE  /\ Len(Stream') = Len(Stream) - k
         /\ \A i \in 1..Len(Stream') : Stream'[i] = Stream[k + i]
<1>1. /\ recv_buf_ \in Seq(Byte) /\ wire \in Seq(Byte)
      /\ Len(recv_buf_) \in Nat /\ Len(wire) \in Nat /\ k \in Nat /\ k <= Len(recv_buf_)
  BY StreamProperties DEF TypeOK
<1>2. /\ Drop(recv_buf_, k) \in Seq(Byte)
      /\ Len(Drop(recv_buf_, k)) = Len(recv_buf_) - k
      /\ \A i \in 1..Len(recv_buf_) - k : Drop(recv_buf_, k)[i] = recv_buf_[k + i]
  BY <1>1, DropProperties
<1>3. /\ Len(Stream) = Len(recv_buf_) + Len(wire)
      /\ \A i \in 1..Len(recv_buf_) + Len(wire) :
           Stream[i] = IF i <= Len(recv_buf_) THEN recv_buf_[i] ELSE wire[i - Len(recv_buf_)]
  BY <1>1, ConcatProperties DEF Stream
<1> DEFINE r == Drop(recv_buf_, k)
<1>4. /\ Len(Stream') = Len(r) + Len(wire)
      /\ \A i \in 1..Len(r) + Len(wire) :
           Stream'[i] = IF i <= Len(r) THEN r[i] ELSE wire[i - Len(r)]
  <2>1. Stream' = r \o wire
    BY DEF Stream
  <2> HIDE DEF r
  <2>2. QED
    BY <1>1, <1>2, <2>1, ConcatProperties DEF r
<1>5. Len(Stream') = Len(Stream) - k
  BY <1>1, <1>2, <1>3, <1>4
<1>6. ASSUME NEW i \in 1..Len(Stream')
      PROVE  Stream'[i] = Stream[k + i]
  <2>0. i \in 1..Len(recv_buf_) - k + Len(wire) /\ k + i \in 1..Len(recv_buf_) + Len(wire)
    BY <1>1, <1>3, <1>5
  <2>1. CASE i <= Len(recv_buf_) - k
    <3>1. k + i <= Len(recv_buf_) /\ i \in 1..Len(recv_buf_) - k
      BY <1>1, <2>0, <2>1
    <3>2. Stream[k + i] = recv_buf_[k + i]
      BY <1>3, <2>0, <3>1
    <3>3. QED
      BY <1>2, <1>4, <2>0, <2>1, <3>1, <3>2
  <2>2. CASE ~(i <= Len(recv_buf_) - k)
    <3>1. ~(k + i <= Len(recv_buf_)) /\ k + i - Len(recv_buf_) = i - (Len(recv_buf_) - k)
      BY <1>1, <2>0, <2>2
    <3>2. Stream[k + i] = wire[k + i - Len(recv_buf_)]
      BY <1>3, <2>0, <3>1
    <3>3. QED
      BY <1>2, <1>4, <2>0, <2>2, <3>1, <3>2
  <2>3. QED
    BY <2>1, <2>2
<1>7. QED
  BY <1>5, <1>6

(* A packet that is a frame: its length, its bytes, and its place among    *)
(* the frames.                                                             *)
LEMMA PacketProperties ==
  ASSUME OrderInv, Complete, NEW f \in DOMAIN frames, IsFrame(f, Packet)
  PROVE  /\ f \in 1..Len(frames)
         /\ Total(recv_buf_) = frames[f].size
         /\ frames[f].size \in 1..Len(recv_buf_)
         /\ \A i \in 1..frames[f].size : Stream[i] = [frame |-> f, pos |-> i]
         /\ base < f
         /\ \A d \in DOMAIN done : done[d] < f
<1> DEFINE T == Total(recv_buf_)  size == frames[f].size
<1>1. T \in Nat /\ T <= Len(recv_buf_) /\ Len(recv_buf_) \in Nat /\ recv_buf_ \in Seq(Byte)
  BY TotalIsNat, StreamProperties DEF Complete, Whole, AtMark, OrderInv, TypeOK
<1>2. f \in 1..Len(frames) /\ f \in Nat
  BY LenProperties DEF OrderInv, TypeOK
<1>3. size \in Nat /\ HeadLen <= size /\ HeadLen \in Nat /\ HeadLen >= 3
  BY <1>2, FrameProperties, LengthAssumption DEF OrderInv, LengthAssumption
<1>4. /\ Len(Packet) = T /\ \A i \in 1..T : Packet[i] = recv_buf_[i]
  <2>1. T \in 0..Len(recv_buf_)
    BY <1>1
  <2>2. QED
    BY <1>1, <2>1, PrefixProperties DEF Packet
<1>5. Packet = Bytes(f, size)
  BY DEF IsFrame
<1>6. T = size
  BY <1>2, <1>3, <1>4, <1>5, BytesProperties
<1>7. \A i \in 1..size : recv_buf_[i] = [frame |-> f, pos |-> i]
  BY <1>2, <1>3, <1>4, <1>5, <1>6, BytesProperties
<1>8. \A i \in 1..size : i \in 1..Len(recv_buf_)
  BY <1>1, <1>3, <1>6
<1>9. \A i \in 1..size : Stream[i] = [frame |-> f, pos |-> i]
  BY <1>7, <1>8, StreamProperties DEF OrderInv
<1>10. size \in 1..Len(recv_buf_)
  BY <1>1, <1>3, <1>6
<1>11. 1 \in 1..Len(Stream) /\ Stream[1].frame = f /\ f # 0
  <2>1. 1 \in 1..size /\ f # 0
    BY <1>2, <1>3
  <2>2. Stream[1].frame = f
    <3>1. Stream[1] = [frame |-> f, pos |-> 1]
      BY <1>9, <2>1
    <3>2. QED
      BY <3>1
  <2>3. 1 \in 1..Len(Stream)
    BY <1>1, <1>10, StreamProperties DEF OrderInv
  <2>4. QED
    BY <2>1, <2>2, <2>3
<1>12. base < f
  <2>1. f \in base + 1..Len(frames) /\ base \in Nat
    BY <1>11, StreamProperties DEF OrderInv, Known, TypeOK
  <2>2. QED
    BY <2>1
<1>13. \A d \in DOMAIN done : done[d] < f
  BY <1>11 DEF OrderInv, Beyond
<1>14. QED
  BY <1>2, <1>6, <1>9, <1>10, <1>12, <1>13

LEMMA ProcessOrder ==
  ASSUME OrderInv, ProcessPacket
  PROVE  OrderInv'
<1> DEFINE T == Total(recv_buf_)
<1>1. T \in 0..Len(recv_buf_) /\ busy
  <2>1. T \in Nat /\ T <= Len(recv_buf_) /\ Len(recv_buf_) \in Nat
    BY TotalIsNat, StreamProperties DEF ProcessPacket, Complete, Whole, AtMark, OrderInv
  <2>2. QED
    BY <2>1 DEF ProcessPacket, Complete
<1>2. /\ done' \in Seq(1..Len(frames)) => TypeOK'
      /\ done' = done => OrderInv'
  BY <1>1, DropOrder DEF ProcessPacket, OrderInv, TypeOK
<1>3. ASSUME NEW f \in DOMAIN frames, IsFrame(f, Packet), done' = Append(done, f)
      PROVE  OrderInv'
  <2>1. /\ f \in 1..Len(frames)
        /\ T = frames[f].size
        /\ frames[f].size \in 1..Len(recv_buf_)
        /\ \A i \in 1..frames[f].size : Stream[i] = [frame |-> f, pos |-> i]
        /\ base < f
        /\ \A d \in DOMAIN done : done[d] < f
    BY <1>3, PacketProperties DEF ProcessPacket
  <2>2. /\ done \in Seq(1..Len(frames)) /\ Len(done) \in Nat /\ DOMAIN done = 1..Len(done)
    BY LenProperties DEF OrderInv, TypeOK
  <2>3. /\ done' \in Seq(1..Len(frames))
        /\ Len(done') = Len(done) + 1
        /\ DOMAIN done' = 1..Len(done) + 1
        /\ \A d \in 1..Len(done) : done'[d] = done[d]
        /\ done'[Len(done) + 1] = f
    BY <1>3, <2>1, <2>2, AppendProperties, LenProperties
  <2>4. TypeOK'
    BY <1>2, <2>3
  <2>5. /\ Len(Stream') = Len(Stream) - T
        /\ \A i \in 1..Len(Stream') : Stream'[i] = Stream[T + i]
    BY <1>1, <2>4, DropStream DEF ProcessPacket, OrderInv
  <2>6. /\ Len(Stream) \in Nat /\ Len(Stream') \in Nat /\ T \in 1..Len(Stream)
        /\ \A i \in 1..Len(Stream') : T + i \in 1..Len(Stream) /\ T < T + i
    BY <2>1, <2>4, <2>5, StreamProperties DEF OrderInv
  <2>7. Known(Stream)'
    BY <2>5, <2>6 DEF OrderInv, Known, ProcessPacket
  <2>8. Ascending(Stream)'
    <3>1. ASSUME NEW i \in 1..Len(Stream'), NEW j \in 1..Len(Stream'), i < j
          PROVE  Precedes(Stream'[i], Stream'[j])
      <4>1. T + i \in 1..Len(Stream) /\ T + j \in 1..Len(Stream) /\ T + i < T + j
        BY <2>6, <3>1
      <4>2. QED
        BY <2>5, <4>1 DEF OrderInv, Ascending
    <3>2. QED
      BY <3>1 DEF Ascending
  <2>9. Beyond(Stream)'
    <3>1. ASSUME NEW i \in 1..Len(Stream'), Stream'[i].frame # 0
          PROVE  f < Stream'[i].frame
      <4> DEFINE b == Stream[T + i]
      <4>1. Stream'[i] = b /\ T + i \in 1..Len(Stream) /\ T < T + i /\ b.frame # 0
        BY <2>5, <2>6, <3>1
      <4>2. b \in Byte /\ b.frame \in Nat /\ b.pos \in Nat
        BY <4>1, StreamProperties DEF OrderInv, Byte
      <4>3. b.pos \in 1..frames[b.frame].size
        BY <4>1 DEF OrderInv, Known
      <4>4. Precedes([frame |-> f, pos |-> T], b)
        BY <2>1, <2>6, <4>1 DEF OrderInv, Ascending
      <4>5. f # 0 /\ f \in Nat /\ T \in Nat
        BY <2>1, <2>6
      <4> HIDE DEF b
      <4>6. ~(f = b.frame /\ T < b.pos)
        BY <2>1, <4>2, <4>3, <4>5
      <4>7. QED
        BY <4>1, <4>4, <4>5, <4>6 DEF Precedes
    <3>2. ASSUME NEW i \in 1..Len(Stream'), NEW d \in 1..Len(done), Stream'[i].frame # 0
          PROVE  done'[d] < Stream'[i].frame
      BY <2>2, <2>3, <2>5, <2>6, <3>2 DEF OrderInv, Beyond
    <3>3. \A d \in 1..Len(done) + 1 : d \in 1..Len(done) \/ d = Len(done) + 1
      BY <2>2
    <3>4. QED
      BY <2>3, <3>1, <3>2, <3>3 DEF Beyond
  <2>10. FramesInOrder'
    <3>1. \A d \in 1..Len(done) + 1 : d \in 1..Len(done) \/ d = Len(done) + 1
      BY <2>2
    <3>2. \A d \in DOMAIN done' : base < done'[d]
      BY <2>1, <2>2, <2>3, <3>1 DEF OrderInv, FramesInOrder
    <3>3. ASSUME NEW d \in 1..Len(done) + 1, NEW e \in 1..Len(done) + 1, d < e
          PROVE  done'[d] < done'[e]
      <4>1. d \in 1..Len(done)
        BY <2>2, <3>3
      <4>2. CASE e \in 1..Len(done)
        BY <2>2, <2>3, <3>3, <4>1, <4>2 DEF OrderInv, FramesInOrder
      <4>3. CASE e = Len(done) + 1
        BY <2>1, <2>2, <2>3, <4>1, <4>3
      <4>4. QED
        BY <3>1, <4>2, <4>3
    <3>4. base' = base
      BY DEF ProcessPacket
    <3>5. QED
      BY <2>3, <3>2, <3>3, <3>4 DEF FramesInOrder
  <2>11. QED
    BY <2>4, <2>7, <2>8, <2>9, <2>10 DEF OrderInv
<1>4. QED
  BY <1>2, <1>3 DEF ProcessPacket

LEMMA ConnectionOrder ==
  ASSUME OrderInv, Connect \/ LinkLost \/ EchoFailure \/ Boot
  PROVE  OrderInv'
<1>1. <<>> \in Seq(Byte) /\ Len(<<>>) = 0 /\ <<>> \in Seq(1..Len(frames))
  BY EmptySeq
<1>2. BufLen \in Nat /\ Len(frames) \in Nat
  BY StreamProperties, LengthAssumption DEF LengthAssumption, OrderInv
<1>3. CASE Connect
  <2>1. recv_buf_ = <<>> /\ wire = <<>> /\ recv_buf_' = recv_buf_ /\ wire' = wire
    BY <1>3 DEF Connect, OrderInv, TypeOK
  <2>2. TypeOK'
    <3>1. base' \in 0..Len(frames') /\ done' \in Seq(1..Len(frames'))
      BY <1>1, <1>2, <1>3 DEF Connect
    <3>2. QED
      BY <1>3, <2>1, <3>1 DEF Connect, OrderInv, TypeOK
  <2>3. Known(Stream)' /\ Ascending(Stream)' /\ Beyond(Stream)'
    <3>1. Stream' = <<>>
      BY <2>1, <1>1, ConcatEmptySeq DEF Stream
    <3>2. Len(Stream') = 0
      BY <3>1, <1>1
    <3>3. QED
      BY <3>2 DEF Known, Ascending, Beyond
  <2>4. DOMAIN done' = {}
    BY <1>1, <1>3, LenProperties DEF Connect
  <2>5. QED
    BY <2>2, <2>3, <2>4 DEF OrderInv, FramesInOrder
<1>4. CASE LinkLost \/ EchoFailure
  <2>1. /\ recv_buf_' = <<>> /\ wire' = <<>>
        /\ UNCHANGED <<frames, base, done, noises, truncated>>
    BY <1>4 DEF LinkLost, EchoFailure, close_socket_
  <2>2. TypeOK'
    <3>1. /\ recv_buf_' \in Seq(Byte) /\ wire' \in Seq(Byte)
          /\ Len(recv_buf_') <= BufLen
      BY <1>1, <1>2, <2>1
    <3>2. open' = FALSE /\ busy' = FALSE /\ overrun' \in BOOLEAN
      BY <1>4 DEF LinkLost, EchoFailure, close_socket_, OrderInv, TypeOK
    <3>3. QED
      BY <2>1, <3>1, <3>2 DEF OrderInv, TypeOK
  <2>3. Stream' = <<>>
    BY <1>1, <2>1, ConcatEmptySeq DEF Stream
  <2>4. Len(Stream') = 0
    BY <1>1, <2>3
  <2>5. QED
    BY <2>1, <2>2, <2>4 DEF OrderInv, Known, Ascending, Beyond, FramesInOrder
<1>5. CASE Boot
  <2>1. TypeOK' /\ Stream' = Stream
    BY <1>5 DEF Boot, OrderInv, TypeOK, Stream
  <2>2. QED
    BY <1>5, <2>1 DEF Boot, OrderInv, Known, Ascending, Beyond, FramesInOrder
<1>6. QED
  BY <1>3, <1>4, <1>5

(* What the peer adds to the stream is behind all that is there.           *)
LEMMA AddedProperties ==
  ASSUME TypeOK, NEW added \in Seq(Byte), wire' = wire \o added, recv_buf_' = recv_buf_
  PROVE  /\ wire' \in Seq(Byte)
         /\ Len(added) \in Nat
         /\ Len(Stream') = Len(Stream) + Len(added)
         /\ \A i \in 1..Len(Stream') :
              \/ i \in 1..Len(Stream) /\ Stream'[i] = Stream[i]
              \/ /\ i - Len(Stream) \in 1..Len(added) /\ Len(Stream) < i
                 /\ Stream'[i] = added[i - Len(Stream)]
<1>1. recv_buf_ \in Seq(Byte) /\ wire \in Seq(Byte) /\ wire' \in Seq(Byte)
  BY ConcatProperties DEF TypeOK
<1>2. Stream' = Stream \o added
  BY <1>1, Associativity DEF Stream
<1>3. /\ Stream \in Seq(Byte) /\ Len(Stream) \in Nat /\ Len(added) \in Nat
  BY StreamProperties, LenProperties
<1>4. /\ Len(Stream') = Len(Stream) + Len(added)
      /\ \A i \in 1..Len(Stream) + Len(added) :
           Stream'[i] = IF i <= Len(Stream) THEN Stream[i] ELSE added[i - Len(Stream)]
  BY <1>2, <1>3, ConcatProperties
<1>5. \A i \in 1..Len(Stream) + Len(added) :
         \/ i \in 1..Len(Stream)
         \/ i - Len(Stream) \in 1..Len(added) /\ Len(Stream) < i /\ ~(i <= Len(Stream))
  BY <1>3
<1>6. QED
  BY <1>1, <1>3, <1>4, <1>5

LEMMA PeerNoiseOrder ==
  ASSUME OrderInv, NEW pos \in Noise, PeerNoise(pos)
  PROVE  OrderInv'
<1> DEFINE b == [frame |-> 0, pos |-> pos]
<1>1. b \in Byte /\ b.frame = 0
  BY ByteAssumption DEF Byte, ByteAssumption
<1>2. wire \in Seq(Byte) /\ wire' = Append(wire, b)
  BY DEF PeerNoise, OrderInv, TypeOK
<1> HIDE DEF b
<1>3. /\ <<b>> \in Seq(Byte) /\ Len(<<b>>) = 1 /\ <<b>>[1] = b
      /\ wire' = wire \o <<b>>
  BY <1>1, <1>2, AppendIsConcat
<1>4. /\ wire' \in Seq(Byte)
      /\ Len(Stream') = Len(Stream) + 1
      /\ \A i \in 1..Len(Stream') :
           \/ i \in 1..Len(Stream) /\ Stream'[i] = Stream[i]
           \/ Stream'[i] = b /\ Len(Stream) < i
  <2>1. \A i \in Nat : i \in 1..1 => i = 1
    OBVIOUS
  <2>2. \A i \in 1..1 : <<b>>[i] = b
    BY <1>3, <2>1
  <2>3. QED
    BY <1>3, <2>2, AddedProperties DEF PeerNoise, OrderInv
<1>5. TypeOK'
  BY <1>4 DEF PeerNoise, OrderInv, TypeOK
<1>6. Known(Stream)'
  BY <1>1, <1>4 DEF PeerNoise, OrderInv, Known
<1>7. Ascending(Stream)'
  <2>1. ASSUME NEW i \in 1..Len(Stream'), NEW j \in 1..Len(Stream'), i < j
        PROVE  Precedes(Stream'[i], Stream'[j])
    <3>1. CASE Stream'[i] = b \/ Stream'[j] = b
      BY <1>1, <3>1 DEF Precedes
    <3>2. CASE ~(Stream'[i] = b \/ Stream'[j] = b)
      BY <1>4, <2>1, <3>2 DEF OrderInv, Ascending
    <3>3. QED
      BY <3>1, <3>2
  <2>2. QED
    BY <2>1 DEF Ascending
<1>8. Beyond(Stream)'
  BY <1>1, <1>4 DEF PeerNoise, OrderInv, Beyond
<1>9. QED
  BY <1>5, <1>6, <1>7, <1>8 DEF PeerNoise, OrderInv, FramesInOrder

(* What PeerSends adds: one frame, after all frames there are.             *)
LEMMA PeerSendsProperties ==
  ASSUME OrderInv, NEW size \in Sizes, NEW kind \in Kinds, PeerSends(size, kind)
  PROVE  /\ size \in Nat /\ MinFrame <= size /\ size <= BufLen /\ 1 <= size
         /\ Len(frames) \in Nat /\ Len(Stream) \in Nat
         /\ frames' \in Seq(Frame)
         /\ Len(frames') = Len(frames) + 1
         /\ \A f \in 1..Len(frames) : frames'[f] = frames[f]
         /\ frames'[Len(frames) + 1].size = size
         /\ wire' \in Seq(Byte)
         /\ Len(Stream') = Len(Stream) + size
         /\ \A i \in 1..Len(Stream') :
              \/ i \in 1..Len(Stream) /\ Stream'[i] = Stream[i]
              \/ /\ i - Len(Stream) \in 1..size /\ Len(Stream) < i
                 /\ Stream'[i] = [frame |-> Len(frames) + 1, pos |-> i - Len(Stream)]
<1>1. size \in Nat /\ MinFrame <= size /\ size <= BufLen /\ 1 <= size
  <2>1. size \in Nat /\ MinFrame <= size /\ size <= BufLen
    BY SizeAssumption DEF SizeAssumption
  <2>2. QED
    BY <2>1, LengthAssumption DEF LengthAssumption
<1>2. Len(frames) \in Nat /\ Len(Stream) \in Nat /\ frames \in Seq(Frame)
  BY StreamProperties, LenProperties DEF OrderInv, TypeOK
<1> DEFINE fr == [size |-> size, kind |-> kind]
<1>3. fr \in Frame /\ fr.size = size /\ frames' = Append(frames, fr)
  BY DEF Frame, PeerSends
<1> HIDE DEF fr
<1>4. /\ frames' \in Seq(Frame)
      /\ Len(frames') = Len(frames) + 1
      /\ \A f \in 1..Len(frames) : frames'[f] = frames[f]
      /\ frames'[Len(frames) + 1].size = size
  BY <1>2, <1>3, AppendProperties
<1> DEFINE added == Bytes(Len(frames) + 1, size)
<1>5. /\ added \in Seq(Byte)
      /\ Len(added) = size
      /\ \A i \in 1..size : added[i] = [frame |-> Len(frames) + 1, pos |-> i]
  <2>1. Len(frames) + 1 \in Nat
    BY <1>2
  <2>2. QED
    BY <1>1, <2>1, BytesProperties
<1>6. wire' = wire \o added /\ recv_buf_' = recv_buf_
  BY DEF PeerSends
<1> HIDE DEF added
<1>7. /\ wire' \in Seq(Byte)
      /\ Len(Stream') = Len(Stream) + size
      /\ \A i \in 1..Len(Stream') :
           \/ i \in 1..Len(Stream) /\ Stream'[i] = Stream[i]
           \/ /\ i - Len(Stream) \in 1..size /\ Len(Stream) < i
              /\ Stream'[i] = added[i - Len(Stream)]
  BY <1>5, <1>6, AddedProperties DEF OrderInv
<1>8. QED
  BY <1>1, <1>2, <1>4, <1>5, <1>7

LEMMA PeerSendsOrder ==
  ASSUME OrderInv, NEW size \in Sizes, NEW kind \in Kinds, PeerSends(size, kind)
  PROVE  OrderInv'
<1> DEFINE new == Len(frames) + 1
<1>1. /\ size \in Nat /\ MinFrame <= size /\ size <= BufLen /\ 1 <= size
      /\ Len(frames) \in Nat /\ Len(Stream) \in Nat
      /\ frames' \in Seq(Frame)
      /\ Len(frames') = new
      /\ \A f \in 1..Len(frames) : frames'[f] = frames[f]
      /\ frames'[new].size = size
      /\ wire' \in Seq(Byte)
      /\ Len(Stream') = Len(Stream) + size
  BY PeerSendsProperties
<1>2. ASSUME NEW i \in 1..Len(Stream')
      PROVE  \/ i \in 1..Len(Stream) /\ Stream'[i] = Stream[i]
             \/ /\ i - Len(Stream) \in 1..size /\ Len(Stream) < i
                /\ Stream'[i].frame = new /\ Stream'[i].pos = i - Len(Stream)
  <2>1. \/ i \in 1..Len(Stream) /\ Stream'[i] = Stream[i]
        \/ /\ i - Len(Stream) \in 1..size /\ Len(Stream) < i
           /\ Stream'[i] = [frame |-> new, pos |-> i - Len(Stream)]
    BY PeerSendsProperties
  <2>2. QED
    BY <2>1
<1>3. /\ UNCHANGED <<open, busy, recv_buf_, overrun, base, done, noises, truncated>>
      /\ base \in 0..Len(frames) /\ done \in Seq(1..Len(frames))
  BY DEF PeerSends, OrderInv, TypeOK
<1>4. TypeOK'
  <2>1. base' \in 0..Len(frames')
    BY <1>1, <1>3
  <2>2. done' \in Seq(1..Len(frames'))
    <3>1. 1..Len(frames) \subseteq 1..Len(frames')
      BY <1>1
    <3>2. QED
      BY <1>3, <3>1, SeqMonotonic
  <2>3. open
    BY DEF PeerSends
  <2>4. QED
    BY <1>1, <1>3, <2>1, <2>2, <2>3 DEF OrderInv, TypeOK
<1>5. Known(Stream)'
  <2>1. ASSUME NEW i \in 1..Len(Stream'), Stream'[i].frame # 0
        PROVE  /\ Stream'[i].frame \in base + 1..new
               /\ Stream'[i].pos \in 1..frames'[Stream'[i].frame].size
    <3>1. CASE i \in 1..Len(Stream) /\ Stream'[i] = Stream[i]
      <4>1. /\ Stream[i].frame \in base + 1..Len(frames)
            /\ Stream[i].pos \in 1..frames[Stream[i].frame].size
        BY <2>1, <3>1 DEF OrderInv, Known
      <4>2. Stream[i].frame \in 1..Len(frames) /\ Stream[i].frame \in base + 1..new
        BY <1>1, <1>3, <4>1
      <4>3. QED
        BY <1>1, <3>1, <4>1, <4>2
    <3>2. CASE i - Len(Stream) \in 1..size /\ Stream'[i].frame = new /\ Stream'[i].pos = i - Len(Stream)
      <4>1. new \in base + 1..new
        BY <1>1, <1>3
      <4>2. QED
        BY <1>1, <3>2, <4>1
    <3>3. QED
      BY <1>2, <3>1, <3>2
  <2>2. QED
    BY <1>1, <1>3, <2>1 DEF Known
<1>6. \A i \in 1..Len(Stream) : Stream[i].frame # 0 => Stream[i].frame < new /\ Stream[i].frame \in Nat
  BY <1>1, <1>3 DEF OrderInv, Known
<1>7. Ascending(Stream)'
  <2>1. ASSUME NEW i \in 1..Len(Stream'), NEW j \in 1..Len(Stream'), i < j
        PROVE  Precedes(Stream'[i], Stream'[j])
    <3>1. CASE i \in 1..Len(Stream) /\ Stream'[i] = Stream[i]
      <4>1. CASE j \in 1..Len(Stream) /\ Stream'[j] = Stream[j]
        BY <2>1, <3>1, <4>1 DEF OrderInv, Ascending
      <4>2. CASE Stream'[j].frame = new
        BY <1>6, <3>1, <4>2 DEF Precedes
      <4>3. QED
        BY <1>2, <4>1, <4>2
    <3>2. CASE /\ Len(Stream) < i
               /\ Stream'[i].frame = new /\ Stream'[i].pos = i - Len(Stream)
      <4>1. ~(j \in 1..Len(Stream))
        BY <1>1, <2>1, <3>2
      <4>2. Stream'[j].frame = new /\ Stream'[j].pos = j - Len(Stream)
        BY <1>2, <4>1
      <4>3. i - Len(Stream) < j - Len(Stream)
        BY <1>1, <2>1
      <4>4. QED
        BY <3>2, <4>2, <4>3 DEF Precedes
    <3>3. QED
      BY <1>2, <3>1, <3>2
  <2>2. QED
    BY <2>1 DEF Ascending
<1>8. Beyond(Stream)'
  <2>1. \A d \in DOMAIN done : done[d] < new
    <3>1. \A d \in DOMAIN done : done[d] \in 1..Len(frames)
      BY <1>3, LenProperties, ElementOfSeq
    <3>2. QED
      BY <1>1, <3>1
  <2>2. ASSUME NEW i \in 1..Len(Stream'), NEW d \in DOMAIN done, Stream'[i].frame # 0
        PROVE  done[d] < Stream'[i].frame
    BY <1>2, <2>1, <2>2 DEF OrderInv, Beyond
  <2>3. QED
    BY <1>3, <2>2 DEF Beyond
<1>9. QED
  BY <1>3, <1>4, <1>5, <1>7, <1>8 DEF OrderInv, FramesInOrder

LEMMA NextOrder == OrderInv /\ [Next]_vars => OrderInv'
<1> SUFFICES ASSUME OrderInv, [Next]_vars PROVE OrderInv'
  OBVIOUS
<1>1. CASE Connect \/ LinkLost \/ EchoFailure \/ Boot
  BY <1>1, ConnectionOrder
<1>2. ASSUME NEW size \in Sizes, NEW kind \in Kinds, PeerSends(size, kind) PROVE OrderInv'
  BY <1>2, PeerSendsOrder
<1>3. ASSUME NEW pos \in Noise, PeerNoise(pos) PROVE OrderInv'
  BY <1>3, PeerNoiseOrder
<1>4. CASE try_recv_
  BY <1>4, ReceiveOrder DEF try_recv_
<1>5. CASE Incomplete \/ Resync \/ TooLarge
  BY <1>5, ReturnOrder
<1>6. CASE ProcessPacket
  BY <1>6, ProcessOrder
<1>7. CASE UNCHANGED vars
  <2>1. TypeOK' /\ Stream' = Stream
    BY <1>7 DEF vars, OrderInv, TypeOK, Stream
  <2>2. QED
    BY <1>7, <2>1 DEF vars, OrderInv, Known, Ascending, Beyond, FramesInOrder
<1>8. QED
  BY <1>1, <1>2, <1>3, <1>4, <1>5, <1>6, <1>7 DEF Next, try_process_packet_

(* The buffer's bounds and the types of all that is in it.                 *)
THEOREM StreamTypeCorrect == Spec => []TypeOK
<1>1. OrderInv => TypeOK
  BY DEF OrderInv
<1>2. QED
  BY <1>1, InitOrder, NextOrder, PTL DEF Spec

(* Whatever noise and truncation do to the stream, no frame is processed   *)
(* twice, out of order or on a later connection.                           *)
THEOREM FramesStayInOrder == Spec => []FramesInOrder
<1>1. OrderInv => FramesInOrder
  BY DEF OrderInv
<1>2. QED
  BY <1>1, InitOrder, NextOrder, PTL DEF Spec

-----------------------------------------------------------------------------
(* Completeness: as long as the peer sends frames only and none of their   *)
(* bytes is cut off, the stream is the rest of what was sent, from the     *)
(* first byte of the frame after those processed to the last byte sent.    *)

Left(b) == frames[b.frame].size - b.pos

Unbroken(s) ==
  \A i \in 1..Len(s) :
    /\ s[i].frame # 0
    /\ \A k \in 0..Left(s[i]) :
         i + k \in 1..Len(s) /\ s[i + k] = [frame |-> s[i].frame, pos |-> s[i].pos + k]
    /\ i + Left(s[i]) + 1 \in 1..Len(s) =>
         s[i + Left(s[i]) + 1] = [frame |-> s[i].frame + 1, pos |-> 1]

Upcoming == base + Len(done) + 1

CleanInv ==
  open /\ Clean =>
    /\ \A i \in DOMAIN done : done[i] = base + i
    /\ Unbroken(Stream)
    /\ Len(Stream) = 0 => Len(frames) + 1 = Upcoming
    /\ Len(Stream) > 0 =>
         /\ Stream[1] = [frame |-> Upcoming, pos |-> 1]
         /\ Stream[Len(Stream)].frame = Len(frames)
    /\ ~busy /\ Len(recv_buf_) > 0 => Len(recv_buf_) < frames[Upcoming].size

StreamInv == OrderInv /\ CleanInv /\ SpaceSuffices

LEMMA InitStream == Init => StreamInv
<1> SUFFICES ASSUME Init PROVE StreamInv
  OBVIOUS
<1>1. OrderInv
  BY InitOrder
<1>2. CleanInv /\ SpaceSuffices
  BY DEF Init, CleanInv, SpaceSuffices
<1>3. QED
  BY <1>1, <1>2 DEF StreamInv

LEMMA UpcomingIsNat ==
  ASSUME OrderInv
  PROVE  /\ Upcoming \in Nat /\ base \in Nat /\ Len(done) \in Nat
         /\ Len(frames) \in Nat /\ Len(Stream) \in Nat
         /\ Upcoming = base + Len(done) + 1
<1>1. base \in 0..Len(frames) /\ done \in Seq(1..Len(frames))
  BY DEF OrderInv, TypeOK
<1>2. QED
  BY <1>1, LenProperties, StreamProperties DEF OrderInv, Upcoming

(* The stream starts with the whole of the upcoming frame.                 *)
LEMMA UpcomingIsThere ==
  ASSUME StreamInv, open, Clean, Len(Stream) > 0
  PROVE  /\ Upcoming \in 1..Len(frames)
         /\ frames[Upcoming].size \in 1..Len(Stream)
         /\ \A i \in 1..frames[Upcoming].size : Stream[i] = [frame |-> Upcoming, pos |-> i]
         /\ frames[Upcoming].size + 1 \in 1..Len(Stream) =>
              Stream[frames[Upcoming].size + 1] = [frame |-> Upcoming + 1, pos |-> 1]
<1> DEFINE size == frames[Upcoming].size
<1>1. /\ Unbroken(Stream)
      /\ Stream[1] = [frame |-> Upcoming, pos |-> 1]
      /\ Len(Stream) \in Nat /\ 1 \in 1..Len(Stream)
      /\ Upcoming \in Nat
  BY UpcomingIsNat DEF StreamInv, CleanInv
<1>2. /\ Stream[1].frame = Upcoming /\ Stream[1].pos = 1 /\ Stream[1].frame # 0
      /\ Left(Stream[1]) = size - 1
  <2>1. Stream[1].frame = Upcoming /\ Stream[1].pos = 1
    BY <1>1
  <2>2. Upcoming # 0
    BY <1>1, <2>1 DEF Unbroken
  <2>3. QED
    BY <2>1, <2>2 DEF Left
<1>3. Upcoming \in base + 1..Len(frames)
  BY <1>1, <1>2 DEF StreamInv, OrderInv, Known
<1>4. Upcoming \in 1..Len(frames)
  BY <1>3, UpcomingIsNat DEF StreamInv
<1>5. size \in Nat /\ size >= 3
  BY <1>4, FrameProperties, LengthAssumption DEF StreamInv, OrderInv, LengthAssumption
<1>6. \A k \in 0..size - 1 : 1 + k \in 1..Len(Stream) /\ Stream[1 + k] = [frame |-> Upcoming, pos |-> 1 + k]
  BY <1>1, <1>2 DEF Unbroken
<1>7. ASSUME NEW i \in 1..size
      PROVE  i \in 1..Len(Stream) /\ Stream[i] = [frame |-> Upcoming, pos |-> i]
  <2>1. i - 1 \in 0..size - 1 /\ 1 + (i - 1) = i
    BY <1>5
  <2>2. 1 + (i - 1) \in 1..Len(Stream) /\ Stream[1 + (i - 1)] = [frame |-> Upcoming, pos |-> 1 + (i - 1)]
    BY <1>6, <2>1
  <2>3. QED
    BY <2>1, <2>2
<1>8. size \in 1..Len(Stream)
  <2>1. size \in 1..size
    BY <1>5
  <2>2. QED
    BY <1>7, <2>1
<1>9. 1 + (size - 1) + 1 \in 1..Len(Stream) =>
        Stream[1 + (size - 1) + 1] = [frame |-> Upcoming + 1, pos |-> 1]
  BY <1>1, <1>2 DEF Unbroken
<1>10. 1 + (size - 1) + 1 = size + 1
  BY <1>5
<1>11. QED
  BY <1>4, <1>7, <1>8, <1>9, <1>10

(* What try_process_packet_ sees of it.                                    *)
LEMMA HeadIsRead ==
  ASSUME StreamInv, open, Clean, HasHead
  PROVE  /\ AtMark
         /\ Upcoming \in 1..Len(frames)
         /\ Total(recv_buf_) = frames[Upcoming].size
         /\ Len(Stream) > 0
<1>1. /\ HeadLen \in Nat /\ HeadLen >= 3 /\ Len(recv_buf_) \in Nat /\ HeadLen <= Len(recv_buf_)
      /\ Len(Stream) > 0
  BY StreamProperties, LengthAssumption DEF StreamInv, OrderInv, LengthAssumption, HasHead
<1>2. /\ Upcoming \in 1..Len(frames)
      /\ \A i \in 1..frames[Upcoming].size : Stream[i] = [frame |-> Upcoming, pos |-> i]
  BY <1>1, UpcomingIsThere
<1>3. HeadLen <= frames[Upcoming].size /\ frames[Upcoming].size \in Nat
  BY <1>2, FrameProperties DEF StreamInv, OrderInv
<1>4. ASSUME NEW i \in {1, 2, HeadLen}
      PROVE  recv_buf_[i] = [frame |-> Upcoming, pos |-> i]
  <2>1. i \in 1..Len(recv_buf_) /\ i \in 1..frames[Upcoming].size
    BY <1>1, <1>3
  <2>2. QED
    BY <1>2, <2>1, StreamProperties DEF StreamInv, OrderInv
<1>5. AtMark
  <2>1. recv_buf_[1].pos = 1 /\ recv_buf_[1 + 1].pos = 2
    BY <1>4
  <2>2. QED
    BY <2>1 DEF AtMark, Mark, ReadsA1, Reads1A
<1>6. Total(recv_buf_) = frames[Upcoming].size
  <2>1. Upcoming # 0 /\ recv_buf_[HeadLen].frame = Upcoming /\ recv_buf_[HeadLen].pos = HeadLen
    BY <1>2, <1>4, StreamProperties DEF StreamInv, OrderInv
  <2>2. QED
    BY <2>1 DEF Total
<1>7. QED
  BY <1>1, <1>2, <1>5, <1>6

(* A stream that is not cut off in this step is what it was.               *)
LEMMA ReceiveClean ==
  ASSUME StreamInv, NEW n \in 0..ChunkLen, Receive(n)
  PROVE  CleanInv' /\ SpaceSuffices'
<1>1. /\ recv_buf_ \in Seq(Byte) /\ wire \in Seq(Byte)
      /\ Len(recv_buf_) \in Nat /\ Len(wire) \in Nat /\ Len(recv_buf_) <= BufLen
      /\ BufLen \in Nat /\ ChunkLen \in Nat /\ n \in 0..Len(wire) /\ n <= ChunkLen
      /\ Len(Stream) = Len(recv_buf_) + Len(wire)
  BY StreamProperties, LengthAssumption DEF StreamInv, OrderInv, TypeOK, LengthAssumption, Receive
<1>2. /\ open /\ ~busy /\ open' = open /\ busy' = TRUE
      /\ UNCHANGED <<frames, base, done, noises>>
      /\ truncated' = (truncated \/ n > Space)
  BY DEF Receive
<1>3. CleanInv'
  <2>1. SUFFICES ASSUME Clean'
                 PROVE  CleanInv'
    BY DEF CleanInv
  <2>2. Clean /\ ~(n > Space)
    BY <1>2, <2>1 DEF Clean
  <2>3. Copied(n) = n
    BY <1>1, <2>2 DEF Copied, Space
  <2>4. /\ SubSeq(wire, 1, n) \in Seq(Byte) /\ Drop(wire, n) \in Seq(Byte)
    BY <1>1, PrefixProperties, DropProperties
  <2>5. SubSeq(wire, 1, n) \o Drop(wire, n) = wire
    <3>1. 1 \in 1..Len(wire) + 1 /\ n \in 1 - 1..Len(wire) /\ Len(wire) \in n..Len(wire)
      BY <1>1
    <3>2. SubSeq(wire, 1, n) \o SubSeq(wire, n + 1, Len(wire)) = SubSeq(wire, 1, Len(wire))
      BY <1>1, <3>1, ConcatAdjacentSubSeq
    <3>3. QED
      BY <1>1, <3>2, SubSeqFull DEF Drop
  <2>6. Stream' = Stream
    <3>1. Stream' = (recv_buf_ \o SubSeq(wire, 1, n)) \o Drop(wire, n)
      BY <2>3 DEF Stream, Receive
    <3>2. (recv_buf_ \o SubSeq(wire, 1, n)) \o Drop(wire, n)
            = recv_buf_ \o (SubSeq(wire, 1, n) \o Drop(wire, n))
      BY <1>1, <2>4, Associativity
    <3>3. QED
      BY <2>5, <3>1, <3>2 DEF Stream
  <2>7. Upcoming' = Upcoming
    BY <1>2 DEF Upcoming
  <2>8. Unbroken(Stream)' <=> Unbroken(Stream)
    BY <1>2, <2>6 DEF Unbroken, Left
  <2>9. QED
    BY <1>2, <2>2, <2>6, <2>7, <2>8 DEF StreamInv, CleanInv
<1>4. SpaceSuffices'
  <2>1. SUFFICES ASSUME FramesFit, noises = 0
                 PROVE  ~(n > Space)
    BY <1>2 DEF StreamInv, SpaceSuffices, FramesFit
  <2>2. CASE n = 0
    BY <1>1, <2>2 DEF Space
  <2>3. CASE n # 0
    <3>1. Len(Stream) > 0 /\ Clean
      BY <1>1, <2>1, <2>3 DEF StreamInv, SpaceSuffices, Clean
    <3>2. Upcoming \in 1..Len(frames)
      BY <1>2, <3>1, UpcomingIsThere
    <3>3. /\ frames[Upcoming].size \in Sizes /\ frames[Upcoming].size \in Nat
          /\ HeadLen <= frames[Upcoming].size
      BY <3>2, FrameProperties DEF StreamInv, OrderInv
    <3>4. frames[Upcoming].size + ChunkLen <= BufLen + 1
      BY <2>1, <3>3 DEF FramesFit
    <3>5. Len(recv_buf_) > 0 => Len(recv_buf_) < frames[Upcoming].size
      BY <1>2, <3>1 DEF StreamInv, CleanInv
    <3>6. Len(recv_buf_) < frames[Upcoming].size
      BY <1>1, <3>3, <3>5, LengthAssumption DEF LengthAssumption
    <3>7. QED
      BY <1>1, <3>3, <3>4, <3>6 DEF Space
  <2>4. QED
    BY <2>2, <2>3
<1>5. QED
  BY <1>3, <1>4

(* Without noise try_process_packet_ has nothing to throw away, and what   *)
(* it leaves for the next pass is less than a frame.                       *)
LEMMA ReturnClean ==
  ASSUME StreamInv, Incomplete \/ Resync \/ TooLarge
  PROVE  CleanInv' /\ SpaceSuffices'
<1>1. /\ open /\ busy /\ busy' = FALSE
      /\ UNCHANGED <<open, overrun, wire, frames, base, done, noises, truncated>>
  BY DEF Incomplete, Resync, TooLarge, ReturnFalse, StreamInv, OrderInv, TypeOK
<1>2. SpaceSuffices'
  BY <1>1 DEF StreamInv, SpaceSuffices, FramesFit
<1>3. CleanInv'
  <2>1. SUFFICES ASSUME Clean
                 PROVE  CleanInv'
    BY <1>1 DEF CleanInv, Clean
  <2>2. ~Resync /\ ~TooLarge
    <3>1. ASSUME HasHead
          PROVE  AtMark /\ Fits
      BY <1>1, <2>1, <3>1, HeadIsRead, FrameProperties DEF Fits, StreamInv, OrderInv
    <3>2. QED
      BY <3>1 DEF Resync, TooLarge, AtMark
  <2>3. Incomplete /\ recv_buf_' = recv_buf_
    BY <2>2 DEF Incomplete, ReturnFalse
  <2>4. Stream' = Stream /\ Upcoming' = Upcoming
    BY <1>1, <2>3 DEF Stream, Upcoming
  <2>5. Unbroken(Stream)' <=> Unbroken(Stream)
    BY <1>1, <2>4 DEF Unbroken, Left
  <2>6. Len(recv_buf_) > 0 => Len(recv_buf_) < frames[Upcoming].size
    <3>1. ASSUME Len(recv_buf_) > 0
          PROVE  Len(recv_buf_) < frames[Upcoming].size
      <4>1. Len(recv_buf_) \in Nat /\ Len(Stream) > 0 /\ HeadLen \in Nat
        BY <3>1, StreamProperties, LengthAssumption DEF StreamInv, OrderInv, LengthAssumption
      <4>2. Upcoming \in 1..Len(frames)
        BY <1>1, <2>1, <4>1, UpcomingIsThere
      <4>3. frames[Upcoming].size \in Nat /\ HeadLen <= frames[Upcoming].size
        BY <4>2, FrameProperties DEF StreamInv, OrderInv
      <4>4. CASE ~HasHead
        BY <4>1, <4>3, <4>4 DEF HasHead
      <4>5. CASE HasHead
        <5>1. Total(recv_buf_) = frames[Upcoming].size
          BY <1>1, <2>1, <4>5, HeadIsRead
        <5>2. ~(Total(recv_buf_) <= Len(recv_buf_))
          BY <2>3, <4>5 DEF Incomplete, Whole
        <5>3. QED
          BY <4>1, <4>3, <5>1, <5>2
      <4>6. QED
        BY <4>4, <4>5
    <3>2. QED
      BY <3>1
  <2>7. QED
    BY <1>1, <2>1, <2>3, <2>4, <2>5, <2>6 DEF StreamInv, CleanInv
<1>4. QED
  BY <1>2, <1>3

LEMMA ConnectionClean ==
  ASSUME StreamInv, OrderInv', Connect \/ LinkLost \/ EchoFailure \/ Boot
  PROVE  CleanInv' /\ SpaceSuffices'
<1>1. CASE Connect
  <2>1. recv_buf_ = <<>> /\ wire = <<>> /\ recv_buf_' = recv_buf_ /\ wire' = wire
    BY <1>1 DEF Connect, StreamInv, OrderInv, TypeOK
  <2>2. Len(Stream') = 0 /\ Len(recv_buf_') = 0
    BY <2>1, EmptySeq, ConcatEmptySeq DEF Stream
  <2>3. done' = <<>> /\ Len(done') = 0 /\ base' = Len(frames') /\ ~truncated'
    BY <1>1, EmptySeq DEF Connect
  <2>4. DOMAIN done' = {}
    BY <2>3, LenProperties, EmptySeq DEF Connect
  <2>5. Upcoming' = Len(frames') + 1
    <3>1. Len(frames') \in Nat
      BY UpcomingIsNat, <1>1 DEF StreamInv, Connect
    <3>2. QED
      BY <2>3, <3>1 DEF Upcoming
  <2>6. Unbroken(Stream)'
    BY <2>2 DEF Unbroken
  <2>7. QED
    BY <2>2, <2>3, <2>4, <2>5, <2>6 DEF CleanInv, SpaceSuffices
<1>2. CASE LinkLost \/ EchoFailure
  <2>1. ~open' /\ UNCHANGED <<noises, truncated>>
    BY <1>2 DEF LinkLost, EchoFailure, close_socket_
  <2>2. QED
    BY <2>1 DEF CleanInv, StreamInv, SpaceSuffices, FramesFit
<1>3. CASE Boot
  <2>1. /\ UNCHANGED <<open, busy, recv_buf_, wire, frames, base, done, noises, truncated>>
        /\ Stream' = Stream /\ Upcoming' = Upcoming
    BY <1>3 DEF Boot, Stream, Upcoming
  <2>2. QED
    BY <2>1 DEF CleanInv, StreamInv, SpaceSuffices, FramesFit, Clean, Unbroken, Left
<1>4. QED
  BY <1>1, <1>2, <1>3

LEMMA PeerNoiseClean ==
  ASSUME StreamInv, NEW pos \in Noise, PeerNoise(pos)
  PROVE  CleanInv' /\ SpaceSuffices'
<1>1. noises' = noises + 1 /\ noises \in Nat
  BY DEF PeerNoise, StreamInv, OrderInv, TypeOK
<1>2. noises' # 0
  BY <1>1
<1>3. QED
  BY <1>2 DEF CleanInv, SpaceSuffices, Clean

LEMMA PeerSendsClean ==
  ASSUME StreamInv, NEW size \in Sizes, NEW kind \in Kinds, PeerSends(size, kind)
  PROVE  CleanInv' /\ SpaceSuffices'
<1> DEFINE new == Len(frames) + 1
<1>1. /\ size \in Nat /\ 1 <= size
      /\ Len(frames) \in Nat /\ Len(Stream) \in Nat
      /\ Len(frames') = new
      /\ \A f \in 1..Len(frames) : frames'[f] = frames[f]
      /\ frames'[new].size = size
      /\ Len(Stream') = Len(Stream) + size
  BY PeerSendsProperties DEF StreamInv
<1>2. ASSUME NEW i \in 1..Len(Stream')
      PROVE  \/ i \in 1..Len(Stream) /\ Stream'[i] = Stream[i]
             \/ /\ i - Len(Stream) \in 1..size /\ Len(Stream) < i
                /\ Stream'[i] = [frame |-> new, pos |-> i - Len(Stream)]
  BY PeerSendsProperties DEF StreamInv
<1>3. UNCHANGED <<open, busy, recv_buf_, base, done, noises, truncated>> /\ open
  BY DEF PeerSends
<1>4. SpaceSuffices'
  BY <1>3 DEF StreamInv, SpaceSuffices, FramesFit
<1>5. CleanInv'
  <2>1. SUFFICES ASSUME Clean
                 PROVE  CleanInv'
    BY <1>3 DEF CleanInv, Clean
  <2>2. /\ \A i \in DOMAIN done : done[i] = base + i
        /\ Unbroken(Stream)
        /\ Len(Stream) = 0 => Len(frames) + 1 = Upcoming
        /\ Len(Stream) > 0 =>
             /\ Stream[1] = [frame |-> Upcoming, pos |-> 1]
             /\ Stream[Len(Stream)].frame = Len(frames)
        /\ ~busy /\ Len(recv_buf_) > 0 => Len(recv_buf_) < frames[Upcoming].size
    BY <1>3, <2>1 DEF StreamInv, CleanInv
  <2>3. Upcoming' = Upcoming /\ Upcoming \in Nat
    BY <1>3, UpcomingIsNat DEF Upcoming, StreamInv
  <2>4. \A i \in 1..Len(Stream) : i \in 1..Len(Stream') /\ Stream'[i] = Stream[i]
    <3>1. ASSUME NEW i \in 1..Len(Stream)
          PROVE  i \in 1..Len(Stream') /\ ~(Len(Stream) < i)
      BY <1>1
    <3>2. QED
      BY <1>2, <3>1
  <2>5. \A i \in 1..size : Len(Stream) + i \in 1..Len(Stream') /\ Stream'[Len(Stream) + i] = [frame |-> new, pos |-> i]
    <3>1. ASSUME NEW i \in 1..size
          PROVE  /\ Len(Stream) + i \in 1..Len(Stream')
                 /\ ~(Len(Stream) + i \in 1..Len(Stream))
                 /\ Len(Stream) + i - Len(Stream) = i
      BY <1>1
    <3>2. QED
      BY <1>2, <3>1
  <2>6. ASSUME NEW i \in 1..Len(Stream)
        PROVE  /\ Stream[i].frame # 0 /\ Stream[i].frame \in 1..Len(frames)
               /\ Stream[i].pos \in Nat
               /\ Left(Stream[i]) \in Nat
               /\ (frames'[Stream[i].frame].size - Stream[i].pos) = Left(Stream[i])
    <3>1. Stream[i].frame # 0
      BY <2>2 DEF Unbroken
    <3>2. /\ Stream[i].frame \in base + 1..Len(frames)
          /\ Stream[i].pos \in 1..frames[Stream[i].frame].size
      BY <3>1 DEF StreamInv, OrderInv, Known
    <3>3. Stream[i].frame \in 1..Len(frames)
      BY <3>2, UpcomingIsNat DEF StreamInv
    <3>4. frames[Stream[i].frame].size \in Nat
      BY <3>3, FrameProperties DEF StreamInv, OrderInv
    <3>5. QED
      BY <1>1, <3>1, <3>2, <3>3, <3>4 DEF Left
  <2>7. Unbroken(Stream)'
    <3>1. ASSUME NEW i \in 1..Len(Stream)
          PROVE  /\ Stream'[i].frame # 0
                 /\ \A k \in 0..Left(Stream[i]) :
                      i + k \in 1..Len(Stream') /\ Stream'[i + k] = [frame |-> Stream[i].frame, pos |-> Stream[i].pos + k]
                 /\ i + Left(Stream[i]) + 1 \in 1..Len(Stream') =>
                      Stream'[i + Left(Stream[i]) + 1] = [frame |-> Stream[i].frame + 1, pos |-> 1]
      <4> DEFINE b == Stream[i]  l == Left(Stream[i])
      <4>1. /\ \A k \in 0..l : i + k \in 1..Len(Stream) /\ Stream[i + k] = [frame |-> b.frame, pos |-> b.pos + k]
            /\ i + l + 1 \in 1..Len(Stream) => Stream[i + l + 1] = [frame |-> b.frame + 1, pos |-> 1]
        BY <2>2 DEF Unbroken
      <4>2. l \in Nat /\ Stream'[i] = b /\ b.frame # 0
        BY <2>4, <2>6
      <4>3. \A k \in 0..l : i + k \in 1..Len(Stream') /\ Stream'[i + k] = [frame |-> b.frame, pos |-> b.pos + k]
        BY <2>4, <4>1
      <4>4. ASSUME i + l + 1 \in 1..Len(Stream')
            PROVE  Stream'[i + l + 1] = [frame |-> b.frame + 1, pos |-> 1]
        <5>1. CASE i + l + 1 \in 1..Len(Stream)
          BY <2>4, <4>1, <5>1
        <5>2. CASE ~(i + l + 1 \in 1..Len(Stream))
          <6>1. i + l \in 1..Len(Stream) /\ Stream[i + l] = [frame |-> b.frame, pos |-> b.pos + l]
            BY <4>1, <4>2
          <6>2. i + l = Len(Stream) /\ Len(Stream) > 0
            BY <1>1, <4>2, <5>2, <6>1
          <6>3. Stream[i + l].frame = b.frame
            BY <6>1
          <6>4. b.frame = Len(frames)
            BY <2>2, <6>2, <6>3
          <6>5. 1 \in 1..size
            BY <1>1
          <6>6. Stream'[Len(Stream) + 1] = [frame |-> new, pos |-> 1]
            BY <2>5, <6>5
          <6>7. QED
            BY <6>2, <6>4, <6>6
        <5>3. QED
          BY <5>1, <5>2
      <4>5. QED
        BY <4>2, <4>3, <4>4
    <3>2. ASSUME NEW m \in 1..size
          PROVE  /\ Stream'[Len(Stream) + m].frame = new /\ Stream'[Len(Stream) + m].pos = m
                 /\ \A k \in 0..size - m :
                      /\ Len(Stream) + m + k \in 1..Len(Stream')
                      /\ Stream'[Len(Stream) + m + k] = [frame |-> new, pos |-> m + k]
                 /\ ~(Len(Stream) + m + (size - m) + 1 \in 1..Len(Stream'))
      <4>1. Stream'[Len(Stream) + m] = [frame |-> new, pos |-> m]
        BY <2>5
      <4>2. ASSUME NEW k \in 0..size - m
            PROVE  /\ Len(Stream) + m + k \in 1..Len(Stream')
                   /\ Stream'[Len(Stream) + m + k] = [frame |-> new, pos |-> m + k]
        <5>1. m + k \in 1..size /\ Len(Stream) + (m + k) = Len(Stream) + m + k
          BY <1>1
        <5>2. /\ Len(Stream) + (m + k) \in 1..Len(Stream')
              /\ Stream'[Len(Stream) + (m + k)] = [frame |-> new, pos |-> m + k]
          BY <2>5, <5>1
        <5>3. QED
          BY <5>1, <5>2
      <4>3. ~(Len(Stream) + m + (size - m) + 1 \in 1..Len(Stream'))
        BY <1>1
      <4>4. Stream'[Len(Stream) + m].frame = new /\ Stream'[Len(Stream) + m].pos = m
        BY <4>1
      <4>5. QED
        BY <4>2, <4>3, <4>4
    <3>3. ASSUME NEW i \in 1..Len(Stream')
          PROVE  /\ Stream'[i].frame # 0
                 /\ \A k \in 0..Left(Stream[i])' :
                      i + k \in 1..Len(Stream') /\ Stream'[i + k] = [frame |-> Stream'[i].frame, pos |-> Stream'[i].pos + k]
                 /\ i + Left(Stream[i])' + 1 \in 1..Len(Stream') =>
                      Stream'[i + Left(Stream[i])' + 1] = [frame |-> Stream'[i].frame + 1, pos |-> 1]
      <4>1. CASE i \in 1..Len(Stream)
        <5>1. Stream'[i] = Stream[i]
          BY <2>4, <4>1
        <5>2. Left(Stream[i])' = Left(Stream[i])
          BY <2>6, <4>1, <5>1 DEF Left
        <5>3. QED
          BY <3>1, <4>1, <5>1, <5>2
      <4>2. CASE i \notin 1..Len(Stream)
        <5>1. i - Len(Stream) \in 1..size /\ Len(Stream) + (i - Len(Stream)) = i
          BY <1>1, <4>2
        <5> DEFINE m == i - Len(Stream)
        <5>2. /\ Stream'[i].frame = new /\ Stream'[i].pos = m
              /\ \A k \in 0..size - m :
                   i + k \in 1..Len(Stream') /\ Stream'[i + k] = [frame |-> new, pos |-> m + k]
              /\ ~(i + (size - m) + 1 \in 1..Len(Stream'))
          BY <3>2, <5>1
        <5>3. Left(Stream[i])' = size - m
          BY <1>1, <5>2 DEF Left
        <5>4. new # 0
          BY <1>1
        <5>5. QED
          BY <5>2, <5>3, <5>4
      <4>3. QED
        BY <4>1, <4>2
    <3>4. QED
      BY <3>3 DEF Unbroken
  <2>8. /\ Stream'[1] = [frame |-> Upcoming, pos |-> 1]
        /\ Stream'[Len(Stream')].frame = new
        /\ Len(Stream') > 0
    <3>1. Len(Stream') > 0 /\ size \in 1..size /\ 1 \in 1..size
      BY <1>1
    <3>2. Stream'[Len(Stream')].frame = new
      <4>1. Stream'[Len(Stream) + size] = [frame |-> new, pos |-> size]
        BY <2>5, <3>1
      <4>2. QED
        BY <1>1, <4>1
    <3>3. CASE Len(Stream) = 0
      <4>1. Stream'[Len(Stream) + 1] = [frame |-> new, pos |-> 1] /\ Len(Stream) + 1 = 1
        BY <2>5, <3>1, <3>3
      <4>2. QED
        BY <2>2, <3>1, <3>2, <3>3, <4>1
    <3>4. CASE Len(Stream) > 0
      <4>1. 1 \in 1..Len(Stream)
        BY <1>1, <3>4
      <4>2. QED
        BY <2>2, <2>4, <3>1, <3>2, <3>4, <4>1
    <3>5. QED
      BY <1>1, <3>3, <3>4
  <2>9. ~busy /\ Len(recv_buf_) > 0 => Len(recv_buf_) < frames'[Upcoming].size
    <3>1. ASSUME Len(recv_buf_) > 0
          PROVE  Upcoming \in 1..Len(frames)
      <4>1. Len(Stream) > 0
        BY <3>1, StreamProperties DEF StreamInv, OrderInv
      <4>2. QED
        BY <1>3, <2>1, <4>1, UpcomingIsThere
    <3>2. QED
      BY <1>1, <2>2, <3>1
  <2>10. Len(Stream') # 0
    BY <1>1
  <2>11. QED
    BY <1>1, <1>3, <2>2, <2>3, <2>7, <2>8, <2>9, <2>10 DEF CleanInv
<1>6. QED
  BY <1>4, <1>5

(* Without noise the packet is the upcoming frame.                         *)
LEMMA PacketIsUpcoming ==
  ASSUME StreamInv, ProcessPacket, Clean
  PROVE  /\ Upcoming \in 1..Len(frames)
         /\ Total(recv_buf_) = frames[Upcoming].size
         /\ Total(recv_buf_) \in 1..Len(recv_buf_)
         /\ done' = Append(done, Upcoming)
<1> DEFINE size == frames[Upcoming].size
<1>1. open /\ busy /\ AtMark /\ HasHead
  BY DEF ProcessPacket, Complete, AtMark, StreamInv, OrderInv, TypeOK
<1>2. Upcoming \in 1..Len(frames) /\ Total(recv_buf_) = size /\ Len(Stream) > 0
  BY <1>1, HeadIsRead
<1>3. size \in Nat /\ HeadLen <= size /\ HeadLen >= 3 /\ HeadLen \in Nat
  BY <1>2, FrameProperties, LengthAssumption DEF StreamInv, OrderInv, LengthAssumption
<1>4. size \in 1..Len(recv_buf_) /\ Len(recv_buf_) \in Nat
  BY <1>2, <1>3, StreamProperties DEF ProcessPacket, Complete, Whole, StreamInv, OrderInv
<1>5. \A i \in 1..size : Stream[i] = [frame |-> Upcoming, pos |-> i]
  BY <1>1, <1>2, UpcomingIsThere
<1>6. /\ Packet \in Seq(Byte) /\ Len(Packet) = size
      /\ \A i \in 1..size : Packet[i] = recv_buf_[i]
  <2>1. Total(recv_buf_) \in 0..Len(recv_buf_) /\ recv_buf_ \in Seq(Byte)
    BY <1>2, <1>4 DEF StreamInv, OrderInv, TypeOK
  <2>2. QED
    BY <1>2, <2>1, PrefixProperties DEF Packet
<1>7. /\ Bytes(Upcoming, size) \in Seq(Byte) /\ Len(Bytes(Upcoming, size)) = size
      /\ \A i \in 1..size : Bytes(Upcoming, size)[i] = [frame |-> Upcoming, pos |-> i]
  <2>1. Upcoming \in Nat
    BY UpcomingIsNat DEF StreamInv
  <2>2. QED
    BY <1>3, <2>1, BytesProperties
<1>8. \A i \in 1..size : Packet[i] = Bytes(Upcoming, size)[i]
  <2>1. \A i \in 1..size : i \in 1..Len(recv_buf_)
    BY <1>3, <1>4
  <2>2. \A i \in 1..size : Stream[i] = recv_buf_[i]
    BY <2>1, StreamProperties DEF StreamInv, OrderInv
  <2>3. QED
    BY <1>5, <1>6, <1>7, <2>2
<1>9. Packet = Bytes(Upcoming, size)
  BY <1>6, <1>7, <1>8, SeqEqual
<1>10. DOMAIN frames = 1..Len(frames)
  BY LenProperties DEF StreamInv, OrderInv, TypeOK
<1>11. IsFrame(Upcoming, Packet)
  BY <1>2, <1>9, <1>10 DEF IsFrame
<1>12. ASSUME NEW f \in DOMAIN frames, IsFrame(f, Packet)
       PROVE  f = Upcoming
  <2>1. /\ frames[f].size \in 1..Len(recv_buf_)
        /\ \A i \in 1..frames[f].size : Stream[i] = [frame |-> f, pos |-> i]
    BY <1>12, PacketProperties DEF StreamInv, ProcessPacket
  <2>2. 1 \in 1..frames[f].size /\ 1 \in 1..size
    BY <1>3, <1>4, <2>1
  <2>3. [frame |-> f, pos |-> 1] = [frame |-> Upcoming, pos |-> 1]
    BY <1>5, <2>1, <2>2
  <2>4. QED
    BY <2>3
<1>13. done' = Append(done, Upcoming)
  BY <1>2, <1>10, <1>11, <1>12 DEF ProcessPacket
<1>14. QED
  BY <1>2, <1>4, <1>13

LEMMA ProcessClean ==
  ASSUME StreamInv, ProcessPacket, OrderInv'
  PROVE  CleanInv' /\ SpaceSuffices'
<1> DEFINE T == Total(recv_buf_)
<1>1. UNCHANGED <<open, busy, overrun, wire, frames, base, noises, truncated>> /\ open /\ busy
  BY DEF ProcessPacket, Complete, StreamInv, OrderInv, TypeOK
<1>2. SpaceSuffices'
  BY <1>1 DEF StreamInv, SpaceSuffices, FramesFit
<1>3. CleanInv'
  <2>1. SUFFICES ASSUME Clean
                 PROVE  CleanInv'
    BY <1>1 DEF CleanInv, Clean
  <2>2. /\ Upcoming \in 1..Len(frames)
        /\ T = frames[Upcoming].size
        /\ T \in 1..Len(recv_buf_)
        /\ done' = Append(done, Upcoming)
    BY <2>1, PacketIsUpcoming
  <2>3. /\ Upcoming \in Nat /\ base \in Nat /\ Len(done) \in Nat
        /\ Len(frames) \in Nat /\ Len(Stream) \in Nat
        /\ Upcoming = base + Len(done) + 1
        /\ Len(recv_buf_) \in Nat /\ Len(Stream) >= Len(recv_buf_)
    BY UpcomingIsNat, StreamProperties DEF StreamInv, OrderInv
  <2>4. /\ Len(done') = Len(done) + 1
        /\ DOMAIN done = 1..Len(done)
        /\ DOMAIN done' = 1..Len(done) + 1
        /\ \A d \in 1..Len(done) : done'[d] = done[d]
        /\ done'[Len(done) + 1] = Upcoming
    <3>1. done \in Seq(1..Len(frames)) /\ Append(done, Upcoming) \in Seq(1..Len(frames))
      BY <2>2, AppendProperties DEF StreamInv, OrderInv, TypeOK
    <3>2. QED
      BY <2>2, <3>1, AppendProperties, LenProperties
  <2>5. Upcoming' = Upcoming + 1
    BY <1>1, <2>3, <2>4 DEF Upcoming
  <2>6. /\ Len(Stream') = Len(Stream) - T
        /\ \A i \in 1..Len(Stream') : Stream'[i] = Stream[T + i]
    <3>1. T \in 0..Len(recv_buf_)
      BY <2>2
    <3>2. QED
      BY <3>1, DropStream DEF ProcessPacket, StreamInv, OrderInv
  <2>7. T \in Nat /\ T \in 1..Len(Stream)
    BY <2>2, <2>3
  <2>8. Unbroken(Stream) /\ Len(Stream) > 0 /\ Stream[Len(Stream)].frame = Len(frames)
    BY <1>1, <2>1, <2>7 DEF StreamInv, CleanInv
  <2>9. Unbroken(Stream)'
    <3>1. ASSUME NEW i \in 1..Len(Stream')
          PROVE  /\ Stream'[i].frame # 0
                 /\ \A k \in 0..Left(Stream[i])' :
                      i + k \in 1..Len(Stream') /\ Stream'[i + k] = [frame |-> Stream'[i].frame, pos |-> Stream'[i].pos + k]
                 /\ i + Left(Stream[i])' + 1 \in 1..Len(Stream') =>
                      Stream'[i + Left(Stream[i])' + 1] = [frame |-> Stream'[i].frame + 1, pos |-> 1]
      <4> DEFINE b == Stream[T + i]  l == Left(Stream[T + i])
      <4>1. T + i \in 1..Len(Stream) /\ Stream'[i] = b
        BY <2>3, <2>6, <2>7
      <4>2. Left(Stream[i])' = l
        BY <1>1, <4>1 DEF Left
      <4>3. /\ b.frame # 0
            /\ \A k \in 0..l : T + i + k \in 1..Len(Stream) /\ Stream[T + i + k] = [frame |-> b.frame, pos |-> b.pos + k]
            /\ T + i + l + 1 \in 1..Len(Stream) => Stream[T + i + l + 1] = [frame |-> b.frame + 1, pos |-> 1]
        BY <2>8, <4>1 DEF Unbroken
      <4>4. l \in Int
        <5>1. b.frame \in base + 1..Len(frames) /\ b.pos \in 1..frames[b.frame].size
          BY <4>1, <4>3 DEF StreamInv, OrderInv, Known
        <5>2. b.frame \in 1..Len(frames)
          BY <2>3, <5>1
        <5>3. frames[b.frame].size \in Nat
          BY <5>2, FrameProperties DEF StreamInv, OrderInv
        <5>4. QED
          BY <5>1, <5>3 DEF Left
      <4> HIDE DEF b, l
      <4>5. ASSUME NEW k \in 0..l
            PROVE  i + k \in 1..Len(Stream') /\ Stream'[i + k] = [frame |-> b.frame, pos |-> b.pos + k]
        <5>1. T + i + k \in 1..Len(Stream) /\ Stream[T + i + k] = [frame |-> b.frame, pos |-> b.pos + k]
          BY <4>3
        <5>2. i + k \in 1..Len(Stream') /\ T + (i + k) = T + i + k
          BY <2>3, <2>6, <2>7, <4>4, <5>1
        <5>3. Stream'[i + k] = Stream[T + (i + k)]
          BY <2>6, <5>2
        <5>4. QED
          BY <5>1, <5>2, <5>3
      <4>6. ASSUME i + l + 1 \in 1..Len(Stream')
            PROVE  Stream'[i + l + 1] = [frame |-> b.frame + 1, pos |-> 1]
        <5>1. T + i + l + 1 \in 1..Len(Stream) /\ T + (i + l + 1) = T + i + l + 1
          BY <2>3, <2>6, <2>7, <4>4, <4>6
        <5>2. Stream'[i + l + 1] = Stream[T + (i + l + 1)]
          BY <2>6, <4>6
        <5>3. QED
          BY <4>3, <5>1, <5>2
      <4>7. QED
        BY <4>1, <4>2, <4>3, <4>5, <4>6
    <3>2. QED
      BY <3>1 DEF Unbroken
  <2>10. Len(Stream') = 0 => Len(frames) + 1 = Upcoming + 1
    <3>1. ASSUME Len(Stream') = 0
          PROVE  Upcoming = Len(frames)
      <4>1. Len(Stream) = T
        BY <2>3, <2>6, <2>7, <3>1
      <4>2. Stream[T] = [frame |-> Upcoming, pos |-> T]
        <5>1. T \in 1..frames[Upcoming].size
          BY <2>2, <2>7
        <5>2. QED
          BY <1>1, <2>1, <2>8, <5>1, UpcomingIsThere
      <4>3. Stream[T].frame = Upcoming
        BY <4>2
      <4>4. QED
        BY <2>8, <4>1, <4>3
    <3>2. QED
      BY <3>1
  <2>11. ASSUME Len(Stream') > 0
         PROVE  /\ Stream'[1] = [frame |-> Upcoming + 1, pos |-> 1]
                /\ Stream'[Len(Stream')].frame = Len(frames)
    <3>1. /\ 1 \in 1..Len(Stream') /\ Len(Stream') \in 1..Len(Stream')
          /\ T + 1 \in 1..Len(Stream) /\ T + Len(Stream') = Len(Stream)
      BY <2>3, <2>6, <2>7, <2>11
    <3>2. Stream[T + 1] = [frame |-> Upcoming + 1, pos |-> 1]
      BY <1>1, <2>1, <2>2, <2>8, <3>1, UpcomingIsThere
    <3>3. Stream'[1] = Stream[T + 1] /\ Stream'[Len(Stream')] = Stream[Len(Stream)]
      BY <2>6, <3>1
    <3>4. QED
      BY <2>8, <3>2, <3>3
  <2>12. \A d \in DOMAIN done' : done'[d] = base + d
    <3>1. \A d \in 1..Len(done) : done[d] = base + d
      BY <1>1, <2>1, <2>4 DEF StreamInv, CleanInv
    <3>2. \A d \in 1..Len(done) + 1 : d \in 1..Len(done) \/ d = Len(done) + 1
      BY <2>3
    <3>3. QED
      BY <2>3, <2>4, <3>1, <3>2
  <2>13. QED
    BY <1>1, <2>5, <2>9, <2>10, <2>11, <2>12 DEF CleanInv
<1>4. QED
  BY <1>2, <1>3

LEMMA NextStream == StreamInv /\ [Next]_vars => StreamInv'
<1> SUFFICES ASSUME StreamInv, [Next]_vars PROVE StreamInv'
  OBVIOUS
<1>1. OrderInv'
  BY NextOrder DEF StreamInv
<1> SUFFICES CleanInv' /\ SpaceSuffices'
  BY <1>1 DEF StreamInv
<1>2. CASE Connect \/ LinkLost \/ EchoFailure \/ Boot
  BY <1>1, <1>2, ConnectionClean
<1>3. ASSUME NEW size \in Sizes, NEW kind \in Kinds, PeerSends(size, kind)
      PROVE  CleanInv' /\ SpaceSuffices'
  BY <1>3, PeerSendsClean
<1>4. ASSUME NEW pos \in Noise, PeerNoise(pos) PROVE CleanInv' /\ SpaceSuffices'
  BY <1>4, PeerNoiseClean
<1>5. CASE try_recv_
  BY <1>5, ReceiveClean DEF try_recv_
<1>6. CASE Incomplete \/ Resync \/ TooLarge
  BY <1>6, ReturnClean
<1>7. CASE ProcessPacket
  BY <1>1, <1>7, ProcessClean
<1>8. CASE UNCHANGED vars
  <2>1. /\ UNCHANGED <<open, busy, recv_buf_, wire, frames, base, done, noises, truncated>>
        /\ Stream' = Stream /\ Upcoming' = Upcoming
    BY <1>8 DEF vars, Stream, Upcoming
  <2>2. QED
    BY <2>1 DEF CleanInv, StreamInv, SpaceSuffices, FramesFit, Clean, Unbroken, Left
<1>9. QED
  BY <1>2, <1>3, <1>4, <1>5, <1>6, <1>7, <1>8 DEF Next, try_process_packet_

(* Every frame of a dongle that sends frames only is processed, in order.  *)
THEOREM NothingIsMissed == Spec => []NothingMissed
<1>1. StreamInv => NothingMissed
  <2>1. SUFFICES ASSUME StreamInv, open, Clean
                 PROVE  /\ \A i \in DOMAIN done : done[i] = base + i
                        /\ LET next == base + Len(done) + 1 IN
                           ~busy /\ recv_buf_ # <<>> =>
                              /\ next <= Len(frames)
                              /\ Len(recv_buf_) < frames[next].size
                              /\ recv_buf_ = Bytes(next, Len(recv_buf_))
    BY DEF NothingMissed
  <2>2. \A i \in DOMAIN done : done[i] = base + i
    BY <2>1 DEF StreamInv, CleanInv
  <2>3. ASSUME ~busy, recv_buf_ # <<>>
        PROVE  /\ Upcoming <= Len(frames)
               /\ Len(recv_buf_) < frames[Upcoming].size
               /\ recv_buf_ = Bytes(Upcoming, Len(recv_buf_))
    <3>1. /\ recv_buf_ \in Seq(Byte) /\ Len(recv_buf_) \in Nat /\ Len(recv_buf_) > 0
          /\ Len(Stream) > 0
      BY <2>1, <2>3, EmptySeq, StreamProperties DEF StreamInv, OrderInv, TypeOK
    <3>2. Len(recv_buf_) < frames[Upcoming].size
      BY <2>1, <2>3, <3>1 DEF StreamInv, CleanInv
    <3>3. /\ Upcoming \in 1..Len(frames)
          /\ \A i \in 1..frames[Upcoming].size : Stream[i] = [frame |-> Upcoming, pos |-> i]
      BY <2>1, <3>1, UpcomingIsThere
    <3>4. frames[Upcoming].size \in Nat /\ Upcoming \in Nat /\ Len(frames) \in Nat
      BY <2>1, <3>3, FrameProperties, UpcomingIsNat DEF StreamInv, OrderInv
    <3>5. \A i \in 1..Len(recv_buf_) : i \in 1..frames[Upcoming].size
      BY <3>1, <3>2, <3>4
    <3>6. \A i \in 1..Len(recv_buf_) : recv_buf_[i] = [frame |-> Upcoming, pos |-> i]
      BY <2>1, <3>3, <3>5, StreamProperties DEF StreamInv, OrderInv
    <3>7. /\ Bytes(Upcoming, Len(recv_buf_)) \in Seq(Byte)
          /\ Len(Bytes(Upcoming, Len(recv_buf_))) = Len(recv_buf_)
          /\ \A i \in 1..Len(recv_buf_) : Bytes(Upcoming, Len(recv_buf_))[i] = [frame |-> Upcoming, pos |-> i]
      BY <3>1, <3>4, BytesProperties
    <3>8. recv_buf_ = Bytes(Upcoming, Len(recv_buf_))
      BY <3>1, <3>6, <3>7, SeqEqual
    <3>9. QED
      BY <3>2, <3>3, <3>4, <3>8
  <2>4. QED
    BY <2>2, <2>3 DEF Upcoming
<1>2. QED
  BY <1>1, InitStream, NextStream, PTL DEF Spec

(* The buffer is large enough for what recv returns if the longest frame   *)
(* is short enough.                                                        *)
THEOREM SpaceAlwaysSuffices == Spec => []SpaceSuffices
<1>1. StreamInv => SpaceSuffices
  BY DEF StreamInv
<1>2. QED
  BY <1>1, InitStream, NextStream, PTL DEF Spec
=============================================================================
