------------------------- MODULE WireProtocolProofs -------------------------
(***************************************************************************)
(* Proofs about WireProtocol: the header of a frame for every value of its *)
(* members and both byte orders of either host.                            *)
(***************************************************************************)
EXTENDS WireProtocol, SequenceTheorems, TLAPS

Word(n) == [1 .. n -> Byte]

\* What the runs of the protocol keep.
WireInv ==
    /\ frame \in Frames
    /\ wire_pc \in {"new", "sent", "accepted", "rejected"}
    /\ NetworkOrder /\ RoundTrip

-----------------------------------------------------------------------------
(* Words.                                                                  *)

\* The bytes of a word are a sequence.
LEMMA WordIsSeq ==
    ASSUME NEW n \in Nat, NEW v \in Word(n)
    PROVE  v \in Seq(Byte) /\ Len(v) = n
BY DEF Word

\* A sequence of bytes is a word of its length.
LEMMA SeqIsWord ==
    ASSUME NEW v \in Seq(Byte)
    PROVE  v \in Word(Len(v))
BY LenProperties DEF Word

\* Two words are equal when their bytes are.
LEMMA WordsEqual ==
    ASSUME NEW n \in Nat, NEW v \in Word(n), NEW w \in Word(n), \A i \in 1 .. n : v[i] = w[i]
    PROVE  v = w
BY DEF Word

\* Reversing the bytes of a word.
LEMMA ReverseFacts ==
    ASSUME NEW n \in Nat, NEW v \in Word(n)
    PROVE  /\ Reverse(v) \in Word(n)
           /\ \A i \in 1 .. n : n - i + 1 \in 1 .. n /\ Reverse(v)[i] = v[n - i + 1]
           /\ Reverse(Reverse(v)) = v
<1>1. ASSUME NEW w \in Word(n)
      PROVE  /\ Reverse(w) \in Word(n)
             /\ \A i \in 1 .. n : n - i + 1 \in 1 .. n /\ Reverse(w)[i] = w[n - i + 1]
  <2>1. Len(w) = n
    BY <1>1, WordIsSeq
  <2>2. \A i \in 1 .. n : n - i + 1 \in 1 .. n /\ (n - i) + 1 = n - i + 1
    OBVIOUS
  <2>3. Reverse(w) = [i \in 1 .. n |-> w[(n - i) + 1]]
    BY <2>1 DEF Reverse
  <2> QED BY <2>2, <2>3 DEF Word
<1>2. Reverse(v) \in Word(n) /\ Reverse(Reverse(v)) \in Word(n)
  BY <1>1
<1>3. \A i \in 1 .. n : Reverse(Reverse(v))[i] = v[i]
  <2> SUFFICES ASSUME NEW i \in 1 .. n PROVE Reverse(Reverse(v))[i] = v[i]
    OBVIOUS
  <2>1. n - i + 1 \in 1 .. n /\ n - (n - i + 1) + 1 = i
    OBVIOUS
  <2>2. Reverse(Reverse(v))[i] = Reverse(v)[n - i + 1]
    BY <1>1, <1>2
  <2>3. Reverse(v)[n - i + 1] = v[n - (n - i + 1) + 1]
    BY <1>1, <2>1
  <2> QED BY <2>1, <2>2, <2>3
<1>4. Reverse(Reverse(v)) = v
  BY <1>2, <1>3, WordsEqual
<1> QED BY <1>1, <1>4

\* One word behind another: its two parts can be taken out again.
LEMMA JoinFacts ==
    ASSUME NEW m \in Nat, NEW n \in Nat, NEW v \in Word(m), NEW w \in Word(n)
    PROVE  /\ v \o w \in Word(m + n)
           /\ \A i \in 1 .. m : (v \o w)[i] = v[i]
           /\ \A i \in 1 .. n : (v \o w)[m + i] = w[i]
<1>1. v \in Seq(Byte) /\ Len(v) = m /\ w \in Seq(Byte) /\ Len(w) = n
  BY WordIsSeq
<1>2. v \o w \in Seq(Byte) /\ Len(v \o w) = m + n
  BY <1>1
<1>3. v \o w \in Word(m + n)
  BY <1>2, SeqIsWord
<1>4. /\ \A i \in 1 .. m : (v \o w)[i] = v[i]
      /\ \A i \in 1 .. n : (v \o w)[m + i] = w[i]
  BY <1>1
<1> QED BY <1>3, <1>4

\* A part of a word.
LEMMA PartFacts ==
    ASSUME NEW m \in Nat, NEW v \in Word(m), NEW p \in Nat, NEW n \in Nat, p + n <= m
    PROVE  /\ SubSeq(v, p + 1, p + n) \in Word(n)
           /\ \A i \in 1 .. n : SubSeq(v, p + 1, p + n)[i] = v[p + i]
<1>1. v \in Seq(Byte) /\ Len(v) = m
  BY WordIsSeq
<1>2. SubSeq(v, p + 1, p + n) \in Seq(Byte) /\ Len(SubSeq(v, p + 1, p + n)) = n
  BY <1>1
<1>3. SubSeq(v, p + 1, p + n) \in Word(n)
  BY <1>2, SeqIsWord
<1>4. \A i \in 1 .. n : SubSeq(v, p + 1, p + n)[i] = v[p + i]
  BY <1>1
<1> QED BY <1>3, <1>4

-----------------------------------------------------------------------------
(* Conversions.                                                            *)

\* htons() and htonl(): in memory the bytes lie in network order, on either kind of host.
\* ntohs() and ntohl() undo it.
LEMMA ShortConversion ==
    ASSUME NEW n \in Nat, NEW v \in Word(n), NEW le
    PROVE  /\ InMemory(le, ByteOrder(le, v)) = v
           /\ ByteOrder(le, FromMemory(le, v)) = v
BY ReverseFacts DEF InMemory, FromMemory, ByteOrder

\* A word of eight bytes with its halves exchanged, and each half reversed, is the word reversed.
LEMMA HalvesReversed ==
    ASSUME NEW v \in Word(8)
    PROVE  Reverse(Low32(v)) \o Reverse(High32(v)) = Reverse(v)
<1> DEFINE lo == Low32(v)
           hi == High32(v)
           r == Reverse(lo) \o Reverse(hi)
<1>1. 4 \in Nat /\ 8 \in Nat /\ 0 \in Nat
  OBVIOUS
<1>2. lo \in Word(4) /\ \A i \in 1 .. 4 : lo[i] = v[4 + i]
  <2> DEFINE p == 4
  <2>1. p \in Nat /\ p + 4 <= 8 /\ p + 1 = 5 /\ p + 4 = 8
    OBVIOUS
  <2> HIDE DEF p
  <2>2. SubSeq(v, p + 1, p + 4) \in Word(4) /\ \A i \in 1 .. 4 : SubSeq(v, p + 1, p + 4)[i] = v[p + i]
    BY <1>1, <2>1, PartFacts
  <2> QED BY <2>1, <2>2 DEF Low32, p
<1>3. hi \in Word(4) /\ \A i \in 1 .. 4 : hi[i] = v[i]
  <2> DEFINE p == 0
  <2>1. p \in Nat /\ p + 4 <= 8 /\ p + 1 = 1 /\ p + 4 = 4 /\ \A i \in 1 .. 4 : p + i = i
    OBVIOUS
  <2> HIDE DEF p
  <2>2. SubSeq(v, p + 1, p + 4) \in Word(4) /\ \A i \in 1 .. 4 : SubSeq(v, p + 1, p + 4)[i] = v[p + i]
    BY <1>1, <2>1, PartFacts
  <2> QED BY <2>1, <2>2 DEF High32
<1> HIDE DEF lo, hi
<1>4. /\ Reverse(lo) \in Word(4) /\ \A i \in 1 .. 4 : Reverse(lo)[i] = lo[4 - i + 1]
      /\ Reverse(hi) \in Word(4) /\ \A i \in 1 .. 4 : Reverse(hi)[i] = hi[4 - i + 1]
  BY <1>1, <1>2, <1>3, ReverseFacts
<1>5. r \in Word(4 + 4) /\ \A i \in 1 .. 4 : r[i] = Reverse(lo)[i] /\ r[4 + i] = Reverse(hi)[i]
  BY <1>1, <1>4, JoinFacts
<1>6. Reverse(v) \in Word(8) /\ \A i \in 1 .. 8 : Reverse(v)[i] = v[8 - i + 1]
  BY <1>1, ReverseFacts
<1> HIDE DEF r
<1>7. \A i \in 1 .. 8 : r[i] = Reverse(v)[i]
  <2> SUFFICES ASSUME NEW i \in 1 .. 8 PROVE r[i] = v[8 - i + 1]
    BY <1>6
  <2>1. CASE i <= 4
    <3>1. i \in 1 .. 4 /\ 4 - i + 1 \in 1 .. 4 /\ 4 + (4 - i + 1) = 8 - i + 1
      BY <2>1
    <3>2. r[i] = lo[4 - i + 1]
      BY <1>4, <1>5, <3>1
    <3>3. lo[4 - i + 1] = v[4 + (4 - i + 1)]
      BY <1>2, <3>1
    <3> QED BY <3>1, <3>2, <3>3
  <2>2. CASE i > 4
    <3> DEFINE j == i - 4
    <3>1. j \in 1 .. 4 /\ 4 - j + 1 \in 1 .. 4 /\ 4 - j + 1 = 8 - i + 1 /\ 4 + j = i
      BY <2>2
    <3> HIDE DEF j
    <3>2. r[4 + j] = hi[4 - j + 1]
      BY <1>4, <1>5, <3>1
    <3>3. hi[4 - j + 1] = v[4 - j + 1]
      BY <1>3, <3>1
    <3> QED BY <3>1, <3>2, <3>3
  <2> QED BY <2>1, <2>2
<1>8. 4 + 4 = 8
  OBVIOUS
<1>9. r = Reverse(v)
  BY <1>1, <1>5, <1>6, <1>7, <1>8, WordsEqual
<1> QED BY <1>9 DEF r, lo, hi

\* htonll() and ntohll(), which exchange the halves, do for eight bytes what the others do.
LEMMA LongConversion ==
    ASSUME NEW v \in Word(8), NEW le
    PROVE  /\ InMemory(le, htonll(le, v)) = v
           /\ ntohll(le, FromMemory(le, v)) = v
<1>1. Reverse(v) \in Word(8) /\ Reverse(Reverse(v)) = v
  BY ReverseFacts
<1>2. /\ Reverse(Low32(v)) \o Reverse(High32(v)) = Reverse(v)
      /\ Reverse(Low32(Reverse(v))) \o Reverse(High32(Reverse(v))) = Reverse(Reverse(v))
  BY <1>1, HalvesReversed
<1>3. CASE le
  BY <1>1, <1>2, <1>3 DEF InMemory, FromMemory, htonll, ntohll, ByteOrder
<1>4. CASE ~le
  BY <1>4 DEF InMemory, FromMemory, htonll, ntohll, ByteOrder
<1> QED BY <1>3, <1>4

-----------------------------------------------------------------------------
(* The header.                                                             *)

\* The members of a header on the wire, one behind another.
OnWire(f) ==
    PROTO_MAGIC \o PROTO_VERSION \o HeaderLen16 \o f.seq \o f.timestamp_ns \o f.payload_len
       \o f.pixel_format \o f.width \o f.height

\* The members of a frame have the width of the types of the struct.
LEMMA FrameWidths ==
    ASSUME NEW f \in Frames
    PROVE  /\ f.seq \in Word(8) /\ f.timestamp_ns \in Word(8)
           /\ f.payload_len \in Word(4) /\ f.pixel_format \in Word(4)
           /\ f.width \in Word(2) /\ f.height \in Word(2)
           /\ ~Exceeds(f.payload_len, FourMB)
BY WidthAssumption DEF Frames, Word

\* So have the constants of the protocol.
LEMMA ConstantWidths ==
    PROTO_MAGIC \in Word(4) /\ PROTO_VERSION \in Word(2) /\ HeaderLen16 \in Word(2)
<1>1. 36 \div 256 = 0 /\ 36 % 256 = 36 /\ FRAME_HEADER_SIZE = 36
  BY DEF FRAME_HEADER_SIZE
<1>2. HeaderLen16 = <<0, 36>>
  BY <1>1 DEF HeaderLen16
<1>3. <<0, 36>> \in Word(2) /\ <<0, 1>> \in Word(2) /\ <<70, 82, 65, 77>> \in Word(4)
  BY DEF Word, Byte
<1> QED BY <1>2, <1>3 DEF PROTO_MAGIC, PROTO_VERSION

\* initFrameHeader() writes the members in network order, whatever the client's host.
LEMMA EncodeFacts ==
    ASSUME NEW f \in Frames, NEW le
    PROVE  initFrameHeader(le, f) = OnWire(f)
<1>1. /\ InMemory(le, ByteOrder(le, PROTO_VERSION)) = PROTO_VERSION
      /\ InMemory(le, ByteOrder(le, HeaderLen16)) = HeaderLen16
  BY ConstantWidths, ShortConversion
<1>2. InMemory(le, htonll(le, f.seq)) = f.seq /\ InMemory(le, htonll(le, f.timestamp_ns)) = f.timestamp_ns
  BY FrameWidths, LongConversion
<1>3. /\ InMemory(le, ByteOrder(le, f.payload_len)) = f.payload_len
      /\ InMemory(le, ByteOrder(le, f.pixel_format)) = f.pixel_format
      /\ InMemory(le, ByteOrder(le, f.width)) = f.width
      /\ InMemory(le, ByteOrder(le, f.height)) = f.height
  BY FrameWidths, ShortConversion
<1> QED BY <1>1, <1>2, <1>3 DEF initFrameHeader, OnWire

\* The members in the first m bytes of h are those of g.
Kept(h, g, m) == \A a \in 1 .. m : \A b \in a .. m : SubSeq(h, a, b) = SubSeq(g, a, b)

\* A member behind a part of the header: it can be taken out again, and the members before it
\* are where they were.
LEMMA AddMember ==
    ASSUME NEW m \in Nat, NEW n \in Nat, NEW v \in Word(m), NEW w \in Word(n), n >= 1
    PROVE  v \o w \in Word(m + n) /\ SubSeq(v \o w, m + 1, m + n) = w /\ Kept(v \o w, v, m)
<1>1. v \in Seq(Byte) /\ Len(v) = m /\ w \in Seq(Byte) /\ Len(w) = n
  BY WordIsSeq
<1>2. v \o w \in Word(m + n)
  BY JoinFacts
<1>3. SubSeq(v \o w, m + 1, m + n) = w
  <2>1. m + n \in Nat /\ m + n <= m + n
    OBVIOUS
  <2>2. /\ SubSeq(v \o w, m + 1, m + n) \in Word(n)
        /\ \A i \in 1 .. n : SubSeq(v \o w, m + 1, m + n)[i] = (v \o w)[m + i]
    BY <1>2, <2>1, PartFacts
  <2>3. \A i \in 1 .. n : (v \o w)[m + i] = w[i]
    BY JoinFacts
  <2> QED BY <2>2, <2>3, WordsEqual
<1>4. ASSUME NEW c \in 1 .. m, NEW d \in c .. m PROVE SubSeq(v \o w, c, d) = SubSeq(v, c, d)
  <2>1. c \in 1 .. Len(v) /\ d \in 1 .. Len(v)
    BY <1>1
  <2> QED BY <1>1, <2>1, SubSeqOfConcat1
<1> QED BY <1>2, <1>3, <1>4 DEF Kept

\* What is kept from step to step is kept.
LEMMA KeptOn ==
    ASSUME NEW h, NEW g, NEW e, NEW m \in Nat, NEW k \in Nat, k <= m, Kept(h, g, m), Kept(g, e, k)
    PROVE  Kept(h, e, k)
<1> SUFFICES ASSUME NEW a \in 1 .. k, NEW b \in a .. k PROVE SubSeq(h, a, b) = SubSeq(e, a, b)
  BY DEF Kept
<1>1. a \in 1 .. m /\ b \in a .. m
  OBVIOUS
<1>2. SubSeq(h, a, b) = SubSeq(g, a, b)
  BY <1>1 DEF Kept
<1>3. SubSeq(g, a, b) = SubSeq(e, a, b)
  BY DEF Kept
<1> QED BY <1>2, <1>3

\* Each member lies where the server looks for it.
LEMMA MembersOnWire ==
    ASSUME NEW f \in Frames
    PROVE  LET h == OnWire(f) IN
           /\ h \in Word(36)
           /\ SubSeq(h, 1, 4) = PROTO_MAGIC      /\ SubSeq(h, 5, 6) = PROTO_VERSION
           /\ SubSeq(h, 9, 16) = f.seq           /\ SubSeq(h, 17, 24) = f.timestamp_ns
           /\ SubSeq(h, 25, 28) = f.payload_len  /\ SubSeq(h, 29, 32) = f.pixel_format
           /\ SubSeq(h, 33, 34) = f.width        /\ SubSeq(h, 35, 36) = f.height
<1> DEFINE h4 == PROTO_MAGIC
           h6 == h4 \o PROTO_VERSION
           h8 == h6 \o HeaderLen16
           h16 == h8 \o f.seq
           h24 == h16 \o f.timestamp_ns
           h28 == h24 \o f.payload_len
           h32 == h28 \o f.pixel_format
           h34 == h32 \o f.width
           h36 == h34 \o f.height
<1>0. OnWire(f) = h36
  BY DEF OnWire
<1>w. /\ f.seq \in Word(8) /\ f.timestamp_ns \in Word(8)
      /\ f.payload_len \in Word(4) /\ f.pixel_format \in Word(4)
      /\ f.width \in Word(2) /\ f.height \in Word(2)
      /\ PROTO_VERSION \in Word(2) /\ HeaderLen16 \in Word(2)
  BY FrameWidths, ConstantWidths
<1>4. h4 \in Word(4) /\ SubSeq(h4, 1, 4) = PROTO_MAGIC
  <2>1. h4 \in Word(4)
    BY ConstantWidths
  <2>2. h4 \in Seq(Byte) /\ Len(h4) = 4
    BY <2>1, WordIsSeq
  <2> HIDE DEF h4
  <2>3. SubSeq(h4, 1, Len(h4)) = h4
    BY <2>2, SubSeqFull
  <2> QED BY <2>1, <2>2, <2>3 DEF h4
<1> HIDE DEF h4
<1>6. h6 \in Word(6) /\ SubSeq(h6, 5, 6) = PROTO_VERSION /\ Kept(h6, h4, 4)
  <2> DEFINE m == 4
             n == 2
  <2>1. m \in Nat /\ n \in Nat /\ n >= 1 /\ m + n = 6 /\ m + 1 = 5
    OBVIOUS
  <2>2. h4 \in Word(m) /\ PROTO_VERSION \in Word(n)
    BY <1>w, <1>4
  <2> HIDE DEF m, n
  <2>3. h6 \in Word(m + n) /\ SubSeq(h6, m + 1, m + n) = PROTO_VERSION /\ Kept(h6, h4, m)
    BY <2>1, <2>2, AddMember
  <2> HIDE DEF h6
  <2> QED BY <2>1, <2>3 DEF m
<1> HIDE DEF h6
<1>8. h8 \in Word(8) /\ SubSeq(h8, 7, 8) = HeaderLen16 /\ Kept(h8, h6, 6)
  <2> DEFINE m == 6
             n == 2
  <2>1. m \in Nat /\ n \in Nat /\ n >= 1 /\ m + n = 8 /\ m + 1 = 7
    OBVIOUS
  <2>2. h6 \in Word(m) /\ HeaderLen16 \in Word(n)
    BY <1>w, <1>6
  <2> HIDE DEF m, n
  <2>3. h8 \in Word(m + n) /\ SubSeq(h8, m + 1, m + n) = HeaderLen16 /\ Kept(h8, h6, m)
    BY <2>1, <2>2, AddMember
  <2> HIDE DEF h8
  <2> QED BY <2>1, <2>3 DEF m
<1> HIDE DEF h8
<1>16. h16 \in Word(16) /\ SubSeq(h16, 9, 16) = f.seq /\ Kept(h16, h8, 8)
  <2> DEFINE m == 8
             n == 8
  <2>1. m \in Nat /\ n \in Nat /\ n >= 1 /\ m + n = 16 /\ m + 1 = 9
    OBVIOUS
  <2>2. h8 \in Word(m) /\ f.seq \in Word(n)
    BY <1>w, <1>8
  <2> HIDE DEF m, n
  <2>3. h16 \in Word(m + n) /\ SubSeq(h16, m + 1, m + n) = f.seq /\ Kept(h16, h8, m)
    BY <2>1, <2>2, AddMember
  <2> HIDE DEF h16
  <2> QED BY <2>1, <2>3 DEF m
<1> HIDE DEF h16
<1>24. h24 \in Word(24) /\ SubSeq(h24, 17, 24) = f.timestamp_ns /\ Kept(h24, h16, 16)
  <2> DEFINE m == 16
             n == 8
  <2>1. m \in Nat /\ n \in Nat /\ n >= 1 /\ m + n = 24 /\ m + 1 = 17
    OBVIOUS
  <2>2. h16 \in Word(m) /\ f.timestamp_ns \in Word(n)
    BY <1>w, <1>16
  <2> HIDE DEF m, n
  <2>3. h24 \in Word(m + n) /\ SubSeq(h24, m + 1, m + n) = f.timestamp_ns /\ Kept(h24, h16, m)
    BY <2>1, <2>2, AddMember
  <2> HIDE DEF h24
  <2> QED BY <2>1, <2>3 DEF m
<1> HIDE DEF h24
<1>28. h28 \in Word(28) /\ SubSeq(h28, 25, 28) = f.payload_len /\ Kept(h28, h24, 24)
  <2> DEFINE m == 24
             n == 4
  <2>1. m \in Nat /\ n \in Nat /\ n >= 1 /\ m + n = 28 /\ m + 1 = 25
    OBVIOUS
  <2>2. h24 \in Word(m) /\ f.payload_len \in Word(n)
    BY <1>w, <1>24
  <2> HIDE DEF m, n
  <2>3. h28 \in Word(m + n) /\ SubSeq(h28, m + 1, m + n) = f.payload_len /\ Kept(h28, h24, m)
    BY <2>1, <2>2, AddMember
  <2> HIDE DEF h28
  <2> QED BY <2>1, <2>3 DEF m
<1> HIDE DEF h28
<1>32. h32 \in Word(32) /\ SubSeq(h32, 29, 32) = f.pixel_format /\ Kept(h32, h28, 28)
  <2> DEFINE m == 28
             n == 4
  <2>1. m \in Nat /\ n \in Nat /\ n >= 1 /\ m + n = 32 /\ m + 1 = 29
    OBVIOUS
  <2>2. h28 \in Word(m) /\ f.pixel_format \in Word(n)
    BY <1>w, <1>28
  <2> HIDE DEF m, n
  <2>3. h32 \in Word(m + n) /\ SubSeq(h32, m + 1, m + n) = f.pixel_format /\ Kept(h32, h28, m)
    BY <2>1, <2>2, AddMember
  <2> HIDE DEF h32
  <2> QED BY <2>1, <2>3 DEF m
<1> HIDE DEF h32
<1>34. h34 \in Word(34) /\ SubSeq(h34, 33, 34) = f.width /\ Kept(h34, h32, 32)
  <2> DEFINE m == 32
             n == 2
  <2>1. m \in Nat /\ n \in Nat /\ n >= 1 /\ m + n = 34 /\ m + 1 = 33
    OBVIOUS
  <2>2. h32 \in Word(m) /\ f.width \in Word(n)
    BY <1>w, <1>32
  <2> HIDE DEF m, n
  <2>3. h34 \in Word(m + n) /\ SubSeq(h34, m + 1, m + n) = f.width /\ Kept(h34, h32, m)
    BY <2>1, <2>2, AddMember
  <2> HIDE DEF h34
  <2> QED BY <2>1, <2>3 DEF m
<1> HIDE DEF h34
<1>36. h36 \in Word(36) /\ SubSeq(h36, 35, 36) = f.height /\ Kept(h36, h34, 34)
  <2> DEFINE m == 34
             n == 2
  <2>1. m \in Nat /\ n \in Nat /\ n >= 1 /\ m + n = 36 /\ m + 1 = 35
    OBVIOUS
  <2>2. h34 \in Word(m) /\ f.height \in Word(n)
    BY <1>w, <1>34
  <2> HIDE DEF m, n
  <2>3. h36 \in Word(m + n) /\ SubSeq(h36, m + 1, m + n) = f.height /\ Kept(h36, h34, m)
    BY <2>1, <2>2, AddMember
  <2> HIDE DEF h36
  <2> QED BY <2>1, <2>3 DEF m
<1> HIDE DEF h36
<1>k32. Kept(h36, h32, 32)
  BY <1>36, <1>34, KeptOn
<1>k28. Kept(h36, h28, 28)
  BY <1>k32, <1>32, KeptOn
<1>k24. Kept(h36, h24, 24)
  BY <1>k28, <1>28, KeptOn
<1>k16. Kept(h36, h16, 16)
  BY <1>k24, <1>24, KeptOn
<1>k8. Kept(h36, h8, 8)
  BY <1>k16, <1>16, KeptOn
<1>k6. Kept(h36, h6, 6)
  BY <1>k8, <1>8, KeptOn
<1>k4. Kept(h36, h4, 4)
  BY <1>k6, <1>6, KeptOn
<1>m. ASSUME NEW m \in Nat, NEW g, Kept(h36, g, m), NEW a \in Nat, 1 <= a, a <= m
      PROVE  SubSeq(h36, a, m) = SubSeq(g, a, m)
  <2>1. a \in 1 .. m /\ m \in a .. m
    BY <1>m
  <2> QED BY <1>m, <2>1 DEF Kept
<1>m4. SubSeq(h36, 1, 4) = PROTO_MAGIC
  BY <1>4, <1>k4, <1>m
<1>m6. SubSeq(h36, 5, 6) = PROTO_VERSION
  BY <1>6, <1>k6, <1>m
<1>m16. SubSeq(h36, 9, 16) = f.seq
  BY <1>16, <1>k16, <1>m
<1>m24. SubSeq(h36, 17, 24) = f.timestamp_ns
  BY <1>24, <1>k24, <1>m
<1>m28. SubSeq(h36, 25, 28) = f.payload_len
  BY <1>28, <1>k28, <1>m
<1>m32. SubSeq(h36, 29, 32) = f.pixel_format
  BY <1>32, <1>k32, <1>m
<1>m34. SubSeq(h36, 33, 34) = f.width
  BY <1>34, <1>36, <1>m
<1> QED BY <1>0, <1>36, <1>m4, <1>m6, <1>m16, <1>m24, <1>m28, <1>m32, <1>m34

\* The server loads a member of the header and gets its value, whatever its host.
LEMMA DecodeFacts ==
    ASSUME NEW f \in Frames, NEW le
    PROVE  HeaderFields(le, OnWire(f)) = f
<1> DEFINE h == OnWire(f)
<1>1. /\ SubSeq(h, 8 + 1, 8 + 8) = f.seq /\ SubSeq(h, 16 + 1, 16 + 8) = f.timestamp_ns
      /\ SubSeq(h, 24 + 1, 24 + 4) = f.payload_len /\ SubSeq(h, 28 + 1, 28 + 4) = f.pixel_format
      /\ SubSeq(h, 32 + 1, 32 + 2) = f.width /\ SubSeq(h, 34 + 1, 34 + 2) = f.height
  BY MembersOnWire
<1> HIDE DEF h
<1>2. /\ ntohll(le, Member(le, h, 8, 8)) = f.seq
      /\ ntohll(le, Member(le, h, 16, 8)) = f.timestamp_ns
  BY <1>1, FrameWidths, LongConversion DEF Member
<1>3. /\ ByteOrder(le, Member(le, h, 24, 4)) = f.payload_len
      /\ ByteOrder(le, Member(le, h, 28, 4)) = f.pixel_format
      /\ ByteOrder(le, Member(le, h, 32, 2)) = f.width
      /\ ByteOrder(le, Member(le, h, 34, 2)) = f.height
  BY <1>1, FrameWidths, ShortConversion DEF Member
<1>4. HeaderFields(le, h) = f
  BY <1>2, <1>3 DEF HeaderFields, Frames
<1> QED BY <1>4 DEF h

\* A payload that the queue takes, of at most 4 MB, is below the limit of the server.
LEMMA LimitFacts ==
    ASSUME NEW n \in Word(4), ~Exceeds(n, FourMB)
    PROVE  ~Exceeds(n, SixteenMB)
<1>1. Len(n) = 4 /\ \A i \in 1 .. 4 : n[i] \in Nat
  <2>1. \A i \in 1 .. 4 : n[i] \in Byte
    BY DEF Word
  <2>2. Len(n) = 4
    BY WordIsSeq
  <2>3. \A i \in 1 .. 4 : n[i] \in Nat
    BY <2>1 DEF Byte
  <2> QED BY <2>2, <2>3
<1>2. ~(n[1] > 0)
  <2>1. 1 \in 1 .. 4 /\ 1 .. (1 - 1) = {} /\ FourMB[1] = 0
    BY DEF FourMB
  <2> QED BY <1>1, <2>1 DEF Exceeds
<1>3. n[1] = 0 /\ SixteenMB[1] = 1
  BY <1>1, <1>2 DEF SixteenMB
<1> SUFFICES ASSUME NEW i \in 1 .. 4, n[i] > SixteenMB[i], \A j \in 1 .. (i - 1) : n[j] = SixteenMB[j]
             PROVE  FALSE
  BY <1>1 DEF Exceeds
<1>4. CASE i = 1
  BY <1>3, <1>4
<1>5. CASE i > 1
  <2>1. 1 \in 1 .. (i - 1)
    BY <1>5
  <2> QED BY <1>3, <2>1
<1> QED BY <1>4, <1>5

\* The server accepts what the client encodes.
LEMMA AcceptFacts ==
    ASSUME NEW f \in Frames, NEW le
    PROVE  Accepted(le, OnWire(f))
<1> DEFINE h == OnWire(f)
<1>1. SubSeq(h, 1, 4) = PROTO_MAGIC /\ SubSeq(h, 4 + 1, 4 + 2) = PROTO_VERSION
  BY MembersOnWire
<1>2. HeaderFields(le, h).payload_len = f.payload_len
  BY DecodeFacts
<1> HIDE DEF h
<1>3. ByteOrder(le, Member(le, h, 4, 2)) = PROTO_VERSION
  BY <1>1, ConstantWidths, ShortConversion DEF Member
<1>4. ~Exceeds(f.payload_len, SixteenMB)
  BY FrameWidths, LimitFacts
<1>5. Accepted(le, h)
  BY <1>1, <1>2, <1>3, <1>4 DEF Accepted
<1> QED BY <1>5 DEF h

\* The file extension tells the two formats of the camera code from all the others.
LEMMA ExtensionFacts ==
    ASSUME NEW v \in Word(4)
    PROVE  /\ v = JPEG  <=> Extension(v) = "jpg"
           /\ v = BGR24 <=> Extension(v) = "bgr"
<1> DEFINE r == Reverse(v)
           j == <<77, 74, 80, 71>>
           y == <<89, 85, 89, 86>>
           b == <<66, 71, 82, 51>>
<1>1. JPEG \in Word(4) /\ BGR24 \in Word(4)
  BY DEF JPEG, BGR24, Word, Byte
<1>2. Reverse(JPEG) = j /\ Reverse(BGR24) = b
  BY DEF JPEG, BGR24, Reverse
<1>3. v = JPEG <=> r = j
  BY <1>1, <1>2, ReverseFacts
<1>4. v = BGR24 <=> r = b
  BY <1>1, <1>2, ReverseFacts
<1>5. j # y /\ j # b /\ y # b
  OBVIOUS
<1>6. Extension(v) = CASE r = j -> "jpg" [] r = y -> "yuyv" [] r = b -> "bgr" [] OTHER -> "raw"
  BY DEF Extension, fourccToString
<1> HIDE DEF r, j, y, b
<1>7. /\ r = j => Extension(v) = "jpg"
      /\ r = y => Extension(v) = "yuyv"
      /\ r = b => Extension(v) = "bgr"
      /\ r # j /\ r # y /\ r # b => Extension(v) = "raw"
  BY <1>5, <1>6
<1>8. r = j <=> Extension(v) = "jpg"
  BY <1>5, <1>7
<1>9. r = b <=> Extension(v) = "bgr"
  BY <1>5, <1>7
<1> QED BY <1>3, <1>4, <1>8, <1>9

-----------------------------------------------------------------------------
(* The invariant and the theorems.                                         *)

\* Nothing is on the wire yet.
LEMMA InitWireInv == WireInit => WireInv
BY DEF WireInit, WireInv, NetworkOrder, RoundTrip

\* Encoding and decoding keep WireInv.
LEMMA NextWireInv == WireInv /\ [WireNext]_wireVars => WireInv'
<1> SUFFICES ASSUME WireInv, [WireNext]_wireVars PROVE WireInv'
  OBVIOUS
<1>1. CASE Encode
  <2>1. hdr' = OnWire(frame') /\ frame' = frame /\ frame \in Frames /\ wire_pc' = "sent"
    BY <1>1, EncodeFacts DEF Encode, WireInv
  <2> QED BY <2>1 DEF WireInv, NetworkOrder, RoundTrip, OnWire
<1>2. CASE Decode
  <2>1. wire_pc = "sent" /\ frame' = frame /\ frame \in Frames /\ hdr' = hdr /\ hdr = OnWire(frame)
    BY <1>2 DEF Decode, WireInv, NetworkOrder, OnWire
  <2>2. Accepted(server_le, hdr) /\ HeaderFields(server_le, hdr) = frame
    BY <2>1, AcceptFacts, DecodeFacts
  <2>3. /\ parsed' = {frame} /\ ext' = Extension(frame.pixel_format) /\ wire_pc' = "accepted"
    BY <1>2, <2>2 DEF Decode
  <2>4. /\ frame.pixel_format = JPEG  <=> ext' = "jpg"
        /\ frame.pixel_format = BGR24 <=> ext' = "bgr"
    BY <2>1, <2>3, FrameWidths, ExtensionFacts
  <2>5. RoundTrip'
    BY <2>1, <2>3, <2>4 DEF RoundTrip
  <2>6. NetworkOrder'
    BY <2>1 DEF NetworkOrder, OnWire
  <2> QED BY <2>1, <2>3, <2>5, <2>6 DEF WireInv
<1>3. CASE UNCHANGED wireVars
  BY <1>3 DEF wireVars, WireInv, NetworkOrder, RoundTrip
<1> QED BY <1>1, <1>2, <1>3 DEF WireNext, WireDone

\* The invariant of the protocol always holds.
THEOREM WireInvariant == WireSpec => []WireInv
BY InitWireInv, NextWireInv, PTL DEF WireSpec

\* Whatever the client's host, initFrameHeader() writes every member in network order, without
\* padding and in the order of the comment in protocol.hpp.
THEOREM HeaderInNetworkOrder == WireSpec => []NetworkOrder
<1>1. WireInv => NetworkOrder
  BY DEF WireInv
<1> QED BY <1>1, WireInvariant, PTL

\* Whatever the hosts and the values, the server accepts each header of the client, reads what
\* the client wrote, and tells the camera's formats apart.
THEOREM HeaderSurvives == WireSpec => []RoundTrip
<1>1. WireInv => RoundTrip
  BY DEF WireInv
<1> QED BY <1>1, WireInvariant, PTL
=============================================================================
