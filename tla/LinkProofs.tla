----------------------------- MODULE LinkProofs -----------------------------
(***************************************************************************)
(* Proofs about Link: the frames of one client at one server, over any     *)
(* number of connections that break anywhere.  The client's half is        *)
(* TlsClient's, whose invariant is inherited by implementation; the other  *)
(* half says what is in the streams and how far the server has read.       *)
(***************************************************************************)
EXTENDS Link, TlsClientProofs, FiniteSetTheorems

Conns == 1 .. MaxConns

\* A byte of the client's wire, and as it reaches the server.
WireByte == [seq : Frame, off : 0 .. (FrameLen - 1)]
LinkByte == [src : {1}, proto : {"FRAM 1"}, seq : Frame, off : 0 .. (FrameLen - 1),
             len : {PayloadLen}]

\* The bytes s are whole frames, each newer than the one before, and the beginning of
\* another.
Flow(s) ==
    /\ \A i, j \in 1 .. Len(s) :
          i <= j /\ s[i].off + (j - i) < FrameLen =>
              s[j].off = s[i].off + (j - i) /\ s[j].seq = s[i].seq
    /\ \A i, j \in 1 .. Len(s) :
          i <= j /\ s[i].off + (j - i) >= FrameLen => s[i].seq < s[j].seq
    /\ \A i \in 1 .. Len(s) : i = 1 \/ s[i - 1].off = FrameLen - 1 => s[i].off = 0

\* The first p bytes of s end after x bytes of a frame.
At(s, p, x) ==
    IF x = 0 THEN p = 0 \/ s[p].off = FrameLen - 1
             ELSE p > 0 /\ s[p].off = x - 1

-----------------------------------------------------------------------------
(* The invariant of the composition.                                       *)

LinkTypes ==
    /\ cur \in Conns \cup {NoConn} /\ conn \in Conns \cup {NoConn}
    /\ backlog \in Seq(Conns)
    /\ stream \in [Conns -> Seq(LinkByte)] /\ pos \in [Conns -> Nat]
    /\ ending \in [Conns -> {"none", "open", "closed", "reset"}]
    /\ hdr \in Seq(LinkByte) /\ got \in Nat
    /\ received \in Seq(Frame)

Serving == {"handshake", "loop", "header", "payload", "open", "write", "cleanup"}

\* Connections are numbered in the order of arrival; the client's is the last one.
Numbered ==
    /\ \E n \in 0 .. MaxConns :
          /\ \A c \in Conns : ending[c] # "none" <=> c <= n
          /\ cur # NoConn => cur = n
    /\ peer = "open" => cur # NoConn
    /\ \A c \in Conns : pos[c] <= Len(stream[c]) /\ (ending[c] = "none" => stream[c] = <<>>)

\* They are accepted in that order, too, and nothing was read of one that waits.
Waiting ==
    /\ \A i \in 1 .. Len(backlog) :
          ending[backlog[i]] # "none" /\ pos[backlog[i]] = 0 /\ conn < backlog[i]
    /\ \A i, j \in 1 .. Len(backlog) : i < j => backlog[i] < backlog[j]
    /\ srv_pc \in Serving => conn # NoConn
    /\ conn # NoConn => ending[conn] # "none"

\* The streams: each one whole frames in order, the client's own what it wrote as long as
\* the connection stands, and all of a connection older than all of a later one.
StreamInv ==
    /\ \A c \in Conns : Flow(stream[c])
    /\ \A c, d \in Conns : c < d =>
          \A i \in 1 .. Len(stream[c]), j \in 1 .. Len(stream[d]) :
              stream[c][i].seq < stream[d][j].seq
    /\ \A c \in Conns : \A i \in 1 .. Len(stream[c]) :
          /\ stream[c][i].seq <= last_frame
          /\ net_pc \in {"header", "payload"} /\ c # cur => stream[c][i].seq < last_frame
    /\ peer = "open" =>
          /\ Len(stream[cur]) = Len(wire)
          /\ \A i \in 1 .. Len(wire) : stream[cur][i] = Seen(wire[i])

\* How far the server has read, at every place of handleClient() and saveFrame().
Position ==
    /\ srv_pc = "handshake" => pos[conn] = 0
    /\ srv_pc \in {"loop", "open", "write"} => At(stream[conn], pos[conn], 0)
    /\ srv_pc \notin {"header", "payload", "open", "write"} => hdr = <<>>
    /\ srv_pc = "header" =>
          /\ Len(hdr) <= HeaderLen
          /\ At(stream[conn], pos[conn], Len(hdr))
          /\ \A i \in 1 .. Len(hdr) : hdr[i].off = i - 1 /\ hdr[i].seq = hdr[1].seq
          /\ hdr # <<>> => hdr[1].seq = stream[conn][pos[conn]].seq
    /\ srv_pc = "payload" =>
          /\ Len(hdr) = HeaderLen /\ got <= PayloadLen
          /\ At(stream[conn], pos[conn], IF got = PayloadLen THEN 0 ELSE HeaderLen + got)
          /\ pos[conn] > 0 /\ hdr[1].seq = stream[conn][pos[conn]].seq

\* What the server has counted is older than all it has not read yet.
ReceivedInv ==
    /\ \A i, j \in 1 .. Len(received) : i < j => received[i] < received[j]
    /\ \A r \in 1 .. Len(received) :
          /\ conn # NoConn =>
                \A i \in 1 .. Len(stream[conn]) :
                    i > pos[conn] => received[r] < stream[conn][i].seq
          /\ \A k \in 1 .. Len(backlog) : \A i \in 1 .. Len(stream[backlog[k]]) :
                received[r] < stream[backlog[k]][i].seq
          /\ srv_pc = "header" /\ hdr # <<>> => received[r] < hdr[1].seq
          /\ srv_pc = "payload" => received[r] < hdr[1].seq
    /\ frames_received = Len(received)
    /\ frames_saved \in Nat
    /\ frames_saved + (IF srv_pc \in {"open", "write"} THEN 1 ELSE 0) <= frames_received

SentCount == frames_sent_ + (IF net_pc = "sent" THEN 1 ELSE 0)

\* The frames in S have been written to the last byte, and no other frame has reached the
\* server whole.
SentWhole(S) ==
    /\ Cardinality(S) = SentCount
    /\ \A f \in S : f <= last_frame /\ (net_pc \in {"header", "payload"} => f < last_frame)
    /\ \A c \in Conns : \A i \in 1 .. Len(stream[c]) :
          stream[c][i].off = FrameLen - 1 => stream[c][i].seq \in S
    /\ \A r \in 1 .. Len(received) : received[r] \in S

SentInv == \E S \in SUBSET Frame : SentWhole(S)

LInv == LinkTypes /\ Numbered /\ Waiting /\ StreamInv /\ Position /\ ReceivedInv /\ SentInv

-----------------------------------------------------------------------------
(* The wire of the client.                                                 *)

\* k frames and x bytes of another end after x bytes of a frame.
LEMMA EndOfFrames ==
    ASSUME NEW w \in Seq(WireByte), Framed(w),
           NEW k \in Nat, NEW x \in 0 .. (FrameLen - 1), Len(w) = k * FrameLen + x
    PROVE  At(w, Len(w), x)
<1> DEFINE L == FrameLen
           l == Len(w)
<1>1. L \in Nat \ {0} /\ l \in Nat /\ l = k * L + x /\ x \in 0 .. (L - 1)
  BY LengthAssumption DEF FrameLen
<1>2. \A i \in 1 .. l : w[i].off = (i - 1) % L
  BY DEF Framed
<1> HIDE DEF L, l
<1>3. CASE x > 0
  <2> DEFINE a == l - 1
             r == x - 1
  <2>1. k * L \in Nat
    BY <1>1
  <2>2. a \in Int /\ r \in 0 .. (L - 1) /\ a = k * L + r /\ k \in Int /\ l > 0 /\ l \in 1 .. l
    BY <1>1, <1>3, <2>1
  <2> HIDE DEF a, r
  <2>3. a % L = r
    BY <1>1, <2>2, RemainderUnique
  <2>4. w[l].off = x - 1
    BY <1>2, <2>2, <2>3 DEF a, r
  <2> QED BY <1>3, <2>2, <2>4 DEF At, l
<1>4. CASE x = 0 /\ l > 0
  <2> DEFINE a == l - 1
             r == L - 1
             m == k - 1
  <2>1. a \in Int /\ r \in 0 .. (L - 1) /\ m \in Int /\ l \in 1 .. l
    BY <1>1, <1>4
  <2>2. m * L = k * L - L
    BY <1>1
  <2>3. a = m * L + r
    BY <1>1, <1>4, <2>2
  <2> HIDE DEF a, r, m
  <2>4. a % L = r
    BY <1>1, <2>1, <2>3, RemainderUnique
  <2>5. w[l].off = L - 1
    BY <1>2, <2>1, <2>4 DEF a, r
  <2> QED BY <1>4, <2>5 DEF At, l, L
<1>5. CASE x = 0 /\ l = 0
  BY <1>5 DEF At, l
<1> QED BY <1>1, <1>3, <1>4, <1>5

\* The next bytes of a frame keep the flow of frames.
LEMMA FlowExtends ==
    ASSUME NEW w \in Seq(WireByte), Flow(w),
           NEW f \in Frame, NEW off \in Nat, NEW n \in Nat, off + n <= FrameLen,
           off < FrameLen, At(w, Len(w), off),
           off = 0 => \A i \in 1 .. Len(w) : w[i].seq < f,
           off > 0 => w[Len(w)].seq = f
    PROVE  Flow(w \o Bytes(f, off, n))
<1> DEFINE b == Bytes(f, off, n)
           v == w \o b
           l == Len(w)
           L == FrameLen
           Piece == [seq : Frame, off : Nat]
<1>1. L \in Nat \ {0}
  BY LengthAssumption DEF FrameLen
<1>2. w \in Seq(WireByte)
  OBVIOUS
<1>3. b \in Seq(Piece) /\ Len(b) = n
  BY DEF Bytes
<1>4. \A j \in 1 .. n : b[j] = [seq |-> f, off |-> off + j - 1]
  BY DEF Bytes
<1>5. \A i \in 1 .. l : w[i] \in WireByte
  BY <1>2
<1>6. \A i \in 1 .. l : w[i].seq \in Int /\ w[i].off \in Int /\ w[i].off < L /\ 0 <= w[i].off
  BY <1>1, <1>5, BoundsAssumption DEF Frame, WireByte
<1> HIDE DEF b, Piece
<1>7. l \in Nat /\ Len(v) = l + n
  <2>1. b \in Seq(Piece)
    BY <1>3
  <2>2. Len(w) \in Nat /\ Len(w \o b) = Len(w) + Len(b)
    BY <1>2, <2>1, ConcatFacts
  <2> QED BY <1>3, <2>2
<1>8. \A i \in 1 .. l : v[i] = w[i]
  BY <1>2, <1>3, ConcatFacts
<1>9. \A j \in 1 .. n : v[l + j] = b[j]
  BY <1>2, <1>3, ConcatFacts
<1>10. \A j \in 1 .. n : v[l + j].seq = f /\ v[l + j].off = off + j - 1
  <2> SUFFICES ASSUME NEW j \in 1 .. n
               PROVE  v[l + j].seq = f /\ v[l + j].off = off + j - 1
    OBVIOUS
  <2>1. v[l + j] = [seq |-> f, off |-> off + j - 1]
    BY <1>4, <1>9
  <2> QED BY <2>1
<1> HIDE DEF v
<1>11. \A i \in 1 .. Len(v) : i > l => i - l \in 1 .. n /\ i = l + (i - l)
  BY <1>7
<1>12. \A i \in 1 .. Len(v) : i > l => v[i].seq = f /\ v[i].off = off + i - l - 1
  <2> SUFFICES ASSUME NEW i \in 1 .. Len(v), i > l
               PROVE  v[i].seq = f /\ v[i].off = off + i - l - 1
    OBVIOUS
  <2> DEFINE j == i - l
  <2>1. j \in 1 .. n /\ i = l + j
    BY <1>11
  <2> HIDE DEF j
  <2>2. v[i].seq = f /\ v[i].off = off + j - 1
    BY <1>10, <2>1
  <2> QED BY <1>7, <2>1, <2>2 DEF j
<1>13. \A i \in 1 .. Len(v) : i <= l => i \in 1 .. l /\ v[i] = w[i]
  BY <1>7, <1>8
<1>14. /\ \A i, j \in 1 .. l :
              i <= j /\ w[i].off + (j - i) < L =>
                  w[j].off = w[i].off + (j - i) /\ w[j].seq = w[i].seq
       /\ \A i, j \in 1 .. l : i <= j /\ w[i].off + (j - i) >= L => w[i].seq < w[j].seq
       /\ \A i \in 1 .. l : i = 1 \/ w[i - 1].off = L - 1 => w[i].off = 0
  BY DEF Flow
<1>15. /\ off = 0 => l = 0 \/ w[l].off = L - 1
       /\ off > 0 => l > 0 /\ w[l].off = off - 1 /\ w[l].seq = f
       /\ off = 0 => \A i \in 1 .. l : w[i].seq < f
       /\ off < L /\ off + n <= L
  BY DEF At
<1> HIDE DEF l, L
<1>16. f \in Int
  BY BoundsAssumption DEF Frame
\* An earlier byte and a new one: of the same frame, or the new one is of a newer frame.
<1>17. ASSUME NEW i \in 1 .. l, NEW j \in 1 .. Len(v), j > l
       PROVE  IF w[i].off + (j - i) < L THEN /\ v[j].off = w[i].off + (j - i)
                                             /\ v[j].seq = w[i].seq
                                        ELSE w[i].seq < v[j].seq
  <2>1. l \in 1 .. l /\ i <= l /\ l > 0 /\ i \in Int /\ j \in Int /\ l \in Int
    BY <1>7, <1>17
  <2>a. w[i].off \in Int /\ w[i].seq \in Int /\ L \in Int
    BY <1>1, <1>6
  <2>2. v[j].seq = f /\ v[j].off = off + j - l - 1 /\ j <= l + n
    BY <1>7, <1>12, <1>17
  <2>3. CASE off = 0
    <3>1. w[i].seq < f /\ w[l].off = L - 1
      BY <1>15, <2>1, <2>3
    <3>2. w[i].off + (l - i) < L => w[i].off + (l - i) = L - 1
      BY <1>14, <2>1, <3>1
    <3>3. ~(w[i].off + (j - i) < L)
      <4> DEFINE o == w[i].off
      <4>1. o \in Int /\ L \in Int /\ (o + (l - i) < L => o + (l - i) = L - 1)
        BY <2>a, <3>2
      <4>2. i \in Int /\ j \in Int /\ l \in Int /\ j > l
        BY <1>17, <2>1
      <4> HIDE DEF o
      <4>3. ~(o + (j - i) < L)
        BY <4>1, <4>2
      <4> QED BY <4>3 DEF o
    <3> QED BY <2>2, <3>1, <3>3
  <2>4. CASE off > 0
    <3>1. w[l].off = off - 1 /\ w[l].seq = f
      BY <1>15, <2>4
    <3>2. CASE w[i].off + (l - i) < L
      <4>1. w[i].off + (l - i) = off - 1 /\ w[i].seq = f
        BY <1>14, <2>1, <3>1, <3>2
      <4>2. w[i].off + (j - i) = off + j - l - 1 /\ w[i].off + (j - i) < L
        <5> DEFINE o == w[i].off
        <5>1. o \in Int /\ L \in Int /\ o + (l - i) = off - 1 /\ off + n <= L /\ j <= l + n
          BY <1>15, <2>a, <2>2, <4>1
        <5>2. i \in Int /\ j \in Int /\ l \in Int
          BY <2>1
        <5> HIDE DEF o
        <5>3. o + (j - i) = off + j - l - 1 /\ o + (j - i) < L
          BY <5>1, <5>2
        <5> QED BY <5>3 DEF o
      <4> QED BY <2>2, <4>1, <4>2
    <3>3. CASE ~(w[i].off + (l - i) < L)
      <4> DEFINE o == w[i].off
      <4>a. o \in Int /\ L \in Int /\ ~(o + (l - i) < L)
        BY <2>a, <3>3
      <4>b. i \in Int /\ j \in Int /\ l \in Int /\ j > l
        BY <1>17, <2>1
      <4> HIDE DEF o
      <4>c. o + (l - i) >= L /\ ~(o + (j - i) < L)
        BY <4>a, <4>b
      <4>1. w[i].off + (l - i) >= L
        BY <4>c DEF o
      <4>2. w[i].seq < f
        BY <1>14, <2>1, <3>1, <4>1
      <4>3. ~(w[i].off + (j - i) < L)
        BY <4>c DEF o
      <4> QED BY <2>2, <4>2, <4>3
    <3> QED BY <3>2, <3>3
  <2> QED BY <2>3, <2>4
<1>18. ASSUME NEW i \in 1 .. Len(v), NEW j \in 1 .. Len(v), i <= j
       PROVE  IF v[i].off + (j - i) < L THEN /\ v[j].off = v[i].off + (j - i)
                                             /\ v[j].seq = v[i].seq
                                        ELSE v[i].seq < v[j].seq
  <2>1. CASE j <= l
    <3>1. i \in 1 .. l /\ j \in 1 .. l /\ v[i] = w[i] /\ v[j] = w[j]
      BY <1>7, <1>13, <1>18, <2>1
    <3>2. w[i].off + (j - i) < L \/ w[i].off + (j - i) >= L
      BY <1>1, <1>6, <1>7, <3>1
    <3> QED BY <1>14, <1>18, <3>1, <3>2
  <2>2. CASE i <= l /\ j > l
    <3>1. i \in 1 .. l /\ v[i] = w[i]
      BY <1>13, <2>2
    <3> QED BY <1>17, <2>2, <3>1
  <2>3. CASE i > l
    <3>1. v[i].seq = f /\ v[i].off = off + i - l - 1 /\ v[j].seq = f /\ v[j].off = off + j - l - 1
      BY <1>7, <1>12, <1>18, <2>3
    <3>2. v[i].off + (j - i) = v[j].off /\ v[j].off < L
      BY <1>1, <1>7, <1>15, <3>1
    <3> QED BY <3>1, <3>2
  <2> QED BY <1>7, <2>1, <2>2, <2>3
<1>19. ASSUME NEW i \in 1 .. Len(v), i = 1 \/ v[i - 1].off = L - 1
       PROVE  v[i].off = 0
  <2>1. CASE i <= l
    <3>1. i \in 1 .. l /\ v[i] = w[i] /\ (i = 1 \/ i - 1 \in 1 .. Len(v))
      BY <1>7, <1>13, <2>1
    <3>2. i # 1 => v[i - 1] = w[i - 1]
      BY <1>7, <1>13, <2>1, <3>1
    <3> QED BY <1>14, <1>19, <3>1, <3>2
  <2>2. CASE i > l + 1
    <3>1. i - 1 \in 1 .. Len(v) /\ i - 1 > l
      BY <1>7, <2>2
    <3>2. v[i - 1].off = off + (i - 1) - l - 1
      BY <1>12, <3>1
    <3>3. i # 1 /\ v[i - 1].off < L - 1
      BY <1>1, <1>7, <1>15, <2>2, <3>2
    <3> QED BY <1>1, <1>19, <3>3
  <2>3. CASE i = l + 1
    <3>1. v[i].off = off
      BY <1>7, <1>12, <2>3
    <3>2. off > 0 => l > 0 /\ w[l].off = off - 1
      BY <1>15
    <3>3. off > 0 => i # 1 /\ i - 1 = l /\ l \in 1 .. l /\ v[l] = w[l]
      <4>1. l \in Nat /\ i = l + 1 /\ (off > 0 => l > 0)
        BY <1>7, <2>3, <3>2
      <4>2. off > 0 => i # 1 /\ i - 1 = l /\ l \in 1 .. l
        BY <4>1
      <4> QED BY <1>8, <4>2
    <3>4. off > 0 => v[i - 1].off = off - 1 /\ off - 1 # L - 1
      BY <1>1, <1>15, <3>2, <3>3
    <3>5. ~(off > 0)
      BY <1>19, <3>3, <3>4
    <3>6. off = 0
      BY <3>5
    <3> QED BY <3>1, <3>6
  <2> QED BY <1>7, <2>1, <2>2, <2>3
<1>20. \A i \in 1 .. Len(v) : v[i].seq \in Int /\ v[i].off \in Int
  <2> SUFFICES ASSUME NEW i \in 1 .. Len(v) PROVE v[i].seq \in Int /\ v[i].off \in Int
    OBVIOUS
  <2>1. CASE i <= l
    BY <1>6, <1>13, <2>1
  <2>2. CASE i > l
    BY <1>7, <1>12, <1>16, <2>2
  <2> QED BY <1>7, <2>1, <2>2
<1>21. \A i, j \in 1 .. Len(v) : i <= j /\ v[i].off + (j - i) >= L => v[i].seq < v[j].seq
  BY <1>1, <1>7, <1>18, <1>20
<1>22. \A i, j \in 1 .. Len(v) : i <= j /\ v[i].off + (j - i) < L =>
                                    v[j].off = v[i].off + (j - i) /\ v[j].seq = v[i].seq
  BY <1>18
<1>23. Flow(v)
  BY <1>19, <1>21, <1>22 DEF Flow, L
<1> QED BY <1>23 DEF v, b

\* Where the wire ends while a frame is written.
LEMMA WrittenSoFar ==
    ASSUME IInv, WireInv, net_pc \in {"header", "payload"}
    PROVE  /\ pkt \in Frame /\ pkt = last_frame
           /\ remaining \in Nat /\ remaining > 0
           /\ Written \in Nat /\ Written < FrameLen /\ Written + remaining <= FrameLen
           /\ net_pc = "header" => Written + remaining < FrameLen
           /\ net_pc = "payload" => Written + remaining = FrameLen
           /\ At(wire, Len(wire), Written)
           /\ Written = 0 => \A i \in 1 .. Len(wire) : wire[i].seq < pkt
           /\ Written > 0 => wire[Len(wire)].seq = pkt
<1>1. HeaderLen \in Nat \ {0} /\ PayloadLen \in Nat \ {0}
  BY LengthAssumption
<1>2. pkt \in Frame /\ remaining \in Nat /\ remaining > 0
  BY <1>1 DEF IInv, FrameInv
<1>3. /\ Written \in Nat /\ Written < FrameLen /\ Written + remaining <= FrameLen
      /\ net_pc = "header" => Written + remaining < FrameLen
      /\ net_pc = "payload" => Written + remaining = FrameLen
  BY <1>1 DEF IInv, FrameInv, Written, FrameLen
<1>4. pkt = last_frame /\ FrameBegun(wire, pkt, Written) /\ Framed(wire)
  BY DEF WireInv
<1>5. At(wire, Len(wire), Written)
  <2> DEFINE x == Written
             w == wire
  <2>1. PICK k \in Nat : Len(w) = k * FrameLen + x
    BY <1>4 DEF FrameBegun
  <2>2. FrameLen \in Nat
    BY <1>1 DEF FrameLen
  <2>3. x \in 0 .. (FrameLen - 1)
    BY <1>3, <2>2
  <2>4. w \in Seq(WireByte) /\ Framed(w)
    BY <1>4 DEF IInv, TypeOK, WireByte
  <2> HIDE DEF x, w
  <2>5. At(w, Len(w), x)
    BY <2>1, <2>3, <2>4, EndOfFrames
  <2> QED BY <2>5 DEF x, w
<1> QED BY <1>2, <1>3, <1>4, <1>5 DEF FrameBegun

\* SSL_write() takes n bytes: the wire still flows.
LEMMA WriteFlow ==
    ASSUME IInv, WireInv, Flow(wire), net_pc \in {"header", "payload"}, NEW n \in 0 .. remaining
    PROVE  Flow(wire \o Bytes(pkt, Written, n))
<1> DEFINE w == wire
           f == pkt
           x == Written
<1>1. /\ w \in Seq(WireByte)
      /\ Flow(w)
  BY DEF IInv, TypeOK, WireByte
<1>2. /\ f \in Frame /\ x \in Nat /\ x < FrameLen /\ At(w, Len(w), x)
      /\ x = 0 => \A i \in 1 .. Len(w) : w[i].seq < f
      /\ x > 0 => w[Len(w)].seq = f
      /\ remaining \in Nat /\ x + remaining <= FrameLen
  BY WrittenSoFar
<1> HIDE DEF w, f, x
<1>3. n \in Nat /\ x + n <= FrameLen
  BY <1>2, LengthAssumption DEF FrameLen
<1>4. Flow(w \o Bytes(f, x, n))
  BY <1>1, <1>2, <1>3, FlowExtends
<1> QED BY <1>4 DEF w, f, x

\* Every step of the client keeps the flow of frames on the wire.
LEMMA NextFlow == IInv /\ WireInv /\ Flow(wire) /\ [Next]_vars => Flow(wire)'
<1> SUFFICES ASSUME IInv, WireInv, Flow(wire), [Next]_vars PROVE Flow(wire')
  BY DEF Flow
<1>1. CASE wire' = wire
  BY <1>1
<1>2. CASE Connect
  <2>1. wire' = <<>>
    BY <1>2 DEF Connect
  <2> QED BY <2>1 DEF Flow
<1>a. net_pc \in {"header", "payload"} => remaining \in Nat /\ remaining > 0
  BY WrittenSoFar
<1>3. CASE WriteSome
  <2>1. PICK n \in 1 .. (remaining - 1) : wire' = wire \o Bytes(pkt, Written, n)
    BY <1>3 DEF WriteSome
  <2>2. net_pc \in {"header", "payload"} /\ n \in 0 .. remaining
    BY <1>a, <1>3, <2>1 DEF WriteSome
  <2>3. Flow(wire \o Bytes(pkt, Written, n))
    BY <2>2, WriteFlow
  <2> QED BY <2>1, <2>3
<1>4. CASE WriteRest
  <2>1. /\ net_pc \in {"header", "payload"} /\ remaining \in 0 .. remaining
        /\ wire' = wire \o Bytes(pkt, Written, remaining)
    BY <1>a, <1>4 DEF WriteRest
  <2>2. Flow(wire \o Bytes(pkt, Written, remaining))
    BY <2>1, WriteFlow
  <2> QED BY <2>1, <2>2
<1>5. CASE WriteFails
  <2>1. PICK n \in 0 .. (remaining - 1) : wire' = wire \o Bytes(pkt, Written, n)
    BY <1>5 DEF WriteFails
  <2>2. net_pc \in {"header", "payload"} /\ n \in 0 .. remaining
    BY <1>a, <1>5, <2>1 DEF WriteFails
  <2>3. Flow(wire \o Bytes(pkt, Written, n))
    BY <2>2, WriteFlow
  <2> QED BY <2>1, <2>3
<1>6. \/ wire' = wire \/ Connect \/ WriteSome \/ WriteRest \/ WriteFails
  <2>1. LocalStep => wire' = wire \/ Connect
    BY DEF LocalStep, InitializeFails, Initialize, StartLoop, LoopConnected, LoopConnect, Resolve,
           ResolveFails, OpenSocket, OpenSocketFails, AddressesExhausted, ConnectFails, SslNew,
           SslSetup, Backoff, PopNothing, FrameSent, LoopExit, DestroyJoined, Destroy, sysVars
  <2>2. HandshakeStep \/ QueueStep \/ Stop \/ PeerGone \/ Sigpipe => wire' = wire
    BY DEF HandshakeStep, SslConnect, TlsConnectFails, QueueStep, PopFrame, Stop, PeerGone, Sigpipe,
           sysVars
  <2>3. Terminated \/ UNCHANGED vars => wire' = wire
    BY DEF Terminated, vars, sysVars
  <2> QED BY <2>1, <2>2, <2>3 DEF Next, WriteStep
<1> QED BY <1>1, <1>2, <1>3, <1>4, <1>5, <1>6

-----------------------------------------------------------------------------
(* The client's half: Link implements TlsClient.                           *)

\* Every step of the composition is one of the client, or the client notices that the
\* server is gone, or nothing changes for it.
LEMMA StepOfClient == [LinkNext]_allVars => [Next]_vars
<1> SUFFICES ASSUME [LinkNext]_allVars PROVE [Next]_vars
  OBVIOUS
<1>a. UNCHANGED <<clientOnly, peer>> => UNCHANGED vars
  BY DEF clientOnly, vars, connVars, statVars, localVars, frameVars, sysVars, histVars
<1>1. CASE UNCHANGED allVars
  BY <1>1, <1>a DEF allVars
<1>2. CASE BothDown
  BY <1>2, <1>a DEF BothDown, allVars
<1>3. CASE Client
  <2>1. ClientLocal \/ ClientConnect => Next
    BY DEF ClientLocal, ClientConnect, Next, LocalStep
  <2>2. ClientHandshake \/ ClientHandshakeFails \/ ClientWrite \/ ClientWriteFails \/ ClientExit =>
           Next
    BY DEF ClientHandshake, ClientHandshakeFails, ClientWrite, ClientWriteFails, ClientExit, Next,
           LocalStep, HandshakeStep, WriteStep
  <2> QED BY <1>3, <2>1, <2>2 DEF Client
<1>4. CASE Break \/ ClientStop \/ ClientKilled
  BY <1>4 DEF Break, ClientStop, ClientKilled, Next
<1>5. CASE ServerSide
  <2>1. CASE peer' = peer
    BY <1>5, <1>a, <2>1 DEF ServerSide
  <2>2. CASE peer' # peer
    <3>1. peer = "open" /\ peer' = "gone" /\ UNCHANGED clientOnly
      BY <1>5, <2>2 DEF ServerSide
    <3>2. PeerGone
      BY <3>1 DEF PeerGone, clientOnly, connVars, statVars, localVars, frameVars, histVars
    <3> QED BY <3>2 DEF Next
  <2> QED BY <2>1, <2>2
<1>6. Server \/ ServerStop \/ ServerKilled => ServerSide
  BY DEF Server, ServerLocal, ServerRead, ServerHandshake, ServerHandshakeFails, ServerStop,
         ServerKilled
<1> QED BY <1>1, <1>2, <1>3, <1>4, <1>5, <1>6 DEF LinkNext

\* With a real server and a network that breaks, the network thread behaves as TlsClient
\* says: all that is proved of TlsClient holds here.
THEOREM LinkImplementsTlsClient == LinkSpec => Spec
<1>1. LinkInit => Init
  BY DEF LinkInit
<1> QED BY <1>1, StepOfClient, PTL DEF LinkSpec, Spec

\* The invariant of the client in the composition.
LEMMA ClientHalf == LinkSpec => [](IInv /\ WireInv /\ Flow(wire))
<1>1. Init => WireInv
  BY InitWireInv
<1>2. IInv /\ WireInv /\ [Next]_vars => WireInv'
  BY NextWireInv
<1>3. Init => Flow(wire)
  BY DEF Init, Flow
<1>4. IInv /\ WireInv /\ Flow(wire) /\ [Next]_vars => Flow(wire)'
  BY NextFlow
<1> QED BY <1>1, <1>2, <1>3, <1>4, ClientInvariant, LinkImplementsTlsClient, PTL DEF Spec

-----------------------------------------------------------------------------
(* LInv holds at the start.                                                *)

\* A byte of a stream, and the parts of it that the invariant compares.
LEMMA ByteFacts ==
    ASSUME NEW s \in Seq(LinkByte), NEW i \in 1 .. Len(s)
    PROVE  /\ s[i] \in LinkByte
           /\ s[i].seq \in Frame /\ s[i].seq \in Int
           /\ s[i].off \in Int /\ 0 <= s[i].off /\ s[i].off < FrameLen
           /\ s[i].proto = "FRAM 1" /\ s[i].len = PayloadLen /\ s[i].src = 1
<1>1. s[i] \in LinkByte
  <2> HIDE DEF LinkByte
  <2> QED OBVIOUS
<1>2. FrameLen \in Nat /\ MaxFrames \in Nat
  BY LengthAssumption, BoundsAssumption DEF FrameLen
<1>3. s[i].seq \in Frame
  BY <1>1 DEF LinkByte
<1>4. s[i].off \in 0 .. (FrameLen - 1)
  BY <1>1 DEF LinkByte
<1>5. s[i].proto = "FRAM 1" /\ s[i].len = PayloadLen /\ s[i].src = 1
  BY <1>1 DEF LinkByte
<1>6. s[i].seq \in Int
  BY <1>2, <1>3 DEF Frame
<1>7. s[i].off \in Int /\ 0 <= s[i].off /\ s[i].off < FrameLen
  BY <1>2, <1>4
<1> QED BY <1>1, <1>3, <1>5, <1>6, <1>7

\* No connection was opened yet, and no frame popped.
LEMMA InitLInv == LinkInit => LInv
<1> SUFFICES ASSUME LinkInit PROVE LInv
  OBVIOUS
<1>1. /\ cur = 0 /\ conn = 0 /\ backlog = <<>> /\ received = <<>> /\ hdr = <<>> /\ got = 0
      /\ stream = [c \in Conns |-> <<>>] /\ pos = [c \in Conns |-> 0]
      /\ ending = [c \in Conns |-> "none"] /\ srv_pc = "args"
      /\ frames_received = 0 /\ frames_saved = 0
  BY DEF LinkInit, Srv!Init, Srv!Conns, Srv!NoConn, NoConn, Conns
<1>2. net_pc = "new" /\ frames_sent_ = 0 /\ peer = "none" /\ last_frame = -1
  BY DEF LinkInit, Init, NoFrame
<1>3. LinkTypes
  <2>1. stream \in [Conns -> Seq(LinkByte)]
    <3>1. <<>> \in Seq(LinkByte)
      <4> HIDE DEF LinkByte
      <4> QED OBVIOUS
    <3> QED BY <1>1, <3>1
  <2>2. hdr \in Seq(LinkByte)
    <3> HIDE DEF LinkByte
    <3> QED BY <1>1
  <2>3. pos \in [Conns -> Nat] /\ ending \in [Conns -> {"none", "open", "closed", "reset"}]
    BY <1>1
  <2> QED BY <1>1, <2>1, <2>2, <2>3 DEF LinkTypes, NoConn
<1>4. Numbered
  <2>1. 0 \in 0 .. MaxConns /\ \A c \in Conns : ending[c] # "none" <=> c <= 0
    BY <1>1, ServerAssumption DEF Conns
  <2> QED BY <1>1, <1>2, <2>1 DEF Numbered, NoConn
<1>5. Waiting
  BY <1>1 DEF Waiting, Serving, NoConn
<1>6. StreamInv
  <2>1. Flow(<<>>)
    BY DEF Flow
  <2> QED BY <1>1, <1>2, <2>1 DEF StreamInv
<1>7. Position
  BY <1>1 DEF Position
<1>8. ReceivedInv
  BY <1>1 DEF ReceivedInv
<1>9. SentInv
  <2>1. Cardinality({}) = 0
    BY FS_EmptySet
  <2>2. SentWhole({})
    BY <1>1, <1>2, <2>1 DEF SentWhole, SentCount
  <2> QED BY <2>2 DEF SentInv
<1> QED BY <1>3, <1>4, <1>5, <1>6, <1>7, <1>8, <1>9 DEF LInv

-----------------------------------------------------------------------------
(* Steps of the client that put nothing into a stream.                     *)

\* The client works on its own, hangs up, or is stopped: the streams stay as they are.
LEMMA ClientKeeps ==
    ASSUME LInv, TypeOK, TypeOK',
           UNCHANGED <<srv_pc, conn, backlog, pos, hdr, got, frames_received, frames_saved,
                       stream, received>>,
           cur' \in {cur, NoConn},
           \/ ending' = ending
           \/ /\ cur \in Conns /\ ending[cur] = "open"
              /\ \E e \in {"closed", "reset"} : ending' = [ending EXCEPT ![cur] = e],
           peer' = "open" => peer = "open" /\ UNCHANGED <<wire, cur>>,
           last_frame' >= last_frame,
           net_pc' \in {"header", "payload"} =>
               \/ last_frame' > last_frame
               \/ net_pc \in {"header", "payload"} /\ cur' = cur,
           SentCount' = SentCount \/ SentInv'
    PROVE  LInv'
<1>a. LinkTypes /\ Numbered /\ Waiting /\ StreamInv /\ Position /\ ReceivedInv /\ SentInv
  BY DEF LInv
<1>b. last_frame \in Int /\ last_frame' \in Int
  BY BoundsAssumption DEF TypeOK, Frame, NoFrame
<1>c. /\ ending' \in [Conns -> {"none", "open", "closed", "reset"}]
      /\ \A c \in Conns : ending'[c] = "none" <=> ending[c] = "none"
  BY <1>a DEF LinkTypes
<1>d. \A c \in Conns : \A i \in 1 .. Len(stream[c]) : stream[c][i].seq \in Int
  BY <1>a, ByteFacts DEF LinkTypes
<1>1. LinkTypes'
  BY <1>a, <1>c DEF LinkTypes
<1>2. Numbered'
  <2>1. PICK n \in 0 .. MaxConns : /\ \A c \in Conns : ending[c] # "none" <=> c <= n
                                   /\ cur # NoConn => cur = n
    BY <1>a DEF Numbered
  <2>2. /\ \A c \in Conns : ending'[c] # "none" <=> c <= n
        /\ cur' # NoConn => cur' = n
    BY <1>c, <2>1
  <2>3. (\E m \in 0 .. MaxConns : /\ \A c \in Conns : ending[c] # "none" <=> c <= m
                                  /\ cur # NoConn => cur = m)'
    BY <2>2
  <2>4. (peer = "open" => cur # NoConn)'
    BY <1>a DEF Numbered
  <2>5. (\A c \in Conns : pos[c] <= Len(stream[c]) /\ (ending[c] = "none" => stream[c] = <<>>))'
    BY <1>a, <1>c DEF Numbered
  <2> QED BY <2>3, <2>4, <2>5 DEF Numbered
<1>3. Waiting'
  <2>1. \A i \in 1 .. Len(backlog) : backlog[i] \in Conns
    BY <1>a DEF LinkTypes
  <2>2. (conn # NoConn => ending[conn] # "none")'
    BY <1>a, <1>c DEF Waiting, LinkTypes
  <2>3. (\A i \in 1 .. Len(backlog) :
           ending[backlog[i]] # "none" /\ pos[backlog[i]] = 0 /\ conn < backlog[i])'
    BY <1>a, <1>c, <2>1 DEF Waiting
  <2> QED BY <1>a, <2>2, <2>3 DEF Waiting
<1>4. StreamInv'
  <2>1. \A c \in Conns : \A i \in 1 .. Len(stream[c]) :
           /\ stream[c][i].seq <= last_frame'
           /\ net_pc' \in {"header", "payload"} /\ c # cur' => stream[c][i].seq < last_frame'
    BY <1>a, <1>b, <1>d DEF StreamInv
  <2>2. (peer = "open" =>
           /\ Len(stream[cur]) = Len(wire)
           /\ \A i \in 1 .. Len(wire) : stream[cur][i] = Seen(wire[i]))'
    BY <1>a DEF StreamInv, Seen
  <2>3. (\A c \in Conns : Flow(stream[c]))'
    BY <1>a DEF StreamInv, Flow
  <2> QED BY <1>a, <2>1, <2>2, <2>3 DEF StreamInv
<1>5. Position'
  BY <1>a DEF Position, At
<1>6. ReceivedInv'
  BY <1>a DEF ReceivedInv
<1>7. SentInv'
  <2> SUFFICES ASSUME SentCount' = SentCount PROVE SentInv'
    OBVIOUS
  <2>1. PICK S \in SUBSET Frame : SentWhole(S)
    BY <1>a DEF SentInv
  <2>2. \A f \in S : f \in Int
    BY BoundsAssumption DEF Frame
  <2>3. \A f \in S : f <= last_frame' /\ (net_pc' \in {"header", "payload"} => f < last_frame')
    BY <1>b, <2>1, <2>2 DEF SentWhole
  <2>4. SentWhole(S)'
    BY <2>1, <2>3 DEF SentWhole
  <2> QED BY <2>4 DEF SentInv
<1> QED BY <1>1, <1>2, <1>3, <1>4, <1>5, <1>6, <1>7 DEF LInv

\* The steps of the client, and of the signals that end it, that put nothing into a stream.
LEMMA ClientQuiet ==
    ASSUME LInv, IInv, IInv',
           \/ ClientLocal \/ ClientHandshake \/ ClientHandshakeFails \/ ClientWriteFails
           \/ ClientExit \/ ClientStop \/ ClientKilled
    PROVE  LInv'
<1>a. TypeOK /\ TypeOK' /\ ConnInv
  BY DEF IInv
<1>b. last_frame \in Int /\ frames_sent_ \in Nat
  BY <1>a, BoundsAssumption DEF TypeOK, Frame, NoFrame
<1>c. cur \in Conns \cup {NoConn}
  BY DEF LInv, LinkTypes
<1>1. CASE ClientLocal \/ ClientHandshake \/ ClientStop
  <2>1. UNCHANGED <<srv_pc, conn, backlog, pos, hdr, got, frames_received, frames_saved,
                    stream, received, ending, cur>>
    BY <1>1 DEF ClientLocal, ClientHandshake, ClientStop, serverOnly, linkVars
  <2>2. CASE QueueStep
    <3>1. PICK f \in Frame : f > last_frame /\ PopFrame(f)
      BY <2>2 DEF QueueStep
    <3>2. /\ last_frame' = f /\ f > last_frame /\ f \in Int /\ UNCHANGED <<wire, peer, frames_sent_>>
          /\ net_pc = "pop" /\ net_pc' = "header"
      BY <3>1, BoundsAssumption DEF PopFrame, sysVars, statVars, Frame
    <3>3. SentCount' = SentCount
      BY <3>2 DEF SentCount
    <3>4. last_frame' >= last_frame /\ last_frame' > last_frame
      BY <1>b, <3>2
    <3> QED BY <1>a, <2>1, <3>2, <3>3, <3>4, ClientKeeps
  <2>3. CASE FrameSent
    <3>1. /\ net_pc = "sent" /\ net_pc' = "check" /\ frames_sent_' = frames_sent_ + 1
          /\ UNCHANGED <<wire, peer, last_frame>>
      BY <2>3 DEF FrameSent, sysVars, histVars
    <3>2. SentCount' = SentCount
      BY <1>b, <3>1 DEF SentCount
    <3>3. last_frame' >= last_frame
      BY <1>b, <3>1
    <3> QED BY <1>a, <2>1, <3>1, <3>2, <3>3, ClientKeeps
  <2>4. CASE ~QueueStep /\ ~FrameSent
    <3>1. ClientLocal =>
             /\ UNCHANGED <<wire, last_frame, frames_sent_>> /\ peer' \in {peer, "none"}
             /\ net_pc' \notin {"header", "payload", "sent"} /\ net_pc # "sent"
      BY <2>4
         DEF ClientLocal, InitializeFails, Initialize, StartLoop, LoopConnected, LoopConnect,
             Resolve, ResolveFails, OpenSocket, OpenSocketFails, AddressesExhausted, ConnectFails,
             SslNew, SslSetup, Backoff, PopNothing, DestroyJoined, Destroy, tlsDisconnect, statVars,
             sysVars, histVars
    <3>2. ClientHandshake =>
             /\ UNCHANGED <<wire, last_frame, frames_sent_, peer>>
             /\ net_pc' \notin {"header", "payload", "sent"} /\ net_pc # "sent"
      BY DEF ClientHandshake, SslConnect, statVars, sysVars
    <3>3. ClientStop => UNCHANGED <<wire, last_frame, frames_sent_, peer, net_pc>>
      BY DEF ClientStop, Stop, statVars, sysVars, histVars
    <3>4. /\ UNCHANGED <<wire, last_frame, frames_sent_>> /\ peer' \in {peer, "none"}
          /\ \/ net_pc' = net_pc
             \/ net_pc' \notin {"header", "payload", "sent"} /\ net_pc # "sent"
      BY <1>1, <3>1, <3>2, <3>3
    <3>5. SentCount' = SentCount
      BY <3>4 DEF SentCount
    <3>6. last_frame' >= last_frame
      BY <1>b, <3>4
    <3> QED BY <1>a, <2>1, <3>4, <3>5, <3>6, ClientKeeps
  <2> QED BY <2>2, <2>3, <2>4
<1>2. CASE ClientHandshakeFails \/ ClientWriteFails \/ ClientExit \/ ClientKilled
  <2>1. HangUp
    BY <1>2 DEF ClientHandshakeFails, ClientWriteFails, ClientExit, ClientKilled
  <2>2. /\ UNCHANGED <<srv_pc, conn, backlog, pos, hdr, got, frames_received, frames_saved,
                       stream, received>>
        /\ cur' = NoConn
    BY <2>1 DEF HangUp, serverOnly
  <2>3. \/ ending' = ending
        \/ /\ cur \in Conns /\ ending[cur] = "open"
           /\ \E e \in {"closed", "reset"} : ending' = [ending EXCEPT ![cur] = e]
    BY <1>c, <2>1 DEF HangUp
  <2>4. /\ peer' # "open" /\ UNCHANGED <<last_frame, frames_sent_>>
        /\ net_pc' \notin {"header", "payload", "sent"} /\ net_pc # "sent"
    BY <1>2 DEF ClientHandshakeFails, ClientWriteFails, ClientExit, ClientKilled, TlsConnectFails,
                WriteFails, LoopExit, Sigpipe, tlsDisconnect, statVars, sysVars, histVars
  <2>5. SentCount' = SentCount
    BY <2>4 DEF SentCount
  <2>6. last_frame' >= last_frame
    BY <1>b, <2>4
  <2> QED BY <1>a, <2>2, <2>3, <2>4, <2>5, <2>6, ClientKeeps
<1> QED BY <1>1, <1>2

-----------------------------------------------------------------------------
(* Connections are opened, written to and broken.                          *)

\* A new connection starts with an empty stream, behind all that wait.
LEMMA ConnectKeeps ==
    ASSUME LInv, IInv, IInv', ClientConnect
    PROVE  LInv'
<1>a. LinkTypes /\ Numbered /\ Waiting /\ StreamInv /\ Position /\ ReceivedInv /\ SentInv
  BY DEF LInv
<1>b. /\ net_pc = "connect" /\ net_pc' = "ssl_new" /\ peer' = "open" /\ wire' = <<>>
      /\ UNCHANGED <<last_frame, frames_sent_>>
  BY DEF ClientConnect, Connect, statVars, histVars
<1>c. PICK c \in Conns : Srv!ClientConnects(c, <<>>, "open") /\ cur' = c
  BY DEF ClientConnect, Srv!Conns, Conns
<1>d. /\ ending[c] = "none" /\ \A d \in Conns : d < c => ending[d] # "none"
      /\ backlog' = Append(backlog, c)
      /\ stream' = [stream EXCEPT ![c] = <<>>] /\ ending' = [ending EXCEPT ![c] = "open"]
      /\ UNCHANGED <<srv_pc, conn, hdr, got, pos, frames_received, frames_saved>>
  <2>1. ending[c] = "none" /\ \A d \in Conns : d < c => ending[d] # "none"
    BY <1>c DEF Srv!ClientConnects, Srv!Conns, Conns
  <2>2. backlog' = Append(backlog, c)
    BY <1>c, Zenon DEF Srv!ClientConnects
  <2>3. stream' = [stream EXCEPT ![c] = <<>>] /\ ending' = [ending EXCEPT ![c] = "open"]
    BY <1>c, Zenon DEF Srv!ClientConnects
  <2>4. UNCHANGED <<srv_pc, conn, hdr, got, pos, frames_received, frames_saved>>
    BY <1>c DEF Srv!ClientConnects, Srv!readVars, Srv!statVars
  <2> QED BY <2>1, <2>2, <2>3, <2>4
<1>e. received' = received
  BY DEF ClientConnect
<1>f. PICK n \in 0 .. MaxConns : /\ \A d \in Conns : ending[d] # "none" <=> d <= n
                                 /\ cur # NoConn => cur = n
  BY <1>a DEF Numbered
<1>g. c = n + 1 /\ n \in Nat /\ MaxConns \in Nat /\ c \in Nat
  <2>1. /\ n \in Nat /\ MaxConns \in Nat /\ c \in Nat
        /\ ~(c <= n) /\ (c > n + 1 => n + 1 \in Conns /\ n + 1 < c)
    BY <1>c, <1>d, <1>f, ServerAssumption DEF Conns
  <2>2. ~(c > n + 1)
    BY <1>d, <1>f, <2>1
  <2> QED BY <2>1, <2>2
<1>h. ending[c] = "none" /\ stream[c] = <<>> /\ pos[c] = 0
  <2>1. ending[c] = "none"
    BY <1>f, <1>g, <1>c DEF Conns
  <2>2. stream[c] = <<>> /\ pos[c] <= Len(stream[c])
    BY <1>a, <1>c, <2>1 DEF Numbered
  <2>3. pos[c] \in Nat
    BY <1>a, <1>c DEF LinkTypes
  <2> QED BY <2>1, <2>2, <2>3
<1>i. stream' = stream
  <2>1. stream \in [Conns -> Seq(LinkByte)]
    BY <1>a DEF LinkTypes
  <2>2. \A d \in Conns : [stream EXCEPT ![c] = <<>>][d] = stream[d]
    BY <1>h, <2>1
  <2>3. [stream EXCEPT ![c] = <<>>] \in [Conns -> Seq(LinkByte)]
    <3> HIDE DEF LinkByte
    <3> QED BY <2>1
  <2> QED BY <1>d, <2>1, <2>2, <2>3
<1>j. /\ Len(backlog) \in Nat /\ Len(backlog') = Len(backlog) + 1 /\ backlog' \in Seq(Conns)
      /\ \A i \in 1 .. Len(backlog) : backlog'[i] = backlog[i] /\ backlog[i] \in Conns
      /\ backlog'[Len(backlog) + 1] = c
      /\ \A i \in 1 .. Len(backlog') : i \in 1 .. Len(backlog) \/ i = Len(backlog) + 1
  BY <1>a, <1>c, <1>d DEF LinkTypes
<1>k. \A d \in Conns : ending'[d] = IF d = c THEN "open" ELSE ending[d]
  BY <1>a, <1>d DEF LinkTypes
<1>1. LinkTypes'
  <2>1. ending' \in [Conns -> {"none", "open", "closed", "reset"}]
    BY <1>a, <1>d DEF LinkTypes
  <2> QED BY <1>a, <1>c, <1>d, <1>e, <1>i, <1>j, <2>1 DEF LinkTypes
<1>2. Numbered'
  <2>1. n + 1 \in 0 .. MaxConns /\ cur' = n + 1
    BY <1>c, <1>g DEF Conns
  <2>2. \A d \in Conns : ending'[d] # "none" <=> d <= n + 1
    BY <1>f, <1>g, <1>k DEF Conns
  <2>3. (\E m \in 0 .. MaxConns : /\ \A d \in Conns : ending[d] # "none" <=> d <= m
                                  /\ cur # NoConn => cur = m)'
    BY <2>1, <2>2
  <2>4. (peer = "open" => cur # NoConn)'
    BY <1>c, <1>g DEF NoConn, Conns
  <2>5. (\A d \in Conns : pos[d] <= Len(stream[d]) /\ (ending[d] = "none" => stream[d] = <<>>))'
    BY <1>a, <1>d, <1>i, <1>k DEF Numbered
  <2> QED BY <2>3, <2>4, <2>5 DEF Numbered
<1>3. Waiting'
  <2>1. ASSUME NEW d \in Conns, ending[d] # "none" PROVE d < c /\ d # c /\ ending'[d] # "none"
    <3>1. d <= n /\ d \in Int
      BY <1>f, <2>1 DEF Conns
    <3> QED BY <1>g, <1>k, <2>1, <3>1
  <2>2. conn < c
    <3>1. CASE conn = NoConn
      BY <1>g, <3>1, <1>c DEF NoConn, Conns
    <3>2. CASE conn # NoConn
      BY <1>a, <2>1, <3>2 DEF LinkTypes, Waiting
    <3> QED BY <3>1, <3>2
  <2>3. (\A i \in 1 .. Len(backlog) :
           ending[backlog[i]] # "none" /\ pos[backlog[i]] = 0 /\ conn < backlog[i])'
    <3> SUFFICES ASSUME NEW i \in 1 .. Len(backlog')
                 PROVE  ending'[backlog'[i]] # "none" /\ pos'[backlog'[i]] = 0 /\ conn' < backlog'[i]
      OBVIOUS
    <3>1. CASE i \in 1 .. Len(backlog)
      BY <1>a, <1>d, <1>j, <2>1, <3>1 DEF Waiting
    <3>2. CASE i = Len(backlog) + 1
      BY <1>d, <1>h, <1>j, <1>k, <2>2, <3>2
    <3> QED BY <1>j, <3>1, <3>2
  <2>4. (\A i, j \in 1 .. Len(backlog) : i < j => backlog[i] < backlog[j])'
    <3> SUFFICES ASSUME NEW i \in 1 .. Len(backlog'), NEW j \in 1 .. Len(backlog'), i < j
                 PROVE  backlog'[i] < backlog'[j]
      OBVIOUS
    <3>1. i \in 1 .. Len(backlog)
      BY <1>j
    <3>2. CASE j \in 1 .. Len(backlog)
      BY <1>a, <1>j, <3>1, <3>2 DEF Waiting
    <3>3. CASE j = Len(backlog) + 1
      BY <1>a, <1>j, <2>1, <3>1, <3>3 DEF Waiting
    <3> QED BY <1>j, <3>2, <3>3
  <2>5. (srv_pc \in Serving => conn # NoConn)' /\ (conn # NoConn => ending[conn] # "none")'
    BY <1>a, <1>d, <2>1 DEF Waiting, LinkTypes
  <2> QED BY <2>3, <2>4, <2>5 DEF Waiting
<1>4. StreamInv'
  <2>1. \A d \in Conns : Flow(stream'[d])
    BY <1>a, <1>i DEF StreamInv
  <2>2. (peer = "open" =>
           /\ Len(stream[cur]) = Len(wire)
           /\ \A i \in 1 .. Len(wire) : stream[cur][i] = Seen(wire[i]))'
    BY <1>b, <1>c, <1>h, <1>i
  <2>3. (\A d \in Conns : \A i \in 1 .. Len(stream[d]) :
           /\ stream[d][i].seq <= last_frame
           /\ net_pc \in {"header", "payload"} /\ d # cur => stream[d][i].seq < last_frame)'
    BY <1>a, <1>b, <1>i DEF StreamInv
  <2>4. (\A d \in Conns : Flow(stream[d]))'
    BY <2>1 DEF Flow
  <2> QED BY <1>a, <1>i, <2>2, <2>3, <2>4 DEF StreamInv
<1>5. Position'
  BY <1>a, <1>d, <1>i DEF Position, At
<1>6. ReceivedInv'
  <2>1. \A k \in 1 .. Len(backlog') : \A i \in 1 .. Len(stream[backlog'[k]]) :
           \A r \in 1 .. Len(received) : received[r] < stream[backlog'[k]][i].seq
    <3> SUFFICES ASSUME NEW k \in 1 .. Len(backlog'), NEW i \in 1 .. Len(stream[backlog'[k]]),
                        NEW r \in 1 .. Len(received)
                 PROVE  received[r] < stream[backlog'[k]][i].seq
      OBVIOUS
    <3>1. k # Len(backlog) + 1
      <4>1. stream[c] = <<>> /\ Len(<<>>) = 0
        BY <1>h
      <4>2. k = Len(backlog) + 1 => i \in 1 .. 0
        BY <1>j, <4>1
      <4> QED BY <4>2
    <3>2. k \in 1 .. Len(backlog) /\ backlog'[k] = backlog[k]
      BY <1>j, <3>1
    <3> QED BY <1>a, <3>2 DEF ReceivedInv
  <2>2. (\A r \in 1 .. Len(received) :
           /\ conn # NoConn =>
                 \A i \in 1 .. Len(stream[conn]) :
                     i > pos[conn] => received[r] < stream[conn][i].seq
           /\ srv_pc = "header" /\ hdr # <<>> => received[r] < hdr[1].seq
           /\ srv_pc = "payload" => received[r] < hdr[1].seq)'
    BY <1>a, <1>d, <1>e, <1>i DEF ReceivedInv
  <2>3. (\A r \in 1 .. Len(received) :
           \A k \in 1 .. Len(backlog) : \A i \in 1 .. Len(stream[backlog[k]]) :
               received[r] < stream[backlog[k]][i].seq)'
    BY <1>e, <1>i, <2>1
  <2>4. (/\ \A i, j \in 1 .. Len(received) : i < j => received[i] < received[j]
         /\ frames_received = Len(received)
         /\ frames_saved \in Nat
         /\ frames_saved + (IF srv_pc \in {"open", "write"} THEN 1 ELSE 0) <= frames_received)'
    BY <1>a, <1>d, <1>e DEF ReceivedInv
  <2> QED BY <2>2, <2>3, <2>4 DEF ReceivedInv
<1>7. SentInv'
  <2>1. PICK S \in SUBSET Frame : SentWhole(S)
    BY <1>a DEF SentInv
  <2>2. SentWhole(S)'
    BY <1>b, <1>e, <1>i, <2>1 DEF SentWhole, SentCount
  <2> QED BY <2>2 DEF SentInv
<1> QED BY <1>1, <1>2, <1>3, <1>4, <1>5, <1>6, <1>7 DEF LInv

\* The stream of the client's connection changes behind what the server has read: by bytes
\* of the frame being sent, or because its end is lost.
LEMMA StreamKeeps ==
    ASSUME LInv, SentInv', TypeOK, cur \in Conns, NEW t \in Seq(LinkByte), Flow(t),
           stream' = [stream EXCEPT ![cur] = t],
           pos[cur] <= Len(t), \A i \in 1 .. pos[cur] : t[i] = stream[cur][i],
           \A i \in 1 .. Len(t) :
               \/ i \in 1 .. Len(stream[cur]) /\ t[i] = stream[cur][i]
               \/ t[i].seq = last_frame /\ net_pc \in {"header", "payload"},
           UNCHANGED <<srv_pc, conn, backlog, pos, hdr, got, frames_received, frames_saved,
                       received, cur, last_frame>>,
           ending' = ending \/ ending' = [ending EXCEPT ![cur] = "reset"],
           net_pc' \in {"header", "payload"} => net_pc \in {"header", "payload"},
           peer' = "open" => /\ peer = "open" /\ Len(t) = Len(wire')
                             /\ \A i \in 1 .. Len(wire') : t[i] = Seen(wire'[i])
    PROVE  LInv'
<1>a. LinkTypes /\ Numbered /\ Waiting /\ StreamInv /\ Position /\ ReceivedInv /\ SentInv
  BY DEF LInv
<1>b. last_frame \in Int /\ cur # NoConn
  BY BoundsAssumption DEF TypeOK, Frame, NoFrame, Conns, NoConn
<1>c. /\ stream'[cur] = t /\ \A c \in Conns : c # cur => stream'[c] = stream[c]
      /\ stream' \in [Conns -> Seq(LinkByte)]
  <2> HIDE DEF LinkByte
  <2> QED BY <1>a DEF LinkTypes
<1>d. PICK n \in 0 .. MaxConns : /\ \A c \in Conns : ending[c] # "none" <=> c <= n
                                 /\ cur # NoConn => cur = n
  BY <1>a DEF Numbered
<1>e. /\ cur = n /\ ending[cur] # "none" /\ cur \in Int
      /\ \A c \in Conns : c \in Int /\ (cur < c => stream[c] = <<>>)
  <2>1. cur = n /\ ending[cur] # "none" /\ cur \in Int
    BY <1>b, <1>d DEF Conns
  <2>2. \A c \in Conns : c \in Int /\ (cur < c => ending[c] = "none")
    BY <1>d, <2>1 DEF Conns
  <2> QED BY <1>a, <2>1, <2>2 DEF Numbered
<1>f. /\ ending' \in [Conns -> {"none", "open", "closed", "reset"}]
      /\ \A c \in Conns : ending'[c] = "none" <=> ending[c] = "none"
  BY <1>a, <1>e DEF LinkTypes
<1>g. /\ \A c \in Conns : \A i \in 1 .. Len(stream[c]) : stream[c][i].seq \in Int
      /\ \A i \in 1 .. Len(t) : t[i].seq \in Int
  BY <1>a, ByteFacts DEF LinkTypes
<1>h. \A c \in Conns : /\ pos[c] \in Nat /\ pos[c] <= Len(stream'[c])
                       /\ \A i \in 1 .. pos[c] : stream'[c][i] = stream[c][i]
  BY <1>a, <1>c DEF LinkTypes, Numbered
<1>i. \A r \in 1 .. Len(received) :
         received[r] \in Int /\ (net_pc \in {"header", "payload"} => received[r] < last_frame)
  <2>1. PICK S \in SUBSET Frame : SentWhole(S)
    BY <1>a DEF SentInv
  <2>2. \A r \in 1 .. Len(received) : received[r] \in S
    BY <2>1 DEF SentWhole
  <2>3. \A f \in S : f \in Int /\ (net_pc \in {"header", "payload"} => f < last_frame)
    BY <2>1, BoundsAssumption DEF SentWhole, Frame
  <2> QED BY <2>2, <2>3
<1>1. LinkTypes'
  BY <1>a, <1>c, <1>f DEF LinkTypes
<1>2. Numbered'
  <2>1. (\E m \in 0 .. MaxConns : /\ \A c \in Conns : ending[c] # "none" <=> c <= m
                                  /\ cur # NoConn => cur = m)'
    BY <1>d, <1>f
  <2>2. \A c \in Conns : ending'[c] = "none" => stream'[c] = <<>>
    BY <1>a, <1>c, <1>e, <1>f DEF Numbered
  <2>3. (peer = "open" => cur # NoConn)'
    BY <1>b
  <2> QED BY <1>h, <2>1, <2>2, <2>3 DEF Numbered
<1>3. Waiting'
  <2>1. \A i \in 1 .. Len(backlog) : backlog[i] \in Conns
    BY <1>a DEF LinkTypes
  <2>2. (conn # NoConn => ending[conn] # "none")'
    BY <1>a, <1>f DEF Waiting, LinkTypes
  <2>3. (\A i \in 1 .. Len(backlog) :
           ending[backlog[i]] # "none" /\ pos[backlog[i]] = 0 /\ conn < backlog[i])'
    BY <1>a, <1>f, <2>1 DEF Waiting
  <2> QED BY <1>a, <2>2, <2>3 DEF Waiting
<1>4. StreamInv'
  <2>1. \A c \in Conns : Flow(stream'[c])
    BY <1>a, <1>c DEF StreamInv
  <2>2. ASSUME NEW c \in Conns, NEW d \in Conns, c < d,
               NEW i \in 1 .. Len(stream'[c]), NEW j \in 1 .. Len(stream'[d])
        PROVE  stream'[c][i].seq < stream'[d][j].seq
    <3>1. CASE c # cur /\ d # cur
      BY <1>a, <1>c, <2>2, <3>1 DEF StreamInv
    <3>2. CASE d = cur
      <4>1. c # cur /\ c \in Conns /\ stream'[c] = stream[c] /\ stream'[d] = t
        BY <1>c, <1>e, <2>2, <3>2
      <4>2. CASE j \in 1 .. Len(stream[cur]) /\ t[j] = stream[cur][j]
        BY <1>a, <2>2, <3>2, <4>1, <4>2 DEF StreamInv
      <4>3. CASE t[j].seq = last_frame /\ net_pc \in {"header", "payload"}
        BY <1>a, <4>1, <4>3 DEF StreamInv
      <4> QED BY <4>1, <4>2, <4>3
    <3>3. CASE c = cur /\ d # cur
      <4>1. stream'[d] = <<>>
        BY <1>c, <1>e, <2>2, <3>3
      <4> QED BY <4>1
    <3> QED BY <3>1, <3>2, <3>3
  <2>3. ASSUME NEW c \in Conns, NEW i \in 1 .. Len(stream'[c])
        PROVE  /\ stream'[c][i].seq <= last_frame
               /\ net_pc' \in {"header", "payload"} /\ c # cur => stream'[c][i].seq < last_frame
    <3>1. CASE c # cur
      BY <1>a, <1>c, <3>1 DEF StreamInv
    <3>2. CASE c = cur
      BY <1>a, <1>b, <1>c, <3>2 DEF StreamInv
    <3> QED BY <3>1, <3>2
  <2>4. (peer = "open" =>
           /\ Len(stream[cur]) = Len(wire)
           /\ \A i \in 1 .. Len(wire) : stream[cur][i] = Seen(wire[i]))'
    BY <1>c DEF Seen
  <2>5. (\A c \in Conns : Flow(stream[c]))'
    BY <2>1 DEF Flow
  <2> QED BY <2>2, <2>3, <2>4, <2>5 DEF StreamInv
<1>5. Position'
  <2>1. conn \in Conns \cup {NoConn} /\ (srv_pc \in Serving => conn # NoConn)
    BY <1>a DEF LinkTypes, Waiting
  <2>2. ASSUME srv_pc \in Serving, NEW x, At(stream[conn], pos[conn], x)
        PROVE  At(stream'[conn], pos[conn], x)
    <3>1. conn \in Conns
      BY <2>1, <2>2
    <3>2. pos[conn] \in Nat /\ (pos[conn] # 0 => stream'[conn][pos[conn]] = stream[conn][pos[conn]])
      BY <1>h, <3>1
    <3> QED BY <2>2, <3>2 DEF At
  <2>3. srv_pc \in Serving /\ pos[conn] > 0 => stream'[conn][pos[conn]] = stream[conn][pos[conn]]
    BY <1>h, <2>1
  <2>4. {"handshake", "loop", "header", "payload", "open", "write"} \subseteq Serving
    BY DEF Serving
  <2>5. srv_pc = "header" => \A i \in 1 .. Len(hdr) : hdr[i].off = i - 1 /\ hdr[i].seq = hdr[1].seq
    BY <1>a DEF Position
  <2>6. srv_pc = "header" /\ hdr # <<>> => pos[conn] > 0
    <3>1. hdr # <<>> => Len(hdr) # 0
      BY <1>a DEF LinkTypes
    <3> QED BY <1>a, <3>1 DEF Position, At
  <2> HIDE DEF At
  <2>7. (srv_pc = "header" =>
          /\ Len(hdr) <= HeaderLen
          /\ At(stream[conn], pos[conn], Len(hdr))
          /\ \A i \in 1 .. Len(hdr) : hdr[i].off = i - 1 /\ hdr[i].seq = hdr[1].seq
          /\ hdr # <<>> => hdr[1].seq = stream[conn][pos[conn]].seq)'
    BY <1>a, <2>2, <2>3, <2>4, <2>5, <2>6 DEF Position
  <2>8. (srv_pc = "payload" =>
          /\ Len(hdr) = HeaderLen /\ got <= PayloadLen
          /\ At(stream[conn], pos[conn], IF got = PayloadLen THEN 0 ELSE HeaderLen + got)
          /\ pos[conn] > 0 /\ hdr[1].seq = stream[conn][pos[conn]].seq)'
    BY <1>a, <2>2, <2>3, <2>4 DEF Position
  <2>9. (/\ srv_pc = "handshake" => pos[conn] = 0
         /\ srv_pc \in {"loop", "open", "write"} => At(stream[conn], pos[conn], 0)
         /\ srv_pc \notin {"header", "payload", "open", "write"} => hdr = <<>>)'
    BY <1>a, <2>2, <2>4 DEF Position
  <2> QED BY <2>7, <2>8, <2>9 DEF Position
<1>6. ReceivedInv'
  <2>1. ASSUME NEW r \in 1 .. Len(received), NEW c \in Conns,
               NEW i \in 1 .. Len(stream'[c]),
               \A j \in 1 .. Len(stream[c]) : j > pos[c] => received[r] < stream[c][j].seq,
               i > pos[c]
        PROVE  received[r] < stream'[c][i].seq
    <3>1. CASE c # cur
      BY <1>c, <2>1, <3>1
    <3>2. CASE c = cur
      BY <1>c, <1>i, <2>1, <3>2
    <3> QED BY <3>1, <3>2
  <2>2. ASSUME NEW r \in 1 .. Len(received'), conn' # NoConn,
               NEW i \in 1 .. Len(stream'[conn']), i > pos'[conn']
        PROVE  received'[r] < stream'[conn'][i].seq
    <3>1. conn \in Conns /\ r \in 1 .. Len(received) /\ i > pos[conn] /\ i \in 1 .. Len(stream'[conn])
      BY <1>a, <2>2 DEF LinkTypes
    <3>2. \A j \in 1 .. Len(stream[conn]) : j > pos[conn] => received[r] < stream[conn][j].seq
      BY <1>a, <2>2, <3>1 DEF ReceivedInv
    <3>3. received[r] < stream'[conn][i].seq
      BY <2>1, <3>1, <3>2
    <3> QED BY <3>3
  <2>3. ASSUME NEW r \in 1 .. Len(received'), NEW k \in 1 .. Len(backlog'),
               NEW i \in 1 .. Len(stream'[backlog'[k]])
        PROVE  received'[r] < stream'[backlog'[k]][i].seq
    <3> DEFINE c == backlog[k]
    <3>1. c \in Conns /\ r \in 1 .. Len(received) /\ i \in 1 .. Len(stream'[c])
      BY <1>a DEF LinkTypes
    <3>2. pos[c] = 0 /\ \A j \in 1 .. Len(stream[c]) : received[r] < stream[c][j].seq
      BY <1>a, <3>1 DEF ReceivedInv, Waiting
    <3> HIDE DEF c
    <3>3. i > pos[c]
      BY <3>1, <3>2
    <3>4. received[r] < stream'[c][i].seq
      BY <2>1, <3>1, <3>2, <3>3
    <3> QED BY <3>4 DEF c
  <2>4. (/\ \A i, j \in 1 .. Len(received) : i < j => received[i] < received[j]
         /\ \A r \in 1 .. Len(received) :
               /\ srv_pc = "header" /\ hdr # <<>> => received[r] < hdr[1].seq
               /\ srv_pc = "payload" => received[r] < hdr[1].seq
         /\ frames_received = Len(received)
         /\ frames_saved \in Nat
         /\ frames_saved + (IF srv_pc \in {"open", "write"} THEN 1 ELSE 0) <= frames_received)'
    BY <1>a DEF ReceivedInv
  <2> QED BY <2>2, <2>3, <2>4 DEF ReceivedInv
<1> QED BY <1>1, <1>2, <1>3, <1>4, <1>5, <1>6 DEF LInv

\* A sequence whose bytes are the first ones of a flow of frames, as far as frame and
\* offset go, is a flow of frames.
LEMMA FlowCopies ==
    ASSUME NEW s, NEW t, Flow(s), Len(s) \in Nat, Len(t) \in Nat, Len(t) <= Len(s),
           \A i \in 1 .. Len(t) : t[i].seq = s[i].seq /\ t[i].off = s[i].off
    PROVE  Flow(t)
<1>1. ASSUME NEW i \in 1 .. Len(t), NEW j \in 1 .. Len(t)
      PROVE  /\ i \in 1 .. Len(s) /\ j \in 1 .. Len(s)
             /\ t[i].off = s[i].off /\ t[j].off = s[j].off
             /\ t[i].seq = s[i].seq /\ t[j].seq = s[j].seq
  OBVIOUS
<1>2. \A i, j \in 1 .. Len(t) : i <= j /\ t[i].off + (j - i) < FrameLen =>
          t[j].off = t[i].off + (j - i) /\ t[j].seq = t[i].seq
  BY <1>1 DEF Flow
<1>3. \A i, j \in 1 .. Len(t) : i <= j /\ t[i].off + (j - i) >= FrameLen => t[i].seq < t[j].seq
  BY <1>1 DEF Flow
<1>4. ASSUME NEW i \in 1 .. Len(t), i = 1 \/ t[i - 1].off = FrameLen - 1
      PROVE  t[i].off = 0
  <2>1. i \in 1 .. Len(s) /\ t[i].off = s[i].off
    BY <1>1
  <2>2. i # 1 => i - 1 \in 1 .. Len(t)
    OBVIOUS
  <2>3. i # 1 => t[i - 1].off = s[i - 1].off
    BY <1>1, <2>2
  <2> QED BY <1>4, <2>1, <2>3 DEF Flow
<1> QED BY <1>2, <1>3, <1>4 DEF Flow

\* What is left of a flow of frames when its end is lost is a flow of frames.
LEMMA PrefixFlows ==
    ASSUME NEW s \in Seq(LinkByte), Flow(s), NEW n \in 0 .. Len(s)
    PROVE  /\ Flow(SubSeq(s, 1, n)) /\ SubSeq(s, 1, n) \in Seq(LinkByte)
           /\ Len(SubSeq(s, 1, n)) = n
           /\ \A i \in 1 .. n : i \in 1 .. Len(s) /\ SubSeq(s, 1, n)[i] = s[i]
<1> DEFINE t == SubSeq(s, 1, n)
<1>1. /\ t \in Seq(LinkByte) /\ Len(t) = n /\ n \in Nat
      /\ \A i \in 1 .. n : i \in 1 .. Len(s) /\ t[i] = s[i]
  <2> HIDE DEF LinkByte
  <2> QED OBVIOUS
<1> HIDE DEF t
<1>2. Len(s) \in Nat /\ Len(t) \in Nat /\ Len(t) <= Len(s)
  BY <1>1
<1>3. Flow(t)
  BY <1>1, <1>2, FlowCopies
<1> QED BY <1>1, <1>3 DEF t

\* A connection breaks: both sides know no more of it than what the server has read.
LEMMA BreakKeeps ==
    ASSUME LInv, IInv, Break
    PROVE  LInv'
<1>a. LinkTypes /\ Numbered /\ StreamInv /\ SentInv /\ TypeOK
  BY DEF LInv, IInv
<1>1. /\ cur \in Conns /\ peer' = "gone"
      /\ UNCHANGED <<srv_pc, conn, backlog, pos, hdr, got, frames_received, frames_saved,
                     received, cur, last_frame, net_pc, frames_sent_>>
  BY <1>a DEF Break, PeerGone, LinkTypes, serverOnly, histVars, statVars
<1>2. PICK n \in pos[cur] .. Len(stream[cur]) :
         stream' = [stream EXCEPT ![cur] = SubSeq(stream[cur], 1, n)]
  BY DEF Break
<1>3. ending' = ending \/ ending' = [ending EXCEPT ![cur] = "reset"]
  BY DEF Break
<1> DEFINE s == stream[cur]
           t == SubSeq(s, 1, n)
<1>4. s \in Seq(LinkByte) /\ Flow(s) /\ pos[cur] \in Nat /\ pos[cur] <= n /\ n \in 0 .. Len(s)
  BY <1>a, <1>1, <1>2 DEF LinkTypes, StreamInv
<1>5. /\ Flow(t) /\ t \in Seq(LinkByte) /\ Len(t) = n
      /\ \A i \in 1 .. n : i \in 1 .. Len(s) /\ t[i] = s[i]
  <2> HIDE DEF s
  <2> QED BY <1>4, PrefixFlows
<1>6. stream' = [stream EXCEPT ![cur] = t]
  BY <1>2
<1> HIDE DEF t
<1>7. SentInv'
  <2>1. PICK S \in SUBSET Frame : SentWhole(S)
    BY <1>a DEF SentInv
  <2>2. ASSUME NEW c \in Conns, NEW i \in 1 .. Len(stream'[c]), stream'[c][i].off = FrameLen - 1
        PROVE  stream'[c][i].seq \in S
    <3>1. stream'[c] = IF c = cur THEN t ELSE stream[c]
      BY <1>a, <1>6 DEF LinkTypes
    <3>2. i \in 1 .. Len(stream[c]) /\ stream'[c][i] = stream[c][i]
      BY <1>5, <2>2, <3>1
    <3> QED BY <2>1, <2>2, <3>2 DEF SentWhole
  <2>3. SentWhole(S)'
    BY <1>1, <2>1, <2>2 DEF SentWhole, SentCount
  <2> QED BY <2>3 DEF SentInv
<1>8. /\ pos[cur] <= Len(t) /\ \A i \in 1 .. pos[cur] : t[i] = stream[cur][i]
      /\ \A i \in 1 .. Len(t) : i \in 1 .. Len(stream[cur]) /\ t[i] = stream[cur][i]
  BY <1>4, <1>5
<1> QED BY <1>a, <1>1, <1>3, <1>5, <1>6, <1>7, <1>8, StreamKeeps

\* More bytes arrive behind those of a stream.
LEMMA ConcatStream ==
    ASSUME NEW s \in Seq(LinkByte), NEW b \in Seq(LinkByte)
    PROVE  /\ s \o b \in Seq(LinkByte) /\ Len(s \o b) = Len(s) + Len(b)
           /\ \A i \in 1 .. Len(s) : (s \o b)[i] = s[i]
           /\ \A i \in 1 .. Len(b) : (s \o b)[Len(s) + i] = b[i]
OBVIOUS

\* As the server sees it, a flow of frames is one.
LEMMA SeenFlows ==
    ASSUME NEW v \in Seq(WireByte), Flow(v), NEW t \in Seq(LinkByte), Len(t) = Len(v),
           \A i \in 1 .. Len(v) : t[i] = Seen(v[i])
    PROVE  /\ Flow(t)
           /\ \A i \in 1 .. Len(v) : t[i].seq = v[i].seq /\ t[i].off = v[i].off
<1>1. \A i \in 1 .. Len(v) : v[i] \in WireByte
  OBVIOUS
<1>2. \A x \in WireByte : Seen(x).seq = x.seq /\ Seen(x).off = x.off
  BY DEF Seen, WireByte
<1>3. \A i \in 1 .. Len(v) : t[i].seq = v[i].seq /\ t[i].off = v[i].off
  BY <1>1, <1>2
<1>4. Len(v) \in Nat /\ Len(t) \in Nat /\ Len(t) <= Len(v)
  OBVIOUS
<1> QED BY <1>3, <1>4, FlowCopies

\* What was written arrives: all of the wire is in the stream.
LEMMA SeenAppended ==
    ASSUME NEW s \in Seq(LinkByte), NEW w \in Seq(WireByte), NEW v \in Seq(WireByte), Flow(v),
           Len(s) = Len(w), \A i \in 1 .. Len(w) : s[i] = Seen(w[i]),
           Len(w) <= Len(v), \A i \in 1 .. Len(w) : v[i] = w[i],
           NEW t \in Seq(LinkByte), Len(t) = Len(v), \A i \in 1 .. Len(s) : t[i] = s[i],
           \A i \in 1 .. (Len(v) - Len(w)) : t[Len(w) + i] = Seen(v[Len(w) + i])
    PROVE  /\ Flow(t)
           /\ \A i \in 1 .. Len(v) : t[i] = Seen(v[i]) /\ t[i].seq = v[i].seq /\ t[i].off = v[i].off
<1>1. ASSUME NEW i \in 1 .. Len(v) PROVE t[i] = Seen(v[i])
  <2>1. CASE i <= Len(w)
    BY <2>1
  <2>2. CASE i > Len(w)
    <3> DEFINE j == i - Len(w)
    <3>1. j \in 1 .. (Len(v) - Len(w)) /\ i = Len(w) + j
      BY <2>2
    <3> HIDE DEF j
    <3> QED BY <3>1
  <2> QED BY <2>1, <2>2
<1> QED BY <1>1, SeenFlows

\* m bytes are a sequence.
LEMMA BytesInSeq ==
    ASSUME NEW m \in Nat, NEW b \in [1 .. m -> LinkByte]
    PROVE  b \in Seq(LinkByte) /\ Len(b) = m
OBVIOUS

\* The bytes that arrive with a step of the client that extends the wire from w to v.
LEMMA SeenBytes ==
    ASSUME NEW w \in Seq(WireByte), NEW v \in Seq(WireByte), Len(w) <= Len(v),
           NEW b, b = [i \in 1 .. (Len(v) - Len(w)) |-> Seen(v[Len(w) + i])]
    PROVE  /\ b \in Seq(LinkByte) /\ Len(b) = Len(v) - Len(w)
           /\ \A i \in 1 .. (Len(v) - Len(w)) : b[i] = Seen(v[Len(w) + i])
<1> DEFINE m == Len(v) - Len(w)
<1>1. \A i \in 1 .. Len(v) : v[i] \in WireByte
  OBVIOUS
<1>2. \A x \in WireByte : Seen(x) \in LinkByte
  BY DEF Seen, LinkByte, WireByte
<1>3. m \in Nat /\ Len(w) \in Nat /\ \A i \in 1 .. m : Len(w) + i \in 1 .. Len(v)
  OBVIOUS
<1>4. \A i \in 1 .. m : Seen(v[Len(w) + i]) \in LinkByte
  BY <1>1, <1>2, <1>3
<1>5. b \in [1 .. m -> LinkByte]
  BY <1>4
<1>6. \A i \in 1 .. m : b[i] = Seen(v[Len(w) + i])
  OBVIOUS
<1> HIDE DEF m
<1>7. b \in Seq(LinkByte) /\ Len(b) = m
  BY <1>3, <1>5, BytesInSeq, Zenon
<1> QED BY <1>6, <1>7 DEF m

\* SSL_write() takes n bytes of the frame; when they are the last ones, one more frame
\* was sent whole.
LEMMA WriteFacts ==
    ASSUME IInv, WireInv, ClientWrite
    PROVE  /\ net_pc \in {"header", "payload"} /\ peer # "none"
           /\ peer' = "open" <=> peer = "open"
           /\ UNCHANGED <<last_frame, frames_sent_, srv_pc, conn, backlog, pos, hdr, got,
                          frames_received, frames_saved, received, cur, ending>>
           /\ \E n \in 1 .. remaining :
                 /\ wire' = wire \o Bytes(pkt, Written, n)
                 /\ \/ net_pc' \in {"header", "payload"} /\ Written + n < FrameLen
                    \/ net_pc' = "sent"
<1>1. remaining \in Nat /\ Written \in Nat /\ FrameLen \in Nat
  BY WrittenSoFar, LengthAssumption DEF ClientWrite, WriteSome, WriteRest, FrameLen
<1>2. /\ net_pc \in {"header", "payload"}
      /\ peer' = "open" <=> peer = "open"
      /\ UNCHANGED <<last_frame, frames_sent_, srv_pc, conn, backlog, pos, hdr, got,
                     frames_received, frames_saved, received, cur, ending>>
  BY DEF ClientWrite, WriteSome, WriteRest, Answer, histVars, statVars, serverOnly, linkVars
<1>3. peer # "none"
  BY <1>2 DEF IInv, ConnInv, Established
<1>4. CASE WriteSome
  <2>1. PICK n \in 1 .. (remaining - 1) : wire' = wire \o Bytes(pkt, Written, n)
    BY <1>4 DEF WriteSome
  <2>2. n \in 1 .. remaining /\ Written + n < FrameLen
    BY <1>1, <1>2, <2>1, WrittenSoFar
  <2>3. net_pc' \in {"header", "payload"}
    BY <1>2, <1>4 DEF WriteSome
  <2> QED BY <1>2, <1>3, <2>1, <2>2, <2>3
<1>5. CASE WriteRest
  <2>1. wire' = wire \o Bytes(pkt, Written, remaining) /\ remaining \in 1 .. remaining
    BY <1>1, <1>2, <1>5, WrittenSoFar DEF WriteRest
  <2>2. (net_pc' = "payload" /\ Written + remaining < FrameLen) \/ net_pc' = "sent"
    BY <1>2, <1>5, WrittenSoFar DEF WriteRest
  <2> QED BY <1>2, <1>3, <2>1, <2>2
<1> QED BY <1>4, <1>5 DEF ClientWrite

\* A frame is counted as sent when its last byte was written, and it was not before.
LEMMA WriteSent ==
    ASSUME LInv, IInv, WireInv, ClientWrite,
           \A c \in Conns : \A i \in 1 .. Len(stream'[c]) :
               stream'[c][i].off = FrameLen - 1 =>
                   \/ i \in 1 .. Len(stream[c]) /\ stream'[c][i] = stream[c][i]
                   \/ net_pc' = "sent" /\ stream'[c][i].seq = pkt
    PROVE  SentInv'
<1>1. /\ net_pc \in {"header", "payload"} /\ net_pc' \in {"header", "payload", "sent"}
      /\ UNCHANGED <<last_frame, frames_sent_, received>>
  BY WriteFacts
<1>2. PICK S \in SUBSET Frame : SentWhole(S)
  BY DEF LInv, SentInv
<1>3. pkt \in Frame /\ pkt = last_frame /\ frames_sent_ \in Nat /\ MaxFrames \in Nat
  BY <1>1, WrittenSoFar, BoundsAssumption DEF IInv, TypeOK
<1>4. \A f \in S : f < last_frame /\ f \in Int
  BY <1>1, <1>2, <1>3 DEF SentWhole, Frame
<1>5. CASE net_pc' # "sent"
  <2>1. SentCount' = SentCount
    BY <1>1, <1>5 DEF SentCount
  <2>2. SentWhole(S)'
    BY <1>1, <1>2, <1>5, <2>1 DEF SentWhole
  <2> QED BY <2>2 DEF SentInv
<1>6. CASE net_pc' = "sent"
  <2>0. PICK f \in Frame : f = pkt
    BY <1>3
  <2> DEFINE R == S \cup {f}
  <2>1. SentCount' = SentCount + 1 /\ SentCount = frames_sent_
    BY <1>1, <1>3, <1>6 DEF SentCount
  <2>2. IsFiniteSet(S)
    <3>1. IsFiniteSet(Frame)
      BY <1>3, FS_Interval DEF Frame
    <3> QED BY <3>1, FS_Subset
  <2>3. f \notin S
    BY <1>3, <1>4, <2>0
  <2>4. Cardinality(R) = Cardinality(S) + 1
    BY <2>2, <2>3, FS_AddElement
  <2>5. Cardinality(R) = SentCount'
    BY <1>2, <2>1, <2>4 DEF SentWhole
  <2>6. R \in SUBSET Frame /\ \A g \in R : g <= last_frame
    BY <1>3, <1>4, <2>0 DEF Frame
  <2>7. \A c \in Conns : \A i \in 1 .. Len(stream'[c]) :
           stream'[c][i].off = FrameLen - 1 => stream'[c][i].seq \in R
    BY <1>2, <2>0 DEF SentWhole
  <2>8. \A r \in 1 .. Len(received) : received[r] \in R
    BY <1>2 DEF SentWhole
  <2> HIDE DEF R
  <2>9. SentWhole(R)'
    BY <1>1, <1>6, <2>5, <2>6, <2>7, <2>8 DEF SentWhole
  <2> QED BY <2>6, <2>9 DEF SentInv
<1> QED BY <1>5, <1>6

\* The client writes on its connection: the bytes arrive, or nobody is there.
LEMMA WriteKeeps ==
    ASSUME LInv, IInv, WireInv, IInv', Flow(wire'), ClientWrite
    PROVE  LInv'
<1>a. LinkTypes /\ Numbered /\ StreamInv /\ TypeOK /\ TypeOK'
  BY DEF LInv, IInv
<1>b. /\ net_pc \in {"header", "payload"}
      /\ peer' = "open" <=> peer = "open"
      /\ UNCHANGED <<last_frame, frames_sent_, srv_pc, conn, backlog, pos, hdr, got,
                     frames_received, frames_saved, received, cur, ending>>
  BY WriteFacts
<1>c. last_frame' >= last_frame
  BY <1>a, <1>b, BoundsAssumption DEF TypeOK, Frame, NoFrame
<1>1. CASE peer # "open"
  <2>1. stream' = stream
    BY <1>1 DEF ClientWrite
  <2>2. SentInv'
    BY <2>1, WriteSent
  <2> QED BY <1>a, <1>b, <1>c, <1>1, <2>1, <2>2, ClientKeeps
<1>2. CASE peer = "open"
  <2>1. PICK n \in 1 .. remaining :
           /\ wire' = wire \o Bytes(pkt, Written, n)
           /\ \/ net_pc' \in {"header", "payload"} /\ Written + n < FrameLen
              \/ net_pc' = "sent"
    BY WriteFacts
  <2>2. pkt \in Frame /\ pkt = last_frame /\ Written \in Nat /\ remaining \in Nat
    BY <1>b, WrittenSoFar
  <2> DEFINE w == wire
             v == wire'
             s == stream[cur]
             b == [i \in 1 .. (Len(v) - Len(w)) |-> Seen(v[Len(w) + i])]
             t == s \o b
             p == Bytes(pkt, Written, n)
             Piece == [seq : Frame, off : Nat]
  <2>3. w \in Seq(WireByte) /\ v \in Seq(WireByte) /\ Flow(v)
    BY <1>a DEF TypeOK, WireByte
  <2>4. /\ cur \in Conns /\ s \in Seq(LinkByte) /\ Len(s) = Len(w)
        /\ \A i \in 1 .. Len(w) : s[i] = Seen(w[i])
    BY <1>a, <1>2 DEF Numbered, LinkTypes, StreamInv
  <2>5. stream' = [stream EXCEPT ![cur] = t]
    BY <1>2 DEF ClientWrite
  <2>6. /\ Len(p) = n /\ n \in Nat /\ p \in Seq(Piece)
        /\ \A j \in 1 .. n : p[j].seq = pkt /\ p[j].off = Written + j - 1
    BY <2>2 DEF Bytes
  <2> HIDE DEF w, s, b, t, p, Piece
  <2>7. /\ Len(w) \in Nat /\ Len(v) = Len(w) + n
        /\ \A i \in 1 .. Len(w) : v[i] = w[i]
        /\ \A j \in 1 .. n : v[Len(w) + j] = p[j]
    <3>1. v = w \o p
      BY <2>1 DEF w, p
    <3>2. w \in Seq(WireByte) /\ p \in Seq(Piece) /\ Len(p) = n
      BY <2>3, <2>6
    <3>3. /\ Len(w) \in Nat /\ Len(w \o p) = Len(w) + Len(p)
          /\ \A i \in 1 .. Len(w) : (w \o p)[i] = w[i]
          /\ \A j \in 1 .. Len(p) : (w \o p)[Len(w) + j] = p[j]
      BY <3>2, ConcatFacts
    <3> QED BY <3>1, <3>2, <3>3
  <2>8. Len(w) <= Len(v) /\ Len(v) - Len(w) = n
    BY <2>6, <2>7
  <2>9. b \in Seq(LinkByte) /\ Len(b) = n /\ \A i \in 1 .. n : b[i] = Seen(v[Len(w) + i])
    BY <2>3, <2>8, SeenBytes DEF b
  <2>10. /\ t \in Seq(LinkByte) /\ Len(t) = Len(v)
         /\ \A i \in 1 .. Len(s) : t[i] = s[i]
         /\ \A i \in 1 .. n : t[Len(w) + i] = Seen(v[Len(w) + i])
    <3>1. s \in Seq(LinkByte) /\ b \in Seq(LinkByte)
      BY <2>4, <2>9
    <3>2. /\ s \o b \in Seq(LinkByte) /\ Len(s \o b) = Len(s) + Len(b)
          /\ \A i \in 1 .. Len(s) : (s \o b)[i] = s[i]
          /\ \A i \in 1 .. Len(b) : (s \o b)[Len(s) + i] = b[i]
      BY <3>1, ConcatStream
    <3> QED BY <2>4, <2>7, <2>9, <3>2 DEF t
  <2>11. /\ Flow(t)
         /\ \A i \in 1 .. Len(v) : t[i] = Seen(v[i]) /\ t[i].seq = v[i].seq /\ t[i].off = v[i].off
    BY <2>3, <2>4, <2>7, <2>8, <2>10, SeenAppended
  <2>12. ASSUME NEW i \in 1 .. Len(t)
         PROVE  \/ i \in 1 .. Len(s) /\ t[i] = s[i]
                \/ t[i].seq = pkt /\ t[i].off < Written + n
    <3>1. CASE i <= Len(s)
      BY <2>4, <2>7, <2>10, <3>1
    <3>2. CASE i > Len(s)
      <4> DEFINE j == i - Len(w)
      <4>1. j \in 1 .. n /\ i = Len(w) + j /\ i \in 1 .. Len(v)
        BY <2>4, <2>7, <2>10, <3>2
      <4> HIDE DEF j
      <4>2. t[i].seq = p[j].seq /\ t[i].off = p[j].off
        BY <2>7, <2>11, <4>1
      <4>3. t[i].seq = pkt /\ t[i].off = Written + j - 1
        BY <2>6, <4>1, <4>2
      <4> QED BY <2>2, <2>6, <4>1, <4>3
    <3> QED BY <2>4, <2>7, <3>1, <3>2
  <2>13. SentInv'
    <3>1. ASSUME NEW c \in Conns, NEW i \in 1 .. Len(stream'[c]),
                 stream'[c][i].off = FrameLen - 1
          PROVE  \/ i \in 1 .. Len(stream[c]) /\ stream'[c][i] = stream[c][i]
                 \/ net_pc' = "sent" /\ stream'[c][i].seq = pkt
      <4>1. stream'[c] = IF c = cur THEN t ELSE stream[c]
        BY <1>a, <2>5 DEF LinkTypes
      <4>2. CASE c # cur
        BY <4>1, <4>2
      <4>3. CASE c = cur
        <5>1. Written + n < FrameLen /\ t[i].off = FrameLen - 1 => ~(t[i].off < Written + n)
          BY <2>2, <2>6, LengthAssumption DEF FrameLen
        <5> QED BY <2>1, <2>12, <3>1, <4>1, <4>3, <5>1 DEF s
      <4> QED BY <4>2, <4>3
    <3> QED BY <3>1, WriteSent
  <2>14. pos[cur] <= Len(t) /\ \A i \in 1 .. pos[cur] : t[i] = stream[cur][i]
    <3>1. pos[cur] \in Nat /\ pos[cur] <= Len(s)
      BY <1>a, <2>4 DEF Numbered, LinkTypes, s
    <3> QED BY <2>4, <2>7, <2>10, <3>1 DEF s
  <2>15. \A i \in 1 .. Len(t) :
            \/ i \in 1 .. Len(stream[cur]) /\ t[i] = stream[cur][i]
            \/ t[i].seq = last_frame /\ net_pc \in {"header", "payload"}
    BY <1>b, <2>2, <2>12 DEF s
  <2>16. /\ peer = "open" /\ Len(t) = Len(wire')
         /\ \A i \in 1 .. Len(wire') : t[i] = Seen(wire'[i])
    BY <1>2, <2>10, <2>11
  <2> QED BY <1>a, <1>b, <2>4, <2>5, <2>10, <2>11, <2>13, <2>14, <2>15, <2>16, StreamKeeps
<1> QED BY <1>b, <1>1, <1>2

-----------------------------------------------------------------------------
(* Steps of the server.                                                    *)

\* The server puts nothing into a stream, and what it counts has arrived whole.
LEMMA ServerKeeps ==
    ASSUME LInv, ServerSide, UNCHANGED <<stream, ending>>,
           LinkTypes', Waiting', Position', ReceivedInv',
           \A c \in Conns : pos'[c] <= Len(stream[c]),
           \A r \in 1 .. Len(received') :
               \/ \E q \in 1 .. Len(received) : received'[r] = received[q]
               \/ \E c \in Conns : \E i \in 1 .. Len(stream[c]) :
                     stream[c][i].off = FrameLen - 1 /\ received'[r] = stream[c][i].seq
    PROVE  LInv'
<1>a. Numbered /\ StreamInv /\ SentInv
  BY DEF LInv
<1>b. /\ UNCHANGED <<cur, net_pc, last_frame, wire, frames_sent_>>
      /\ peer' = "open" => peer = "open"
  BY DEF ServerSide, clientOnly, linkVars
<1>1. Numbered'
  BY <1>a, <1>b DEF Numbered
<1>2. StreamInv'
  <2>1. (\A c \in Conns : Flow(stream[c]))'
    BY <1>a DEF StreamInv, Flow
  <2>2. (\A c \in Conns : \A i \in 1 .. Len(stream[c]) :
           /\ stream[c][i].seq <= last_frame
           /\ net_pc \in {"header", "payload"} /\ c # cur => stream[c][i].seq < last_frame)'
    BY <1>a, <1>b DEF StreamInv
  <2>3. (peer = "open" =>
           /\ Len(stream[cur]) = Len(wire)
           /\ \A i \in 1 .. Len(wire) : stream[cur][i] = Seen(wire[i]))'
    BY <1>a, <1>b DEF StreamInv, Seen
  <2> QED BY <1>a, <2>1, <2>2, <2>3 DEF StreamInv
<1>3. SentInv'
  <2>1. PICK S \in SUBSET Frame : SentWhole(S)
    BY <1>a DEF SentInv
  <2>2. \A r \in 1 .. Len(received') : received'[r] \in S
    BY <2>1 DEF SentWhole
  <2>3. SentWhole(S)'
    BY <1>b, <2>1, <2>2 DEF SentWhole, SentCount
  <2> QED BY <2>3 DEF SentInv
<1> QED BY <1>1, <1>2, <1>3 DEF LInv

\* The server goes from one place to another, or is told to stop, and reads nothing.
LEMMA ServerRests ==
    ASSUME LInv, ServerSide, got' \in Nat,
           UNCHANGED <<stream, ending, conn, backlog, pos, hdr, frames_received, frames_saved,
                       received>>,
           \/ srv_pc' = srv_pc /\ (got' = got \/ srv_pc # "payload")
           \/ srv_pc = "handshake" /\ srv_pc' = "loop"
           \/ srv_pc = "loop" /\ srv_pc' = "header"
           \/ srv_pc = "open" /\ srv_pc' = "write"
    PROVE  LInv'
<1>a. LinkTypes /\ Numbered /\ Waiting /\ Position /\ ReceivedInv
  BY DEF LInv
<1>d. UNCHANGED cur
  BY DEF ServerSide, linkVars
<1>1. LinkTypes'
  BY <1>a, <1>d DEF LinkTypes
<1>2. Waiting'
  BY <1>a DEF Waiting, Serving
<1>3. hdr \in Seq(LinkByte) /\ (hdr = <<>> => Len(hdr) = 0) /\ 0 <= HeaderLen
  BY <1>a, LengthAssumption DEF LinkTypes
<1>4. Position'
  <2>1. CASE srv_pc' = srv_pc
    BY <1>a, <2>1 DEF Position, At
  <2>2. CASE srv_pc = "handshake" /\ srv_pc' = "loop"
    BY <1>a, <2>2 DEF Position, At
  <2>3. CASE srv_pc = "loop" /\ srv_pc' = "header"
    BY <1>a, <1>3, <2>3 DEF Position, At
  <2>4. CASE srv_pc = "open" /\ srv_pc' = "write"
    BY <1>a, <2>4 DEF Position, At
  <2> QED BY <2>1, <2>2, <2>3, <2>4
<1>5. ReceivedInv'
  <2>1. srv_pc' = "header" /\ hdr # <<>> => srv_pc = "header"
    BY <1>a DEF Position
  <2>2. /\ srv_pc' = "payload" => srv_pc = "payload"
        /\ srv_pc' \in {"open", "write"} <=> srv_pc \in {"open", "write"}
    OBVIOUS
  <2> QED BY <1>a, <2>1, <2>2 DEF ReceivedInv
<1>6. \A c \in Conns : pos'[c] <= Len(stream[c])
  BY <1>a DEF Numbered
<1> QED BY <1>1, <1>2, <1>4, <1>5, <1>6, ServerKeeps

\* The server has no connection, or closes the one it has; when it ends, the kernel drops
\* the others.
LEMMA ServerCloses ==
    ASSUME LInv, ServerSide,
           UNCHANGED <<stream, ending, pos, hdr, got, frames_received, frames_saved, received>>,
           conn' \in {conn, NoConn}, backlog' \in {backlog, <<>>},
           srv_pc \notin {"header", "payload", "open", "write"}, srv_pc' \notin Serving
    PROVE  LInv'
<1>a. LinkTypes /\ Numbered /\ Waiting /\ Position /\ ReceivedInv
  BY DEF LInv
<1>d. UNCHANGED cur
  BY DEF ServerSide, linkVars
<1>1. LinkTypes'
  <2>1. backlog' \in Seq(Conns)
    <3>1. backlog \in Seq(Conns) /\ <<>> \in Seq(Conns)
      BY <1>a DEF LinkTypes
    <3> QED BY <3>1
  <2> QED BY <1>a, <1>d, <2>1 DEF LinkTypes
<1>2. Waiting'
  <2>1. \A i \in 1 .. Len(backlog) : backlog[i] \in Conns /\ NoConn < backlog[i]
    <3>1. \A i \in 1 .. Len(backlog) : backlog[i] \in Conns
      BY <1>a DEF LinkTypes
    <3>2. \A c \in Conns : NoConn < c
      BY ServerAssumption DEF Conns, NoConn
    <3> QED BY <3>1, <3>2
  <2>2. CASE backlog' = backlog
    BY <1>a, <2>1, <2>2 DEF Waiting
  <2>3. CASE backlog' = <<>>
    BY <1>a, <2>3 DEF Waiting
  <2> QED BY <2>2, <2>3
<1>3. Position'
  BY <1>a DEF Position, Serving
<1>4. ReceivedInv'
  <2>1. srv_pc' \notin {"header", "payload", "open", "write"}
    BY DEF Serving
  <2>2. (\A r \in 1 .. Len(received) :
            conn # NoConn =>
                \A i \in 1 .. Len(stream[conn]) :
                    i > pos[conn] => received[r] < stream[conn][i].seq)'
    BY <1>a DEF ReceivedInv
  <2>3. (\A r \in 1 .. Len(received) : \A k \in 1 .. Len(backlog) :
            \A i \in 1 .. Len(stream[backlog[k]]) : received[r] < stream[backlog[k]][i].seq)'
    BY <1>a DEF ReceivedInv
  <2> QED BY <1>a, <2>1, <2>2, <2>3 DEF ReceivedInv
<1>5. \A c \in Conns : pos'[c] <= Len(stream[c])
  BY <1>a DEF Numbered
<1> QED BY <1>1, <1>2, <1>3, <1>4, <1>5, ServerKeeps

\* handleClient() ends, or the turn of its loop does: the header is forgotten.
LEMMA ServerForgets ==
    ASSUME LInv, ServerSide, hdr' = <<>>, got' \in Nat,
           UNCHANGED <<stream, ending, conn, backlog, pos, frames_received, received>>,
           \/ /\ srv_pc \in {"loop", "header", "payload"} /\ srv_pc' = "cleanup"
              /\ frames_saved' = frames_saved
           \/ /\ srv_pc \in {"open", "write"} /\ srv_pc' = "loop"
              /\ frames_saved' \in {frames_saved, frames_saved + 1}
    PROVE  LInv'
<1>a. LinkTypes /\ Numbered /\ Waiting /\ Position /\ ReceivedInv
  BY DEF LInv
<1>d. UNCHANGED cur
  BY DEF ServerSide, linkVars
<1>1. LinkTypes'
  <2>1. hdr' \in Seq(LinkByte)
    <3> HIDE DEF LinkByte
    <3> QED OBVIOUS
  <2> QED BY <1>a, <1>d, <2>1 DEF LinkTypes
<1>2. Waiting'
  BY <1>a DEF Waiting, Serving
<1>3. Position'
  BY <1>a DEF Position, At
<1>4. ReceivedInv'
  <2>1. srv_pc' \notin {"header", "payload", "open", "write"}
    OBVIOUS
  <2>2. frames_saved \in Nat /\ frames_received = Len(received) /\ Len(received) \in Nat
    BY <1>a DEF ReceivedInv, LinkTypes
  <2>3. frames_saved' \in Nat /\ frames_saved' <= frames_received
    <3>1. CASE frames_saved' = frames_saved
      BY <1>a, <2>2, <3>1 DEF ReceivedInv
    <3>2. CASE srv_pc \in {"open", "write"} /\ frames_saved' = frames_saved + 1
      BY <1>a, <2>2, <3>2 DEF ReceivedInv
    <3> QED BY <3>1, <3>2
  <2>4. (\A r \in 1 .. Len(received) :
            /\ conn # NoConn =>
                \A i \in 1 .. Len(stream[conn]) :
                    i > pos[conn] => received[r] < stream[conn][i].seq
            /\ \A k \in 1 .. Len(backlog) :
                  \A i \in 1 .. Len(stream[backlog[k]]) : received[r] < stream[backlog[k]][i].seq)'
    BY <1>a DEF ReceivedInv
  <2> QED BY <1>a, <2>1, <2>2, <2>3, <2>4 DEF ReceivedInv
<1>5. \A c \in Conns : pos'[c] <= Len(stream[c])
  BY <1>a DEF Numbered
<1> QED BY <1>1, <1>2, <1>3, <1>4, <1>5, ServerKeeps

\* accept() takes the oldest connection that waits; nothing of it was read.
LEMMA AcceptKeeps ==
    ASSUME LInv, ServerSide, srv_pc = "select", backlog # <<>>,
           conn' = Head(backlog), backlog' = Tail(backlog), srv_pc' = "handshake",
           UNCHANGED <<stream, ending, pos, hdr, got, frames_received, frames_saved, received>>
    PROVE  LInv'
<1>a. LinkTypes /\ Numbered /\ Waiting /\ Position /\ ReceivedInv
  BY DEF LInv
<1>b. backlog \in Seq(Conns)
  BY <1>a DEF LinkTypes
<1>c. /\ 1 \in 1 .. Len(backlog) /\ conn' = backlog[1] /\ conn' \in Conns
      /\ backlog' \in Seq(Conns) /\ Len(backlog) \in Nat /\ Len(backlog') = Len(backlog) - 1
      /\ \A i \in 1 .. Len(backlog') : i + 1 \in 1 .. Len(backlog) /\ backlog'[i] = backlog[i + 1]
  BY <1>b
<1>d. UNCHANGED cur
  BY DEF ServerSide, linkVars
<1>1. LinkTypes'
  BY <1>a, <1>c, <1>d DEF LinkTypes
<1>2. Waiting'
  <2>1. ending[conn'] # "none" /\ conn' # NoConn
    BY <1>a, <1>c DEF Waiting, Conns, NoConn
  <2>2. ASSUME NEW i \in 1 .. Len(backlog')
        PROVE  ending[backlog'[i]] # "none" /\ pos[backlog'[i]] = 0 /\ conn' < backlog'[i]
    <3>1. 1 < i + 1
      OBVIOUS
    <3> QED BY <1>a, <1>c, <3>1 DEF Waiting
  <2>3. ASSUME NEW i \in 1 .. Len(backlog'), NEW j \in 1 .. Len(backlog'), i < j
        PROVE  backlog'[i] < backlog'[j]
    <3>1. i + 1 < j + 1
      BY <2>3
    <3> QED BY <1>a, <1>c, <3>1 DEF Waiting
  <2> QED BY <2>1, <2>2, <2>3 DEF Waiting
<1>3. Position'
  BY <1>a, <1>c DEF Position, Waiting
<1>4. ReceivedInv'
  <2>1. ASSUME NEW r \in 1 .. Len(received), NEW i \in 1 .. Len(stream[conn'])
        PROVE  received[r] < stream[conn'][i].seq
    BY <1>a, <1>c DEF ReceivedInv
  <2>2. ASSUME NEW r \in 1 .. Len(received), NEW k \in 1 .. Len(backlog'),
               NEW i \in 1 .. Len(stream[backlog'[k]])
        PROVE  received[r] < stream[backlog'[k]][i].seq
    BY <1>a, <1>c DEF ReceivedInv
  <2> QED BY <1>a, <2>1, <2>2 DEF ReceivedInv
<1>5. \A c \in Conns : pos'[c] <= Len(stream[c])
  BY <1>a DEF Numbered
<1> QED BY <1>1, <1>2, <1>3, <1>4, <1>5, ServerKeeps

\* The next n bytes after x bytes of a frame: the rest of that frame, or part of it.
LEMMA ReadOn ==
    ASSUME NEW s \in Seq(LinkByte), Flow(s), NEW p \in Nat, NEW x \in Nat, At(s, p, x),
           NEW n \in Nat \ {0}, p + n <= Len(s), x + n <= FrameLen
    PROVE  /\ \A i \in 1 .. n : s[p + i].off = x + i - 1 /\ s[p + i].seq = s[p + n].seq
           /\ x > 0 => s[p + n].seq = s[p].seq
           /\ At(s, p + n, IF x + n = FrameLen THEN 0 ELSE x + n)
<1> DEFINE L == FrameLen
           l == Len(s)
           Read == /\ \A i \in 1 .. n : s[p + i].off = x + i - 1 /\ s[p + i].seq = s[p + n].seq
                   /\ x > 0 => s[p + n].seq = s[p].seq
<1>1. L \in Nat \ {0} /\ l \in Nat /\ p + n <= l /\ x + n <= L
  BY LengthAssumption DEF FrameLen
<1>2. /\ \A i, j \in 1 .. l :
            i <= j /\ s[i].off + (j - i) < L =>
                s[j].off = s[i].off + (j - i) /\ s[j].seq = s[i].seq
      /\ \A i \in 1 .. l : i = 1 \/ s[i - 1].off = L - 1 => s[i].off = 0
  BY DEF Flow
<1> HIDE DEF L, l
<1>3. \A i \in 1 .. n : p + i \in 1 .. l
  BY <1>1
<1>4. ASSUME x = 0 PROVE Read
  <2>1. p = 0 \/ s[p].off = L - 1
    BY <1>4 DEF At, L
  <2>2. p + 1 \in 1 .. l /\ (p + 1 = 1 \/ s[p + 1 - 1].off = L - 1)
    BY <1>1, <2>1
  <2>3. s[p + 1].off = 0
    BY <1>2, <2>2
  <2>4. ASSUME NEW i \in 1 .. n
        PROVE  s[p + i].off = x + i - 1 /\ s[p + i].seq = s[p + 1].seq
    <3>1. /\ p + i \in 1 .. l /\ p + 1 <= p + i /\ 0 + ((p + i) - (p + 1)) < L
          /\ 0 + ((p + i) - (p + 1)) = x + i - 1
      BY <1>1, <1>4
    <3> QED BY <1>2, <2>2, <2>3, <3>1
  <2>5. n \in 1 .. n
    OBVIOUS
  <2> QED BY <1>4, <2>4, <2>5
<1>5. ASSUME x > 0 PROVE Read
  <2>1. p > 0 /\ s[p].off = x - 1
    BY <1>5 DEF At
  <2>2. p \in 1 .. l
    BY <1>1, <2>1
  <2>3. ASSUME NEW i \in 1 .. n
        PROVE  s[p + i].off = x + i - 1 /\ s[p + i].seq = s[p].seq
    <3>1. /\ p + i \in 1 .. l /\ p <= p + i /\ (x - 1) + ((p + i) - p) < L
          /\ (x - 1) + ((p + i) - p) = x + i - 1
      BY <1>1
    <3> QED BY <1>2, <2>1, <2>2, <3>1
  <2>4. n \in 1 .. n
    OBVIOUS
  <2> QED BY <2>3, <2>4
<1>6. Read
  BY <1>4, <1>5
<1>7. At(s, p + n, IF x + n = L THEN 0 ELSE x + n)
  <2>1. s[p + n].off = x + n - 1 /\ p + n > 0
    BY <1>6
  <2>2. x + n # 0
    OBVIOUS
  <2> QED BY <2>1, <2>2 DEF At, L
<1> QED BY <1>6, <1>7 DEF L

\* The bytes that a read of n takes from a stream.
LEMMA ArrivingBytes ==
    ASSUME NEW s \in Seq(LinkByte), NEW p \in Nat, NEW n \in Nat \ {0}, p + n <= Len(s)
    PROVE  /\ SubSeq(s, p + 1, p + n) \in Seq(LinkByte) /\ Len(SubSeq(s, p + 1, p + n)) = n
           /\ \A i \in 1 .. n : SubSeq(s, p + 1, p + n)[i] = s[p + i]
<1>1. \A i \in 1 .. n : p + 1 + i - 1 = p + i /\ p + i \in 1 .. Len(s)
  OBVIOUS
<1> QED BY <1>1

\* What a read leaves alone, and how far it gets.
LEMMA ReadMoves ==
    ASSUME LInv, ServerSide, conn \in Conns, NEW n \in Nat \ {0},
           n <= Len(stream[conn]) - pos[conn], pos' = [pos EXCEPT ![conn] = @ + n],
           UNCHANGED <<srv_pc, stream, ending, conn, backlog, frames_received, frames_saved,
                       received>>,
           srv_pc \in {"header", "payload"}, hdr' \in Seq(LinkByte), got' \in Nat,
           Position',
           \A r \in 1 .. Len(received) : hdr' # <<>> => received[r] < hdr'[1].seq
    PROVE  LInv'
<1>a. LinkTypes /\ Numbered /\ Waiting /\ ReceivedInv
  BY DEF LInv
<1>b. /\ pos \in [Conns -> Nat] /\ stream[conn] \in Seq(LinkByte)
      /\ \A c \in Conns : pos'[c] = IF c = conn THEN pos[c] + n ELSE pos[c]
      /\ pos' \in [Conns -> Nat]
  BY <1>a DEF LinkTypes
<1>c. UNCHANGED cur
  BY DEF ServerSide, linkVars
<1>1. LinkTypes'
  BY <1>a, <1>b, <1>c DEF LinkTypes
<1>2. Waiting'
  <2>1. ASSUME NEW i \in 1 .. Len(backlog)
        PROVE  backlog[i] \in Conns /\ backlog[i] # conn
    <3>1. backlog[i] \in Conns
      BY <1>a DEF LinkTypes
    <3>2. conn < backlog[i]
      BY <1>a DEF Waiting
    <3> QED BY <3>1, <3>2 DEF Conns
  <2>2. (\A i \in 1 .. Len(backlog) :
           ending[backlog[i]] # "none" /\ pos[backlog[i]] = 0 /\ conn < backlog[i])'
    BY <1>a, <1>b, <2>1 DEF Waiting
  <2> QED BY <1>a, <2>2 DEF Waiting
<1>3. \A c \in Conns : pos'[c] <= Len(stream[c])
  BY <1>a, <1>b DEF Numbered
<1>4. ReceivedInv'
  <2>1. \A r \in 1 .. Len(received) : \A i \in 1 .. Len(stream[conn]) :
           i > pos'[conn] => received[r] < stream[conn][i].seq
    <3>1. \A i \in 1 .. Len(stream[conn]) : i > pos'[conn] => i > pos[conn]
      BY <1>b
    <3>2. conn # NoConn
      BY DEF Conns, NoConn
    <3> QED BY <1>a, <3>1, <3>2 DEF ReceivedInv
  <2>2. srv_pc = "payload" => hdr' # <<>>
    <3>1. srv_pc = "payload" => Len(hdr') = HeaderLen
      BY DEF Position
    <3>2. HeaderLen # 0 /\ Len(<<>>) = 0
      BY LengthAssumption
    <3> QED BY <3>1, <3>2
  <2>3. (\A r \in 1 .. Len(received) :
           /\ srv_pc = "header" /\ hdr # <<>> => received[r] < hdr[1].seq
           /\ srv_pc = "payload" => received[r] < hdr[1].seq)'
    BY <2>2
  <2>4. (\A r \in 1 .. Len(received) : \A k \in 1 .. Len(backlog) :
           \A i \in 1 .. Len(stream[backlog[k]]) : received[r] < stream[backlog[k]][i].seq)'
    BY <1>a DEF ReceivedInv
  <2>5. (\A i, j \in 1 .. Len(received) : i < j => received[i] < received[j])'
    BY <1>a DEF ReceivedInv
  <2>6. (/\ frames_received = Len(received)
         /\ frames_saved \in Nat
         /\ frames_saved + (IF srv_pc \in {"open", "write"} THEN 1 ELSE 0) <= frames_received)'
    BY <1>a DEF ReceivedInv
  <2> QED BY <2>1, <2>3, <2>4, <2>5, <2>6 DEF ReceivedInv
<1> QED BY <1>1, <1>2, <1>3, <1>4, ServerKeeps

\* Part of a header arrives, or the rest of it.
LEMMA ReadHeaderKeeps ==
    ASSUME LInv, ServerSide, Srv!ReadHeader, UNCHANGED received
    PROVE  LInv'
<1>a. LinkTypes /\ Numbered /\ Waiting /\ StreamInv /\ Position /\ ReceivedInv
  BY DEF LInv
<1>b. /\ srv_pc = "header"
      /\ UNCHANGED <<srv_pc, stream, ending, conn, backlog, frames_received, frames_saved, got>>
  BY DEF Srv!ReadHeader, Srv!statVars, Srv!netVars
<1>c. PICK n \in 1 .. (HeaderLen - Len(hdr)) :
         /\ n <= Len(stream[conn]) - pos[conn]
         /\ hdr' = hdr \o SubSeq(stream[conn], pos[conn] + 1, pos[conn] + n)
         /\ pos' = [pos EXCEPT ![conn] = @ + n]
  BY DEF Srv!ReadHeader, Srv!Unread, Srv!Arriving
<1> DEFINE s == stream[conn]
           p == pos[conn]
           x == Len(hdr)
           b == SubSeq(s, p + 1, p + n)
           h == hdr
           g == hdr'
<1>1. conn \in Conns /\ conn # NoConn
  BY <1>a, <1>b DEF LinkTypes, Waiting, Serving
<1>2. s \in Seq(LinkByte) /\ p \in Nat /\ Flow(s) /\ h \in Seq(LinkByte) /\ got \in Nat
  BY <1>a, <1>1 DEF LinkTypes, StreamInv
<1>3. /\ x = Len(h) /\ x \in Nat /\ x <= HeaderLen /\ At(s, p, x)
      /\ \A i \in 1 .. x : h[i].off = i - 1 /\ h[i].seq = h[1].seq
      /\ x > 0 => h[1].seq = s[p].seq
  BY <1>a, <1>b, <1>2 DEF Position
<1>4. n \in Nat \ {0} /\ p + n <= Len(s) /\ x + n <= HeaderLen /\ x + n < FrameLen /\ x + n <= FrameLen
  <2>1. /\ n \in 1 .. (HeaderLen - x) /\ n <= Len(s) - p
        /\ x \in Nat /\ Len(s) \in Nat /\ p \in Nat
    BY <1>c, <1>2, <1>3
  <2>2. HeaderLen \in Nat /\ PayloadLen \in Nat \ {0}
    BY LengthAssumption
  <2> HIDE DEF x, s, p
  <2> QED BY <2>1, <2>2 DEF FrameLen
<1>5. g = h \o b
  BY <1>c
<1> HIDE DEF s, p, b, h
<1>6. b \in Seq(LinkByte) /\ Len(b) = n /\ \A i \in 1 .. n : b[i] = s[p + i]
  BY <1>2, <1>4, ArrivingBytes DEF b
<1>7. /\ \A i \in 1 .. n : s[p + i].off = x + i - 1 /\ s[p + i].seq = s[p + n].seq
      /\ x > 0 => s[p + n].seq = s[p].seq
      /\ At(s, p + n, IF x + n = FrameLen THEN 0 ELSE x + n)
  BY <1>2, <1>3, <1>4, ReadOn
<1>8. /\ g \in Seq(LinkByte) /\ Len(g) = x + n
      /\ \A i \in 1 .. x : g[i] = h[i]
      /\ \A i \in 1 .. n : g[x + i] = b[i]
  <2>1. /\ h \o b \in Seq(LinkByte) /\ Len(h \o b) = Len(h) + Len(b)
        /\ \A i \in 1 .. Len(h) : (h \o b)[i] = h[i]
        /\ \A i \in 1 .. Len(b) : (h \o b)[Len(h) + i] = b[i]
    BY <1>2, <1>6, ConcatStream
  <2> QED BY <1>3, <1>5, <1>6, <2>1
<1> HIDE DEF x, g
<1>9. ASSUME NEW i \in 1 .. Len(g)
      PROVE  g[i].off = i - 1 /\ g[i].seq = s[p + n].seq
  <2>1. CASE i <= x
    <3>1. i \in 1 .. x /\ x > 0
      BY <1>3, <2>1
    <3> QED BY <1>3, <1>7, <1>8, <3>1
  <2>2. CASE i > x
    <3> DEFINE j == i - x
    <3>1. j \in 1 .. n /\ i = x + j
      BY <1>3, <1>8, <2>2
    <3> HIDE DEF j
    <3>2. g[i] = s[p + j]
      BY <1>6, <1>8, <3>1
    <3>3. s[p + j].off = x + j - 1 /\ s[p + j].seq = s[p + n].seq
      BY <1>7, <3>1
    <3>4. x + j - 1 = i - 1
      BY <1>3, <3>1
    <3> QED BY <3>2, <3>3, <3>4
  <2> QED BY <1>3, <2>1, <2>2
<1>10. 1 \in 1 .. Len(g) /\ Len(g) <= HeaderLen
  BY <1>3, <1>4, <1>8
<1>11. At(s, p + n, Len(g))
  BY <1>4, <1>7, <1>8
<1>12. pos'[conn] = p + n
  BY <1>a, <1>c, <1>1 DEF LinkTypes, p
<1>13. Position'
  <2>1. /\ Len(hdr') <= HeaderLen
        /\ \A i \in 1 .. Len(hdr') : hdr'[i].off = i - 1 /\ hdr'[i].seq = hdr'[1].seq
    BY <1>9, <1>10 DEF g
  <2>2. At(stream'[conn'], pos'[conn'], Len(hdr')) /\ hdr'[1].seq = stream'[conn'][pos'[conn']].seq
    BY <1>b, <1>9, <1>10, <1>11, <1>12 DEF g, s
  <2> QED BY <1>b, <2>1, <2>2 DEF Position, At
<1>14. \A r \in 1 .. Len(received) : hdr' # <<>> => received[r] < hdr'[1].seq
  <2> SUFFICES ASSUME NEW r \in 1 .. Len(received) PROVE received[r] < hdr'[1].seq
    OBVIOUS
  <2>1. hdr'[1].seq = s[p + n].seq
    BY <1>9, <1>10 DEF g
  <2>2. p + n \in 1 .. Len(s) /\ p + n > p
    BY <1>2, <1>4
  <2> QED BY <1>a, <1>1, <2>1, <2>2 DEF ReceivedInv, s, p
<1>15. hdr' \in Seq(LinkByte) /\ got' \in Nat /\ n <= Len(stream[conn]) - pos[conn]
  BY <1>b, <1>c, <1>2, <1>8 DEF g
<1> QED BY <1>b, <1>c, <1>1, <1>4, <1>13, <1>14, <1>15, ReadMoves

\* Part of a payload arrives, or the rest of it.
LEMMA ReadPayloadKeeps ==
    ASSUME LInv, ServerSide, Srv!ReadPayload, UNCHANGED received
    PROVE  LInv'
<1>a. LinkTypes /\ Numbered /\ Waiting /\ StreamInv /\ Position /\ ReceivedInv
  BY DEF LInv
<1>b. /\ srv_pc = "payload"
      /\ UNCHANGED <<srv_pc, stream, ending, conn, backlog, frames_received, frames_saved, hdr>>
  BY DEF Srv!ReadPayload, Srv!statVars, Srv!netVars
<1>c. PICK n \in 1 .. (hdr[1].len - got) :
         /\ n <= Len(stream[conn]) - pos[conn]
         /\ got' = got + n
         /\ pos' = [pos EXCEPT ![conn] = @ + n]
  BY DEF Srv!ReadPayload, Srv!Unread
<1> DEFINE s == stream[conn]
           p == pos[conn]
           x == HeaderLen + got
<1>1. conn \in Conns /\ conn # NoConn
  BY <1>a, <1>b DEF LinkTypes, Waiting, Serving
<1>2. s \in Seq(LinkByte) /\ p \in Nat /\ Flow(s) /\ hdr \in Seq(LinkByte) /\ got \in Nat
  BY <1>a, <1>1 DEF LinkTypes, StreamInv
<1>3. /\ Len(hdr) = HeaderLen /\ got <= PayloadLen /\ p > 0 /\ hdr[1].seq = s[p].seq
      /\ At(s, p, IF got = PayloadLen THEN 0 ELSE x)
  BY <1>a, <1>b DEF Position
<1>4. HeaderLen \in Nat \ {0} /\ PayloadLen \in Nat \ {0} /\ FrameLen = HeaderLen + PayloadLen
  BY LengthAssumption DEF FrameLen
<1>5. hdr[1].len = PayloadLen
  <2>1. 1 \in 1 .. Len(hdr)
    BY <1>3, <1>4
  <2> QED BY <1>2, <2>1, ByteFacts
<1>6. n \in 1 .. (PayloadLen - got) /\ n <= Len(s) - p /\ Len(s) \in Nat
  BY <1>c, <1>2, <1>5
<1> HIDE DEF s, p
<1>7. /\ n \in Nat \ {0} /\ p + n <= Len(s) /\ got # PayloadLen /\ x \in Nat /\ x > 0
      /\ x + n <= FrameLen
  BY <1>2, <1>3, <1>4, <1>6
<1>8. At(s, p, x)
  BY <1>3, <1>7
<1>9. x + n = FrameLen <=> got + n = PayloadLen
  BY <1>2, <1>4, <1>7
<1>10. got + n <= PayloadLen /\ got + n \in Nat /\ p + n > 0 /\ x + n = HeaderLen + (got + n)
  BY <1>2, <1>4, <1>6
<1> HIDE DEF x
<1>11. s[p + n].seq = s[p].seq /\ At(s, p + n, IF x + n = FrameLen THEN 0 ELSE x + n)
  BY <1>2, <1>7, <1>8, ReadOn
<1>12. At(s, p + n, IF got + n = PayloadLen THEN 0 ELSE HeaderLen + (got + n))
  BY <1>9, <1>10, <1>11
<1>13. pos'[conn] = p + n
  BY <1>a, <1>c, <1>1 DEF LinkTypes, p
<1>14. Position'
  <2>1. Len(hdr') = HeaderLen /\ got' <= PayloadLen
    BY <1>b, <1>c, <1>3, <1>10
  <2>2. At(stream'[conn'], pos'[conn'], IF got' = PayloadLen THEN 0 ELSE HeaderLen + got')
    BY <1>b, <1>c, <1>12, <1>13 DEF s
  <2>3. pos'[conn'] > 0 /\ hdr'[1].seq = stream'[conn'][pos'[conn']].seq
    BY <1>b, <1>3, <1>10, <1>11, <1>13 DEF s
  <2> QED BY <1>b, <2>1, <2>2, <2>3 DEF Position, At
<1>15. \A r \in 1 .. Len(received) : hdr' # <<>> => received[r] < hdr'[1].seq
  BY <1>a, <1>b DEF ReceivedInv
<1>16. hdr' \in Seq(LinkByte) /\ got' \in Nat /\ n <= Len(stream[conn]) - pos[conn]
  BY <1>b, <1>c, <1>2, <1>10
<1> QED BY <1>b, <1>c, <1>1, <1>7, <1>14, <1>15, <1>16, ReadMoves

\* The header is complete, and the payload is next.
LEMMA HeaderAcceptedKeeps ==
    ASSUME LInv, ServerSide, Srv!HeaderAccepted, UNCHANGED received
    PROVE  LInv'
<1>a. LinkTypes /\ Numbered /\ Waiting /\ Position /\ ReceivedInv
  BY DEF LInv
<1>b. /\ srv_pc = "header" /\ Len(hdr) = HeaderLen /\ srv_pc' = "payload" /\ got' = 0
      /\ UNCHANGED <<stream, ending, conn, backlog, pos, hdr, frames_received, frames_saved>>
  BY DEF Srv!HeaderAccepted, Srv!statVars, Srv!netVars
<1>c. UNCHANGED cur
  BY DEF ServerSide, linkVars
<1>1. HeaderLen \in Nat \ {0} /\ PayloadLen \in Nat \ {0}
  BY LengthAssumption
<1>2. LinkTypes'
  BY <1>a, <1>b, <1>c DEF LinkTypes
<1>3. Waiting'
  BY <1>a, <1>b DEF Waiting, Serving
<1>4. hdr # <<>>
  <2>1. Len(<<>>) = 0
    OBVIOUS
  <2> QED BY <1>b, <1>1, <2>1
<1>5. Position'
  <2>1. At(stream[conn], pos[conn], HeaderLen) /\ hdr[1].seq = stream[conn][pos[conn]].seq
    BY <1>a, <1>b, <1>4 DEF Position
  <2>2. pos[conn] > 0
    BY <1>1, <2>1 DEF At
  <2>3. 0 <= PayloadLen /\ 0 # PayloadLen /\ HeaderLen + 0 = HeaderLen
    BY <1>1
  <2> QED BY <1>b, <2>1, <2>2, <2>3 DEF Position, At
<1>6. ReceivedInv'
  BY <1>a, <1>b, <1>4 DEF ReceivedInv
<1>7. \A c \in Conns : pos'[c] <= Len(stream[c])
  BY <1>a, <1>b DEF Numbered
<1> QED BY <1>b, <1>2, <1>3, <1>5, <1>6, <1>7, ServerKeeps

\* A frame is complete and counted: it is newer than all that were, and older than all that
\* arrives from now on.
LEMMA FrameReceivedKeeps ==
    ASSUME LInv, ServerSide, Srv!FrameReceived, received' = Append(received, hdr[1].seq)
    PROVE  LInv'
<1>a. LinkTypes /\ Numbered /\ Waiting /\ StreamInv /\ Position /\ ReceivedInv
  BY DEF LInv
<1>b. /\ srv_pc = "payload" /\ got = hdr[1].len /\ frames_received' = frames_received + 1
      /\ \/ srv_pc' = "open" /\ hdr' = hdr
         \/ srv_pc' = "loop" /\ hdr' = <<>>
      /\ UNCHANGED <<stream, ending, conn, backlog, pos, got, frames_saved>>
  BY DEF Srv!FrameReceived, Srv!ReceivedAll, Srv!EndOfTurn, Srv!netVars
<1>c. UNCHANGED cur
  BY DEF ServerSide, linkVars
<1> DEFINE s == stream[conn]
           p == pos[conn]
           f == hdr[1].seq
           l == Len(received)
<1>1. conn \in Conns /\ conn # NoConn
  BY <1>a, <1>b DEF LinkTypes, Waiting, Serving
<1>2. s \in Seq(LinkByte) /\ p \in Nat /\ Flow(s) /\ hdr \in Seq(LinkByte) /\ p <= Len(s)
  BY <1>a, <1>1 DEF LinkTypes, StreamInv, Numbered
<1>3. /\ Len(hdr) = HeaderLen /\ p > 0 /\ f = s[p].seq
      /\ At(s, p, IF got = PayloadLen THEN 0 ELSE HeaderLen + got)
  BY <1>a, <1>b DEF Position
<1>4. 1 \in 1 .. Len(hdr) /\ p \in 1 .. Len(s) /\ HeaderLen # 0
  BY <1>2, <1>3, LengthAssumption
<1>5. hdr[1].len = PayloadLen /\ f \in Frame
  BY <1>2, <1>4, ByteFacts
<1>6. At(s, p, 0)
  BY <1>b, <1>3, <1>5
<1>7. s[p].off = FrameLen - 1
  BY <1>3, <1>6 DEF At
<1>8. \A i \in 1 .. Len(s) : i > p => f < s[i].seq
  <2> SUFFICES ASSUME NEW i \in 1 .. Len(s), i > p PROVE f < s[i].seq
    OBVIOUS
  <2>1. p <= i /\ (FrameLen - 1) + (i - p) >= FrameLen
    BY <1>2, LengthAssumption DEF FrameLen
  <2> HIDE DEF s, p
  <2> QED BY <1>2, <1>3, <1>4, <1>7, <2>1 DEF Flow
<1>9. \A k \in 1 .. Len(backlog) : \A i \in 1 .. Len(stream[backlog[k]]) :
         f < stream[backlog[k]][i].seq
  <2> SUFFICES ASSUME NEW k \in 1 .. Len(backlog), NEW i \in 1 .. Len(stream[backlog[k]])
               PROVE  f < stream[backlog[k]][i].seq
    OBVIOUS
  <2>1. backlog[k] \in Conns
    BY <1>a DEF LinkTypes
  <2>2. conn < backlog[k]
    BY <1>a DEF Waiting
  <2> QED BY <1>a, <1>1, <1>3, <1>4, <2>1, <2>2 DEF StreamInv
<1>10. received \in Seq(Frame) /\ l \in Nat /\ \A r \in 1 .. l : received[r] < f
  BY <1>a, <1>b DEF LinkTypes, ReceivedInv
<1> HIDE DEF f, l
<1>11. /\ received' \in Seq(Frame) /\ Len(received') = l + 1 /\ received'[l + 1] = f
       /\ \A r \in 1 .. l : received'[r] = received[r]
       /\ \A r \in 1 .. Len(received') : r \in 1 .. l \/ r = l + 1
  BY <1>5, <1>10 DEF f, l
<1>12. LinkTypes'
  <2>1. hdr' \in Seq(LinkByte)
    <3>1. <<>> \in Seq(LinkByte)
      OBVIOUS
    <3> QED BY <1>b, <1>2, <3>1
  <2> QED BY <1>a, <1>b, <1>c, <1>11, <2>1 DEF LinkTypes
<1>13. Waiting'
  BY <1>a, <1>b DEF Waiting, Serving
<1>14. Position'
  BY <1>b, <1>6 DEF Position, At, s, p
<1>15. ReceivedInv'
  <2>1. ASSUME NEW i \in 1 .. Len(received'), NEW j \in 1 .. Len(received'), i < j
        PROVE  received'[i] < received'[j]
    <3>1. i \in 1 .. l
      BY <1>10, <1>11, <2>1
    <3>2. CASE j \in 1 .. l
      BY <1>a, <1>11, <2>1, <3>1, <3>2 DEF ReceivedInv, l
    <3>3. CASE j = l + 1
      BY <1>10, <1>11, <3>1, <3>3
    <3> QED BY <1>11, <3>2, <3>3
  <2>2. ASSUME NEW r \in 1 .. Len(received')
        PROVE  /\ \A i \in 1 .. Len(s) : i > p => received'[r] < s[i].seq
               /\ \A k \in 1 .. Len(backlog) : \A i \in 1 .. Len(stream[backlog[k]]) :
                     received'[r] < stream[backlog[k]][i].seq
    <3>1. CASE r \in 1 .. l
      BY <1>a, <1>1, <1>11, <3>1 DEF ReceivedInv, l, s, p
    <3>2. CASE r = l + 1
      BY <1>8, <1>9, <1>11, <3>2
    <3> QED BY <1>11, <3>1, <3>2
  <2>3. frames_received' = Len(received') /\ frames_saved' \in Nat /\ frames_saved' + 1 <= frames_received'
    <3>1. frames_received = l /\ frames_saved \in Nat /\ frames_saved <= frames_received
      BY <1>a, <1>b DEF ReceivedInv, l
    <3> QED BY <1>b, <1>10, <1>11, <3>1
  <2>4. frames_saved' + (IF srv_pc' \in {"open", "write"} THEN 1 ELSE 0) <= frames_received'
    <3>1. frames_received' \in Int /\ frames_saved' \in Int
      BY <1>10, <1>11, <2>3
    <3>2. frames_saved' + 1 <= frames_received' /\ frames_saved' + 0 <= frames_received'
      BY <2>3, <3>1
    <3> QED BY <3>2
  <2>5. srv_pc' # "header" /\ srv_pc' # "payload"
    BY <1>b
  <2>6. \A r \in 1 .. Len(received') :
           /\ conn' # NoConn =>
                 \A i \in 1 .. Len(stream'[conn']) :
                     i > pos'[conn'] => received'[r] < stream'[conn'][i].seq
           /\ \A k \in 1 .. Len(backlog') : \A i \in 1 .. Len(stream'[backlog'[k]]) :
                 received'[r] < stream'[backlog'[k]][i].seq
    BY <1>b, <2>2 DEF s, p
  <2> QED BY <2>1, <2>3, <2>4, <2>5, <2>6 DEF ReceivedInv
<1>16. \A c \in Conns : pos'[c] <= Len(stream[c])
  BY <1>a, <1>b DEF Numbered
<1>17. \A r \in 1 .. Len(received') :
          \/ \E q \in 1 .. Len(received) : received'[r] = received[q]
          \/ \E c \in Conns : \E i \in 1 .. Len(stream[c]) :
                stream[c][i].off = FrameLen - 1 /\ received'[r] = stream[c][i].seq
  <2> SUFFICES ASSUME NEW r \in 1 .. Len(received'), r = l + 1
               PROVE  \E c \in Conns : \E i \in 1 .. Len(stream[c]) :
                         stream[c][i].off = FrameLen - 1 /\ received'[r] = stream[c][i].seq
    BY <1>11 DEF l
  <2> QED BY <1>1, <1>3, <1>4, <1>7, <1>11 DEF s
<1> QED BY <1>b, <1>12, <1>13, <1>14, <1>15, <1>16, <1>17, ServerKeeps

\* Every step of the server keeps the invariant.
LEMMA ServerStepKeeps ==
    ASSUME LInv, Server \/ ServerStop \/ ServerKilled
    PROVE  LInv'
<1>a. ServerSide
  BY DEF Server, ServerLocal, ServerRead, ServerHandshake, ServerHandshakeFails, ServerStop,
         ServerKilled
<1>b. LinkTypes /\ ReceivedInv
  BY DEF LInv
<1>c. frames_received \in Int /\ got \in Nat
  BY <1>b DEF LinkTypes, ReceivedInv
<1>d. frames_received' = frames_received => received' = received
  BY <1>c
     DEF Server, ServerLocal, ServerRead, ServerHandshake, ServerHandshakeFails, ServerStop,
         ServerKilled
<1>1. CASE Srv!signalHandler \/ Srv!SslAccept \/ Srv!ClientLoop \/ Srv!OpenFile \/ Srv!WriteFile
  <2>1. /\ UNCHANGED <<stream, ending, conn, backlog, pos, hdr, frames_received, frames_saved>>
        /\ \/ srv_pc' = srv_pc /\ (got' = got \/ srv_pc # "payload")
           \/ srv_pc = "handshake" /\ srv_pc' = "loop"
           \/ srv_pc = "loop" /\ srv_pc' = "header"
           \/ srv_pc = "open" /\ srv_pc' = "write"
    BY <1>1 DEF Srv!signalHandler, Srv!SslAccept, Srv!ClientLoop, Srv!OpenFile, Srv!WriteFile,
                Srv!Goto, Srv!readVars, Srv!statVars, Srv!netVars
  <2>2. got' \in Nat
    <3>1. CASE Srv!WriteFile
      <4>1. PICK n \in 1 .. (hdr[1].len - got) : got' = got + n
        BY <3>1 DEF Srv!WriteFile
      <4>2. n \in Nat
        BY <4>1
      <4> QED BY <1>c, <4>1, <4>2
    <3>2. CASE ~Srv!WriteFile
      <4>1. got' = got \/ got' = 0
        BY <1>1, <3>2 DEF Srv!signalHandler, Srv!SslAccept, Srv!ClientLoop, Srv!OpenFile, Srv!Goto,
                          Srv!readVars
      <4> QED BY <1>c, <4>1
    <3> QED BY <3>1, <3>2
  <2> QED BY <1>a, <1>d, <2>1, <2>2, ServerRests
<1>2. CASE \/ Srv!ParseArgs \/ Srv!CreateSslContext \/ Srv!CreateSocket \/ Srv!BindListen
           \/ Srv!LoopTop \/ Srv!LoopExit \/ Srv!SelectNothing \/ Srv!AcceptFails
  <2>1. /\ UNCHANGED <<stream, ending, pos, hdr, got, frames_received, frames_saved, conn, backlog>>
        /\ srv_pc \notin {"header", "payload", "open", "write"} /\ srv_pc' \notin Serving
    BY <1>2 DEF Srv!ParseArgs, Srv!CreateSslContext, Srv!CreateSocket, Srv!BindListen, Srv!LoopTop,
                Srv!LoopExit, Srv!SelectNothing, Srv!AcceptFails, Srv!Goto, Srv!readVars,
                Srv!statVars, Srv!netVars, Serving
  <2> QED BY <1>a, <1>d, <2>1, ServerCloses
<1>3. CASE Srv!Cleanup \/ Srv!Final \/ Srv!SslAcceptFails \/ Srv!Sigpipe
  <2>1. /\ UNCHANGED <<stream, ending, pos, hdr, got, frames_received, frames_saved>>
        /\ conn' \in {conn, NoConn} /\ backlog' \in {backlog, <<>>}
        /\ srv_pc \notin {"header", "payload", "open", "write"} /\ srv_pc' \notin Serving
    BY <1>3 DEF Srv!Cleanup, Srv!Final, Srv!SslAcceptFails, Srv!Sigpipe, Srv!readVars,
                Srv!statVars, Srv!netVars, Srv!NoConn, NoConn, Serving
  <2> QED BY <1>a, <1>d, <2>1, ServerCloses
<1>4. CASE Srv!ClientLoopExit \/ Srv!HeaderRejected \/ Srv!ReadFails
  <2>1. /\ hdr' = <<>> /\ got' = 0
        /\ UNCHANGED <<stream, ending, conn, backlog, pos, frames_received, frames_saved>>
        /\ srv_pc \in {"loop", "header", "payload"} /\ srv_pc' = "cleanup"
    BY <1>4 DEF Srv!ClientLoopExit, Srv!HeaderRejected, Srv!ReadFails, Srv!ReadFailure,
                Srv!LeaveClient, Srv!statVars, Srv!netVars
  <2>2. got' \in Nat
    BY <2>1
  <2> QED BY <1>a, <1>d, <2>1, <2>2, ServerForgets
<1>5. CASE Srv!OpenFails \/ Srv!WriteDone \/ Srv!WriteFails
  <2>1. /\ hdr' = <<>>
        /\ UNCHANGED <<stream, ending, conn, backlog, pos, frames_received, got>>
        /\ srv_pc \in {"open", "write"} /\ srv_pc' = "loop"
        /\ frames_saved' \in {frames_saved, frames_saved + 1}
    BY <1>5 DEF Srv!OpenFails, Srv!WriteDone, Srv!WriteFails, Srv!EndOfTurn, Srv!statVars,
                Srv!netVars
  <2> QED BY <1>a, <1>c, <1>d, <2>1, ServerForgets
<1>6. CASE Srv!Accept
  <2>1. /\ srv_pc = "select" /\ backlog # <<>> /\ conn' = Head(backlog)
        /\ backlog' = Tail(backlog) /\ srv_pc' = "handshake"
        /\ UNCHANGED <<stream, ending, pos, hdr, got, frames_received, frames_saved>>
    BY <1>6 DEF Srv!Accept, Srv!readVars, Srv!statVars
  <2> QED BY <1>a, <1>d, <2>1, AcceptKeeps
<1>7. CASE Srv!ReadHeader
  <2>1. frames_received' = frames_received
    BY <1>7 DEF Srv!ReadHeader, Srv!statVars
  <2> QED BY <1>a, <1>d, <1>7, <2>1, ReadHeaderKeeps
<1>8. CASE Srv!ReadPayload
  <2>1. frames_received' = frames_received
    BY <1>8 DEF Srv!ReadPayload, Srv!statVars
  <2> QED BY <1>a, <1>d, <1>8, <2>1, ReadPayloadKeeps
<1>9. CASE Srv!HeaderAccepted
  <2>1. frames_received' = frames_received
    BY <1>9 DEF Srv!HeaderAccepted, Srv!statVars
  <2> QED BY <1>a, <1>d, <1>9, <2>1, HeaderAcceptedKeeps
<1>10. CASE ServerLocal /\ Srv!FrameReceived
  <2>1. frames_received' > frames_received
    BY <1>c, <1>10 DEF Srv!FrameReceived
  <2>2. received' = Append(received, hdr[1].seq)
    BY <1>10, <2>1 DEF ServerLocal
  <2> QED BY <1>a, <1>10, <2>2, FrameReceivedKeeps
<1>11. CASE ServerLocal
  <2>1. Srv!LocalStep
    BY <1>11 DEF ServerLocal
  <2> QED BY <1>1, <1>2, <1>3, <1>4, <1>5, <1>6, <1>9, <1>10, <1>11, <2>1 DEF Srv!LocalStep
<1>12. CASE ServerRead \/ ServerHandshake \/ ServerHandshakeFails \/ ServerStop \/ ServerKilled
  BY <1>1, <1>3, <1>4, <1>7, <1>8, <1>12
     DEF ServerRead, ServerHandshake, ServerHandshakeFails, ServerStop, ServerKilled, Srv!ReadStep
<1> QED BY <1>11, <1>12 DEF Server

-----------------------------------------------------------------------------
(* The results.                                                            *)

\* Every step of the composition keeps the invariant.
LEMMA NextLInv ==
    ASSUME LInv, IInv, WireInv, IInv', Flow(wire'), [LinkNext]_allVars
    PROVE  LInv'
<1>1. CASE UNCHANGED allVars
  <2>1. UNCHANGED <<srv_pc, conn, backlog, pos, hdr, got, frames_received, frames_saved, stream,
                    received, cur, ending, peer, wire, last_frame, net_pc, frames_sent_>>
    BY <1>1 DEF allVars, clientOnly, serverOnly, linkVars
  <2>2. TypeOK /\ TypeOK' /\ SentCount' = SentCount
    BY <2>1 DEF IInv, SentCount
  <2>3. last_frame' >= last_frame
    BY <2>1, <2>2, BoundsAssumption DEF TypeOK, Frame, NoFrame
  <2> QED BY <2>1, <2>2, <2>3, ClientKeeps
<1>2. CASE Client
  <2>1. CASE ClientWrite
    BY <2>1, WriteKeeps
  <2>2. CASE ClientConnect
    BY <2>2, ConnectKeeps
  <2>3. CASE ~ClientWrite /\ ~ClientConnect
    BY <1>2, <2>3, ClientQuiet DEF Client
  <2> QED BY <2>1, <2>2, <2>3
<1>3. CASE Server \/ ServerStop \/ ServerKilled
  BY <1>3, ServerStepKeeps
<1>4. CASE Break
  BY <1>4, BreakKeeps
<1>5. CASE ClientStop \/ ClientKilled
  BY <1>5, ClientQuiet
<1> QED BY <1>1, <1>2, <1>3, <1>4, <1>5 DEF LinkNext, BothDown

\* LInv is an invariant of client, network and server, wherever connections break.
THEOREM LinkInvariant == LinkSpec => []LInv
<1>1. LInv /\ (IInv /\ WireInv /\ Flow(wire)) /\ (IInv /\ WireInv /\ Flow(wire))'
        /\ [LinkNext]_allVars => LInv'
  <2> SUFFICES ASSUME LInv, IInv, WireInv, IInv', Flow(wire)', [LinkNext]_allVars PROVE LInv'
    OBVIOUS
  <2>1. Flow(wire')
    BY DEF Flow
  <2> QED BY <2>1, NextLInv
<1> QED BY <1>1, InitLInv, ClientHalf, PTL DEF LinkSpec

\* Wherever connections break and frames are given up, what handleClient() reads as a header
\* is a header of this client, and within the limit: it rejects none.
THEOREM NoHeaderRejected == LinkSpec => []NoProtocolError
<1>1. LInv => NoProtocolError
  <2> SUFFICES ASSUME LInv, srv_pc = "header", Len(hdr) = HeaderLen
               PROVE  Srv!ValidHeader(hdr) /\ hdr[1].len <= MaxPayload
    BY DEF NoProtocolError
  <2>1. HeaderLen \in Nat \ {0} /\ 1 \in 1 .. Len(hdr) /\ hdr \in Seq(LinkByte)
    BY LengthAssumption DEF LInv, LinkTypes
  <2>2. hdr[1].len <= MaxPayload
    BY <2>1, ByteFacts, PayloadAssumption
  <2>3. ASSUME NEW i \in 1 .. HeaderLen
        PROVE  hdr[i] = [hdr[1] EXCEPT !.off = i - 1] /\ hdr[i].proto = "FRAM 1"
    <3>1. hdr[i] \in LinkByte /\ hdr[1] \in LinkByte /\ hdr[i].proto = "FRAM 1"
      BY <2>1, ByteFacts
    <3>2. hdr[i].off = i - 1 /\ hdr[i].seq = hdr[1].seq
      BY DEF LInv, Position
    <3> DEFINE b == hdr[i]
               c == hdr[1]
               x == i - 1
    <3>3. b \in LinkByte /\ c \in LinkByte /\ b.off = x /\ b.seq = c.seq
      BY <3>1, <3>2
    <3> HIDE DEF b, c, x
    <3>4. b = [c EXCEPT !.off = x]
      BY <3>3 DEF LinkByte
    <3> QED BY <3>1, <3>4 DEF b, c, x
  <2> QED BY <2>2, <2>3 DEF Srv!ValidHeader
<1> QED BY <1>1, LinkInvariant, PTL

\* The server counts no frame twice, and none after a newer one, over all connections.
THEOREM CountedInOrder == LinkSpec => []ReceivedInOrder
<1>1. LInv => ReceivedInOrder
  <2> SUFFICES ASSUME LInv, NEW i \in 1 .. (Len(received) - 1)
               PROVE  received[i] < received[i + 1]
    BY DEF ReceivedInOrder
  <2>1. Len(received) \in Nat
    BY DEF LInv, LinkTypes
  <2>2. i \in 1 .. Len(received) /\ i + 1 \in 1 .. Len(received) /\ i < i + 1
    BY <2>1
  <2> QED BY <2>2 DEF LInv, ReceivedInv
<1> QED BY <1>1, LinkInvariant, PTL

\* The server never counts more frames than the client has written whole, and saves none it
\* has not counted: frames_received stays within frames_sent_ and the one about to be counted.
THEOREM NothingInvented == LinkSpec => []ReceivedWasSent
<1>1. LInv => ReceivedWasSent
  <2> SUFFICES ASSUME LInv PROVE ReceivedWasSent
    OBVIOUS
  <2> DEFINE l == Len(received)
  <2>1. /\ received \in Seq(Frame) /\ l \in Nat /\ frames_received = l
        /\ \A i, j \in 1 .. l : i < j => received[i] < received[j]
        /\ frames_saved \in Nat
        /\ frames_saved + (IF srv_pc \in {"open", "write"} THEN 1 ELSE 0) <= frames_received
    BY DEF LInv, LinkTypes, ReceivedInv
  <2>2. PICK S \in SUBSET Frame : SentWhole(S)
    BY DEF LInv, SentInv
  <2>3. Cardinality(S) = SentCount /\ \A r \in 1 .. l : received[r] \in S
    BY <2>2 DEF SentWhole
  <2>4. IsFiniteSet(S)
    <3>1. IsFiniteSet(Frame)
      BY BoundsAssumption, FS_Interval DEF Frame
    <3> QED BY <3>1, FS_Subset
  <2> DEFINE g == [r \in 1 .. l |-> received[r]]
  <2>5. \A i, j \in 1 .. l : i # j => received[i] # received[j]
    <3>1. \A i \in 1 .. l : received[i] \in Int
      BY <2>1, BoundsAssumption DEF Frame
    <3> HIDE DEF l
    <3> QED BY <2>1, <3>1
  <2>6. g \in Injection(1 .. l, S)
    BY <2>3, <2>5 DEF Injection, IsInjective
  <2>7. Cardinality(1 .. l) = l
    <3>1. l \in Int /\ 1 \in Int /\ (1 > l => l = 0) /\ l - 1 + 1 = l
      BY <2>1
    <3>2. Cardinality(1 .. l) = IF 1 > l THEN 0 ELSE l - 1 + 1
      BY <3>1, FS_Interval
    <3> QED BY <3>1, <3>2
  <2>8. l <= SentCount
    BY <2>3, <2>4, <2>6, <2>7, FS_Injection
  <2>9. frames_saved <= frames_received
    BY <2>1
  <2> QED BY <2>1, <2>8, <2>9 DEF ReceivedWasSent, SentCount
<1> QED BY <1>1, LinkInvariant, PTL
=============================================================================
