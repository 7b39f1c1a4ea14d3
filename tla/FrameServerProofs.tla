------------------------- MODULE FrameServerProofs -------------------------
(***************************************************************************)
(* Proofs about FrameServer: types, resources, the saved files and the     *)
(* counters, over any number of connections, any split of reads and        *)
(* writes, any length of header and payload, and whatever frames the       *)
(* clients send.                                                           *)
(***************************************************************************)
EXTENDS FrameServer, FiniteSetTheorems, TLAPS

\* The places where there is a connection.
Serving == {"handshake", "loop", "header", "payload", "open", "write", "cleanup"}

\* The byte at offset k of the frame of byte b.
At(b, k) == [b EXCEPT !.off = k]

ControlInv ==
    /\ open_conns = {conn} \ {NoConn}
    /\ conn # NoConn <=> srv_pc \in Serving
    /\ srv_pc \in {"args", "context", "stopped"} => ~ssl_ctx
    /\ srv_pc \in {"args", "context", "socket", "stopped"} => ~server_fd

\* Connections come in the order of their numbers; what arrives on one is frames.
ArrivalInv ==
    /\ \E m \in 0 .. MaxConns : \A c \in Conns : ending[c] # "none" <=> c <= m
    /\ conn # NoConn => ending[conn] # "none"
    /\ \A i \in 1 .. Len(backlog) : ending[backlog[i]] # "none"
    /\ \A c \in Conns : ending[c] = "none" => pos[c] = 0
    /\ \A c \in Conns : pos[c] <= Len(stream[c])
    /\ \A c \in Conns : Coherent(stream[c]) /\ \A i \in 1 .. Len(stream[c]) : stream[c][i].seq \in Seqs

\* While the header is read it is the last bytes that were read; from then on it is a header of
\* the protocol, whose payload fits the buffer.
HeaderInv ==
    /\ srv_pc \notin {"header", "payload", "open", "write"} => hdr = <<>>
    /\ srv_pc = "header" =>
          /\ Len(hdr) <= pos[conn]
          /\ \A i \in 1 .. Len(hdr) : hdr[i] = stream[conn][pos[conn] - Len(hdr) + i]
    /\ srv_pc \in {"payload", "open", "write"} =>
          /\ Len(hdr) = HeaderLen /\ hdr[1].seq \in Seqs /\ hdr[1].proto = "FRAM 1"
          /\ hdr[1].len <= Len(frame_buf) /\ got <= hdr[1].len

\* The buffer holds the payload of the frame of the header as far as it was read, the file
\* as far as it was written.
PayloadInv ==
    /\ srv_pc = "payload" =>
          /\ pos[conn] >= 1 /\ stream[conn][pos[conn]] = At(hdr[1], HeaderLen + got - 1)
          /\ \A i \in 1 .. got : frame_buf[i] = At(hdr[1], HeaderLen + i - 1)
    /\ srv_pc \in {"open", "write"} =>
          \A i \in 1 .. hdr[1].len : frame_buf[i] = At(hdr[1], HeaderLen + i - 1)
    /\ srv_pc = "write" =>
          /\ Len(files[hdr[1].seq]) = got
          /\ \A i \in 1 .. got : files[hdr[1].seq][i] = At(hdr[1], HeaderLen + i - 1)

FInv == TypeOK /\ ControlInv /\ ArrivalInv /\ HeaderInv /\ PayloadInv /\ FilesWhole

-----------------------------------------------------------------------------
(* Bytes and sequences of bytes.                                           *)

\* Another offset leaves the other fields of a byte alone.
LEMMA AtFacts ==
    ASSUME NEW b \in Byte, NEW k \in Nat, NEW m \in Nat
    PROVE  /\ At(b, k) \in Byte /\ At(At(b, k), m) = At(b, m)
           /\ At(b, k).seq = b.seq /\ At(b, k).len = b.len /\ At(b, k).proto = b.proto
           /\ At(b, k).off = k /\ b.len \in Nat /\ b.off \in Nat
BY DEF Byte, At

\* What resize() fills a buffer with is a byte.
LEMMA ZeroByteType == ZeroByte \in Byte
BY DEF ZeroByte, Byte

\* The n bytes behind the first p of a sequence.
LEMMA PieceFacts ==
    ASSUME NEW T, NEW s \in Seq(T), NEW p \in Nat, NEW n \in Nat, p + n <= Len(s)
    PROVE  /\ SubSeq(s, p + 1, p + n) \in Seq(T) /\ Len(SubSeq(s, p + 1, p + n)) = n
           /\ \A i \in 1 .. n : SubSeq(s, p + 1, p + n)[i] = s[p + i]
OBVIOUS

\* One sequence behind another.
LEMMA JoinFacts ==
    ASSUME NEW s \in Seq(Byte), NEW t \in Seq(Byte)
    PROVE  /\ s \o t \in Seq(Byte) /\ Len(s \o t) = Len(s) + Len(t)
           /\ \A i \in 1 .. Len(s) : (s \o t)[i] = s[i]
           /\ \A j \in 1 .. Len(t) : (s \o t)[Len(s) + j] = t[j]
OBVIOUS

\* resize() of the frame buffer makes room for the payload.
LEMMA ResizedFacts ==
    ASSUME NEW buf \in Seq(Byte), NEW n \in Nat
    PROVE  /\ Resized(buf, n) \in Seq(Byte)
           /\ Len(Resized(buf, n)) = IF n > Len(buf) THEN n ELSE Len(buf)
<1> DEFINE l == IF n > Len(buf) THEN n ELSE Len(buf)
<1>1. l \in Nat
  OBVIOUS
<1>2. \A i \in 1 .. l : (IF i <= Len(buf) THEN buf[i] ELSE ZeroByte) \in Byte
  BY ZeroByteType
<1>3. Resized(buf, n) = [i \in 1 .. l |-> IF i <= Len(buf) THEN buf[i] ELSE ZeroByte]
  BY DEF Resized
<1> HIDE DEF l
<1>4. Resized(buf, n) \in Seq(Byte) /\ Len(Resized(buf, n)) = l
  BY <1>1, <1>2, <1>3
<1> QED BY <1>4 DEF l

\* write() at the end of a file appends.
LEMMA OverwriteFacts ==
    ASSUME NEW old \in Seq(Byte), NEW data \in Seq(Byte)
    PROVE  /\ Overwrite(old, Len(old), data) \in Seq(Byte)
           /\ Len(Overwrite(old, Len(old), data)) = Len(old) + Len(data)
           /\ \A i \in 1 .. Len(old) : Overwrite(old, Len(old), data)[i] = old[i]
           /\ \A j \in 1 .. Len(data) : Overwrite(old, Len(old), data)[Len(old) + j] = data[j]
<1> DEFINE a == Len(old)
           b == Len(data)
           v == Overwrite(old, a, data)
<1>1. a \in Nat /\ b \in Nat
  OBVIOUS
<1>2. (IF a + b > a THEN a + b ELSE a) = a + b
  BY <1>1
<1>3. v = [i \in 1 .. (a + b) |-> IF a < i /\ i <= a + b THEN data[i - a] ELSE old[i]]
  BY <1>2 DEF Overwrite
<1>4. \A i \in 1 .. (a + b) : (IF a < i /\ i <= a + b THEN data[i - a] ELSE old[i]) \in Byte
  <2> SUFFICES ASSUME NEW i \in 1 .. (a + b)
               PROVE  (IF a < i /\ i <= a + b THEN data[i - a] ELSE old[i]) \in Byte
    OBVIOUS
  <2>1. CASE a < i
    <3>1. i - a \in 1 .. b
      BY <1>1, <2>1
    <3> QED BY <2>1, <3>1
  <2>2. CASE i <= a
    <3>1. i \in 1 .. a
      BY <1>1, <2>2
    <3> QED BY <1>1, <2>2, <3>1
  <2> QED BY <1>1, <2>1, <2>2
<1>5. v \in Seq(Byte) /\ Len(v) = a + b
  BY <1>1, <1>3, <1>4
<1>6. \A i \in 1 .. a : v[i] = old[i]
  BY <1>1, <1>3
<1>7. \A j \in 1 .. b : v[a + j] = data[j]
  <2> SUFFICES ASSUME NEW j \in 1 .. b PROVE v[a + j] = data[j]
    OBVIOUS
  <2>1. a + j \in 1 .. (a + b) /\ a < a + j /\ a + j <= a + b /\ (a + j) - a = j
    BY <1>1
  <2> QED BY <1>3, <2>1
<1> QED BY <1>5, <1>6, <1>7

\* A client that breaks off has sent a part of its frames.
LEMMA PrefixCoherent ==
    ASSUME NEW s \in Seq(Byte), Coherent(s), NEW n \in 0 .. Len(s)
    PROVE  Coherent(SubSeq(s, 1, n))
<1> DEFINE t == SubSeq(s, 1, n)
<1>1. n \in Nat /\ Len(t) = n /\ \A i \in 1 .. n : i \in 1 .. Len(s) /\ t[i] = s[i]
  OBVIOUS
<1> HIDE DEF t
<1>2. Coherent(t)
  BY <1>1 DEF Coherent
<1> QED BY <1>2 DEF t

-----------------------------------------------------------------------------
(* FInv is inductive.                                                      *)

\* Nothing has arrived before the server listens.
LEMMA InitFInv == Init => FInv
<1> SUFFICES ASSUME Init PROVE FInv
  OBVIOUS
<1>1. g_running \in BOOLEAN /\ ssl_ctx \in BOOLEAN /\ server_fd \in BOOLEAN
  BY Zenon DEF Init
<1>2. TypeOK
  BY <1>1, HeaderAssumption, ConnsAssumption DEF Init, TypeOK, SrvPC
<1>3. ControlInv /\ HeaderInv /\ PayloadInv
  BY DEF Init, ControlInv, HeaderInv, PayloadInv, Serving
<1>4. ArrivalInv
  <2>1. 0 \in 0 .. MaxConns /\ \A c \in Conns : ending[c] = "none" /\ ~(c <= 0)
    BY ConnsAssumption DEF Init, Conns
  <2>2. \A c \in Conns : pos[c] = 0 /\ stream[c] = <<>>
    BY DEF Init
  <2>3. Coherent(<<>>)
    BY DEF Coherent
  <2>4. \E m \in 0 .. MaxConns : \A c \in Conns : ending[c] # "none" <=> c <= m
    BY <2>1
  <2>5. conn = NoConn /\ backlog = <<>>
    BY DEF Init
  <2> QED BY <2>2, <2>3, <2>4, <2>5 DEF ArrivalInv
<1>5. FilesWhole
  BY DEF Init, FilesWhole
<1> QED BY <1>2, <1>3, <1>4, <1>5 DEF FInv

\* A step that writes no file and leaves no write() unfinished keeps the files whole.
LEMMA FilesStay ==
    ASSUME FilesWhole, UNCHANGED <<files, failed_saves>>,
           srv_pc # "write" \/ UNCHANGED <<srv_pc, hdr>>
    PROVE  FilesWhole'
<1> SUFFICES ASSUME NEW s \in Seqs, files'[s] # <<>>
             PROVE  /\ \A i \in 1 .. Len(files'[s]) :
                          files'[s][i] = [files'[s][1] EXCEPT !.off = HeaderLen + i - 1]
                    /\ files'[s][1].seq = s /\ files'[s][1].proto = "FRAM 1"
                    /\ \/ Len(files'[s]) = files'[s][1].len
                       \/ s \in failed_saves'
                       \/ srv_pc' = "write" /\ hdr'[1].seq = s
  BY DEF FilesWhole
<1>1. files' = files /\ failed_saves' = failed_saves
  OBVIOUS
<1>2. /\ \A i \in 1 .. Len(files[s]) :
            files[s][i] = [files[s][1] EXCEPT !.off = HeaderLen + i - 1]
      /\ files[s][1].seq = s /\ files[s][1].proto = "FRAM 1"
      /\ \/ Len(files[s]) = files[s][1].len
         \/ s \in failed_saves
         \/ srv_pc = "write" /\ hdr[1].seq = s
  BY <1>1 DEF FilesWhole
<1> QED BY <1>1, <1>2

\* A step that leaves the connections alone, and serves the same one or none.
LEMMA ArrivalStays ==
    ASSUME ArrivalInv, UNCHANGED <<stream, ending, pos>>, backlog' \in {backlog, <<>>},
           conn' \in {conn, NoConn}
    PROVE  ArrivalInv'
BY DEF ArrivalInv

\* Steps of main() outside handleClient(), and the signal: only the program counter, the
\* flag, the context and the listening socket change.
LEMMA ControlStep ==
    ASSUME FInv,
           \/ ParseArgs \/ CreateSslContext \/ CreateSocket \/ BindListen
           \/ LoopTop \/ LoopExit \/ SelectNothing \/ AcceptFails \/ SslAccept
           \/ ClientLoop \/ signalHandler
    PROVE  FInv'
<1>a. TypeOK /\ ControlInv /\ ArrivalInv /\ HeaderInv /\ PayloadInv /\ FilesWhole
  BY DEF FInv
<1>1. UNCHANGED <<conn, open_conns, hdr, frame_buf, got, frames_received, bytes_received,
                  frames_saved, files, failed_saves, backlog, stream, ending, pos>>
  BY DEF ParseArgs, CreateSslContext, CreateSocket, BindListen, LoopTop, LoopExit,
         SelectNothing, AcceptFails, SslAccept, ClientLoop, signalHandler, Goto,
         readVars, statVars, fileVars, netVars
<1>2. g_running' \in BOOLEAN /\ ssl_ctx' \in BOOLEAN /\ server_fd' \in BOOLEAN
  <2>1. g_running \in BOOLEAN /\ ssl_ctx \in BOOLEAN /\ server_fd \in BOOLEAN
    BY <1>a DEF TypeOK
  <2>2. g_running' \in {g_running, FALSE} /\ ssl_ctx' \in {ssl_ctx, TRUE, FALSE}
        /\ server_fd' \in {server_fd, TRUE, FALSE}
    BY DEF ParseArgs, CreateSslContext, CreateSocket, BindListen, LoopTop, LoopExit,
           SelectNothing, AcceptFails, SslAccept, ClientLoop, signalHandler, Goto, mainVars
  <2> QED BY <2>1, <2>2, Zenon
<1>3. /\ srv_pc' \in SrvPC
      /\ \/ srv_pc' = srv_pc
         \/ srv_pc \notin Serving /\ srv_pc' \notin Serving
         \/ srv_pc = "handshake" /\ srv_pc' = "loop"
         \/ srv_pc = "loop" /\ srv_pc' = "header"
  BY <1>a DEF ParseArgs, CreateSslContext, CreateSocket, BindListen, LoopTop, LoopExit,
         SelectNothing, AcceptFails, SslAccept, ClientLoop, signalHandler, Goto, SrvPC, Serving,
         TypeOK
<1>4. TypeOK'
  BY <1>a, <1>1, <1>2, <1>3 DEF TypeOK
<1>5. /\ srv_pc' \in {"args", "context", "stopped"} => ~ssl_ctx'
      /\ srv_pc' \in {"args", "context", "socket", "stopped"} => ~server_fd'
  BY <1>a DEF ParseArgs, CreateSslContext, CreateSocket, BindListen, LoopTop, LoopExit,
         SelectNothing, AcceptFails, SslAccept, ClientLoop, signalHandler, Goto, mainVars,
         ControlInv
<1>6. ControlInv'
  BY <1>a, <1>1, <1>3, <1>5 DEF ControlInv, Serving
<1>7. ArrivalInv'
  BY <1>a, <1>1, ArrivalStays
<1>8. HeaderInv'
  <2>1. CASE srv_pc' = srv_pc
    BY <1>a, <1>1, <2>1 DEF HeaderInv
  <2>2. CASE srv_pc = "loop" /\ srv_pc' = "header"
    <3>1. hdr = <<>> /\ conn \in Conns
      BY <1>a, <2>2 DEF HeaderInv, ControlInv, TypeOK, Serving
    <3>2. pos[conn] \in Nat
      BY <1>a, <3>1 DEF TypeOK
    <3> QED BY <1>1, <2>2, <3>1, <3>2 DEF HeaderInv
  <2>3. CASE \/ srv_pc \notin Serving /\ srv_pc' \notin Serving
             \/ srv_pc = "handshake" /\ srv_pc' = "loop"
    BY <1>a, <1>1, <2>3 DEF HeaderInv, Serving
  <2> QED BY <1>3, <2>1, <2>2, <2>3
<1>9. PayloadInv'
  BY <1>a, <1>1, <1>3 DEF PayloadInv, Serving
<1>10. FilesWhole'
  BY <1>a, <1>1, <1>3, FilesStay DEF Serving
<1> QED BY <1>4, <1>6, <1>7, <1>8, <1>9, <1>10 DEF FInv

\* A connection is taken from the backlog, and closed again.
LEMMA ConnectionStep ==
    ASSUME FInv, Accept \/ SslAcceptFails \/ Cleanup \/ Final \/ Sigpipe
    PROVE  FInv'
<1>a. TypeOK /\ ControlInv /\ ArrivalInv /\ HeaderInv /\ PayloadInv /\ FilesWhole
  BY DEF FInv
<1>1. UNCHANGED <<g_running, hdr, frame_buf, got, frames_received, bytes_received,
                  frames_saved, files, failed_saves, stream, ending, pos>>
  BY DEF Accept, SslAcceptFails, Cleanup, Final, Sigpipe, mainVars, readVars, statVars,
         fileVars, netVars
<1>2. g_running' \in BOOLEAN /\ ssl_ctx' \in BOOLEAN /\ server_fd' \in BOOLEAN
  <2>1. g_running \in BOOLEAN /\ ssl_ctx \in BOOLEAN /\ server_fd \in BOOLEAN
    BY <1>a DEF TypeOK
  <2>2. ssl_ctx' \in {ssl_ctx, FALSE} /\ server_fd' \in {server_fd, FALSE}
    BY DEF Accept, SslAcceptFails, Cleanup, Final, Sigpipe, mainVars
  <2> QED BY <1>1, <2>1, <2>2, Zenon
<1>3. /\ srv_pc \in {"select", "handshake", "cleanup", "final"}
      /\ srv_pc' \in {"handshake", "top", "stopped", "killed"}
  BY DEF Accept, SslAcceptFails, Cleanup, Final, Sigpipe
<1>4. HeaderInv' /\ PayloadInv'
  BY <1>a, <1>1, <1>3 DEF HeaderInv, PayloadInv
<1>5. FilesWhole'
  BY <1>a, <1>1, <1>3, FilesStay
<1>6. CASE Accept
  <2>1. /\ backlog # <<>> /\ conn' = Head(backlog) /\ backlog' = Tail(backlog)
        /\ open_conns' = open_conns \cup {Head(backlog)}
        /\ srv_pc = "select" /\ srv_pc' = "handshake" /\ UNCHANGED <<ssl_ctx, server_fd>>
    BY <1>6 DEF Accept, mainVars
  <2>2. backlog \in Seq(Conns)
    BY <1>a DEF TypeOK
  <2>3. /\ Head(backlog) \in Conns /\ Head(backlog) = backlog[1] /\ 1 \in 1 .. Len(backlog)
        /\ Tail(backlog) \in Seq(Conns)
    BY <2>1, <2>2
  <2>4. \A i \in 1 .. Len(Tail(backlog)) : i + 1 \in 1 .. Len(backlog)
                                           /\ Tail(backlog)[i] = backlog[i + 1]
    BY <2>1, <2>2
  <2>5. TypeOK'
    BY <1>a, <1>1, <1>2, <2>1, <2>3 DEF TypeOK, SrvPC
  <2>6. conn = NoConn /\ NoConn \notin Conns
    BY <1>a, <2>1 DEF ControlInv, Serving, Conns, NoConn
  <2>7. ControlInv'
    BY <1>a, <2>1, <2>3, <2>6 DEF ControlInv, Serving
  <2>8. ArrivalInv'
    BY <1>a, <1>1, <2>1, <2>3, <2>4 DEF ArrivalInv
  <2> QED BY <1>4, <1>5, <2>5, <2>7, <2>8 DEF FInv
<1>7. CASE SslAcceptFails \/ Cleanup
  <2>1. /\ open_conns' = open_conns \ {conn} /\ conn' = NoConn /\ srv_pc' = "top"
        /\ UNCHANGED <<ssl_ctx, server_fd, backlog>>
    BY <1>7 DEF SslAcceptFails, Cleanup, mainVars, netVars
  <2>2. TypeOK'
    BY <1>a, <1>1, <1>2, <2>1 DEF TypeOK, SrvPC
  <2>3. ControlInv'
    BY <1>a, <2>1 DEF ControlInv, Serving
  <2>4. ArrivalInv'
    BY <1>a, <1>1, <2>1, ArrivalStays
  <2> QED BY <1>4, <1>5, <2>2, <2>3, <2>4 DEF FInv
<1>8. CASE Final
  <2>1. /\ UNCHANGED <<conn, open_conns>> /\ srv_pc = "final" /\ srv_pc' = "stopped"
        /\ backlog' = <<>> /\ ssl_ctx' = FALSE /\ server_fd' = FALSE
    BY <1>8 DEF Final
  <2>2. TypeOK'
    BY <1>a, <1>1, <1>2, <2>1 DEF TypeOK, SrvPC
  <2>3. ControlInv'
    BY <1>a, <2>1 DEF ControlInv, Serving
  <2>4. ArrivalInv'
    BY <1>a, <1>1, <2>1, ArrivalStays
  <2> QED BY <1>4, <1>5, <2>2, <2>3, <2>4 DEF FInv
<1>9. CASE Sigpipe
  <2>1. /\ conn' = NoConn /\ open_conns' = {} /\ srv_pc' = "killed"
        /\ backlog' = <<>> /\ ssl_ctx' = FALSE /\ server_fd' = FALSE
    BY <1>9 DEF Sigpipe
  <2>2. TypeOK'
    BY <1>a, <1>1, <1>2, <2>1 DEF TypeOK, SrvPC
  <2>3. ControlInv'
    BY <1>a, <2>1 DEF ControlInv, Serving
  <2>4. ArrivalInv'
    BY <1>a, <1>1, <2>1, ArrivalStays
  <2> QED BY <1>4, <1>5, <2>2, <2>3, <2>4 DEF FInv
<1> QED BY <1>6, <1>7, <1>8, <1>9

\* handleClient() is left, or the file of a frame is not opened: no header is in hand.
LEMMA LeaveStep ==
    ASSUME FInv, ClientLoopExit \/ ReadFails \/ HeaderRejected \/ OpenFails
    PROVE  FInv'
<1>a. TypeOK /\ ControlInv /\ ArrivalInv /\ HeaderInv /\ PayloadInv /\ FilesWhole
  BY DEF FInv
<1>1. /\ UNCHANGED <<g_running, ssl_ctx, server_fd, conn, open_conns, frames_received,
                     bytes_received, frames_saved, files, failed_saves, backlog, stream, ending,
                     pos>>
      /\ srv_pc \in {"loop", "header", "payload", "open"} /\ srv_pc' \in {"cleanup", "loop"}
      /\ hdr' = <<>> /\ frame_buf' \in {frame_buf, <<>>} /\ got' \in {got, 0}
  BY DEF ClientLoopExit, ReadFails, ReadFailure, HeaderRejected, OpenFails, LeaveClient,
         EndOfTurn, mainVars, statVars, fileVars, netVars
<1>2. TypeOK'
  <2>1. hdr' \in Seq(Byte) /\ Len(hdr') <= HeaderLen
    BY <1>1, HeaderAssumption
  <2>2. <<>> \in Seq(Byte) /\ Len(<<>>) <= MaxPayload
    BY HeaderAssumption
  <2>3. frame_buf' \in Seq(Byte) /\ Len(frame_buf') <= MaxPayload /\ got' \in Nat
    <3>1. frame_buf \in Seq(Byte) /\ Len(frame_buf) <= MaxPayload /\ got \in Nat
      BY <1>a DEF TypeOK
    <3>2. frame_buf' \in {frame_buf, <<>>} /\ got' \in {got, 0}
      BY <1>1
    <3>3. frame_buf' \in Seq(Byte) /\ Len(frame_buf') <= MaxPayload
      BY <2>2, <3>1, <3>2, Zenon
    <3>4. got' \in Nat
      BY <3>1, <3>2
    <3> QED BY <3>3, <3>4
  <2>4. srv_pc' \in SrvPC
    BY <1>1 DEF SrvPC
  <2> QED BY <1>a, <1>1, <2>1, <2>3, <2>4 DEF TypeOK
<1>3. ControlInv'
  BY <1>a, <1>1 DEF ControlInv, Serving
<1>4. ArrivalInv'
  BY <1>a, <1>1, ArrivalStays
<1>5. HeaderInv' /\ PayloadInv'
  BY <1>1 DEF HeaderInv, PayloadInv
<1>6. FilesWhole'
  BY <1>a, <1>1, FilesStay
<1> QED BY <1>2, <1>3, <1>4, <1>5, <1>6 DEF FInv

\* What is on hand while a connection is read.
LEMMA ReadingFacts ==
    ASSUME FInv, srv_pc \in Serving
    PROVE  /\ conn \in Conns /\ stream[conn] \in Seq(Byte) /\ pos[conn] \in Nat
           /\ Len(stream[conn]) \in Nat /\ pos[conn] <= Len(stream[conn])
           /\ Coherent(stream[conn])
           /\ \A i \in 1 .. Len(stream[conn]) : stream[conn][i] \in Byte /\ stream[conn][i].seq \in Seqs
           /\ hdr \in Seq(Byte) /\ Len(hdr) \in Nat /\ frame_buf \in Seq(Byte) /\ got \in Nat
           /\ Len(frame_buf) \in Nat /\ HeaderLen \in Nat /\ HeaderLen >= 1
           /\ srv_pc \in {"payload", "open", "write"} => hdr[1] \in Byte /\ hdr[1].len \in Nat
<1>1. conn \in Conns
  BY DEF FInv, TypeOK, ControlInv
<1>2. stream[conn] \in Seq(Byte) /\ pos[conn] \in Nat
  BY <1>1 DEF FInv, TypeOK
<1>3. hdr \in Seq(Byte) /\ frame_buf \in Seq(Byte) /\ got \in Nat
  BY DEF FInv, TypeOK
<1>4. srv_pc \in {"payload", "open", "write"} => hdr[1] \in Byte
  <2>1. srv_pc \in {"payload", "open", "write"} => Len(hdr) = HeaderLen
    BY DEF FInv, HeaderInv
  <2>2. 1 \in 1 .. HeaderLen
    BY HeaderAssumption
  <2> QED BY <1>3, <2>1, <2>2
<1>5. \A b \in Byte : b.len \in Nat
  BY DEF Byte
<1>6. /\ pos[conn] <= Len(stream[conn]) /\ Coherent(stream[conn])
      /\ \A i \in 1 .. Len(stream[conn]) : stream[conn][i].seq \in Seqs
  BY <1>1 DEF FInv, ArrivalInv
<1> QED BY <1>1, <1>2, <1>3, <1>4, <1>5, <1>6, HeaderAssumption

\* SSL_read() gives the next bytes of the header.
LEMMA ReadHeaderStep ==
    ASSUME FInv, ReadHeader
    PROVE  FInv'
<1>a. TypeOK /\ ControlInv /\ ArrivalInv /\ HeaderInv /\ PayloadInv /\ FilesWhole
  BY DEF FInv
<1> DEFINE s == stream[conn]
           p == pos[conn]
           l == Len(hdr)
<1>1. srv_pc = "header" /\ srv_pc \in Serving
  BY DEF ReadHeader, Serving
<1>2. /\ conn \in Conns /\ s \in Seq(Byte) /\ p \in Nat /\ Len(s) \in Nat /\ p <= Len(s)
      /\ hdr \in Seq(Byte) /\ l \in Nat /\ HeaderLen \in Nat
  BY <1>1, ReadingFacts
<1>3. PICK n \in 1 .. (HeaderLen - l) :
         /\ n <= Len(s) - p
         /\ hdr' = hdr \o SubSeq(s, p + 1, p + n)
         /\ pos' = [pos EXCEPT ![conn] = p + n]
  BY DEF ReadHeader, Arriving, Unread
<1>4. UNCHANGED <<srv_pc, g_running, ssl_ctx, server_fd, conn, open_conns, frame_buf, got,
                  frames_received, bytes_received, frames_saved, files, failed_saves, backlog,
                  stream, ending>>
  BY DEF ReadHeader, mainVars, statVars, fileVars, netVars
<1>5. n \in Nat /\ n >= 1 /\ p + n <= Len(s) /\ l + n <= HeaderLen
  <2>1. n \in 1 .. (HeaderLen - l) /\ n <= Len(s) - p
    BY <1>3
  <2> HIDE DEF s, p, l
  <2> QED BY <1>2, <2>1
<1> HIDE DEF s, p
<1> DEFINE t == SubSeq(s, p + 1, p + n)
<1>6. t \in Seq(Byte) /\ Len(t) = n /\ \A i \in 1 .. n : t[i] = s[p + i]
  BY <1>2, <1>5, PieceFacts
<1>7. l <= p /\ \A i \in 1 .. l : hdr[i] = s[p - l + i]
  BY <1>a, <1>1 DEF HeaderInv, s, p
<1>8. hdr' = hdr \o t
  BY <1>3
<1>9. pos \in [Conns -> Nat]
  BY <1>a DEF TypeOK
<1>10. /\ pos' \in [Conns -> Nat] /\ pos'[conn] = p + n
       /\ \A c \in Conns : c # conn => pos'[c] = pos[c]
  BY <1>2, <1>3, <1>5, <1>9
<1> HIDE DEF t
<1>11. /\ hdr' \in Seq(Byte) /\ Len(hdr') = l + n
       /\ \A i \in 1 .. l : hdr'[i] = hdr[i]
       /\ \A j \in 1 .. n : hdr'[l + j] = t[j]
  <2>1. hdr \in Seq(Byte) /\ t \in Seq(Byte) /\ Len(t) = n
    BY <1>2, <1>6
  <2>2. /\ hdr \o t \in Seq(Byte) /\ Len(hdr \o t) = Len(hdr) + Len(t)
        /\ \A i \in 1 .. Len(hdr) : (hdr \o t)[i] = hdr[i]
        /\ \A j \in 1 .. Len(t) : (hdr \o t)[Len(hdr) + j] = t[j]
    BY <2>1, JoinFacts
  <2> QED BY <1>8, <2>1, <2>2
<1> HIDE DEF l
<1>12. TypeOK'
  BY <1>a, <1>4, <1>5, <1>10, <1>11 DEF TypeOK
<1>13. ControlInv' /\ PayloadInv'
  BY <1>a, <1>1, <1>4 DEF ControlInv, PayloadInv
<1>14. ArrivalInv'
  <2>1. \A c \in Conns : pos'[c] <= Len(stream[c])
    BY <1>a, <1>5, <1>10 DEF ArrivalInv, s
  <2>2. ending[conn] # "none"
    BY <1>a, <1>1 DEF ArrivalInv, ControlInv
  <2>3. \A c \in Conns : ending[c] = "none" => pos'[c] = 0
    BY <1>a, <1>10, <2>2 DEF ArrivalInv
  <2> QED BY <1>a, <1>4, <2>1, <2>3 DEF ArrivalInv
<1>15. HeaderInv'
  <2>1. l + n <= p + n
    BY <1>2, <1>5, <1>7
  <2>2. \A i \in 1 .. (l + n) : hdr'[i] = s[(p + n) - (l + n) + i]
    <3> SUFFICES ASSUME NEW i \in 1 .. (l + n)
                 PROVE  hdr'[i] = s[(p + n) - (l + n) + i]
      OBVIOUS
    <3>1. (p + n) - (l + n) + i = p - l + i
      BY <1>2, <1>5
    <3>2. CASE i <= l
      <4>1. i \in 1 .. l
        BY <1>2, <3>2
      <4> QED BY <1>7, <1>11, <3>1, <4>1
    <3>3. CASE i > l
      <4> DEFINE j == i - l
      <4>1. j \in 1 .. n /\ i = l + j /\ p - l + i = p + j
        BY <1>2, <1>5, <3>3
      <4> HIDE DEF j
      <4>2. hdr'[i] = t[j] /\ t[j] = s[p + j]
        BY <1>6, <1>11, <4>1
      <4> QED BY <3>1, <4>1, <4>2
    <3> QED BY <1>2, <3>2, <3>3
  <2>3. pos'[conn'] = p + n /\ stream'[conn'] = s
    BY <1>4, <1>10 DEF s
  <2> QED BY <1>1, <1>4, <1>11, <2>1, <2>2, <2>3 DEF HeaderInv
<1>16. FilesWhole'
  BY <1>a, <1>1, <1>4, FilesStay
<1> QED BY <1>12, <1>13, <1>14, <1>15, <1>16 DEF FInv

\* A header of the protocol announces a payload of the frame whose header it is.
LEMMA HeaderAcceptedStep ==
    ASSUME FInv, HeaderAccepted
    PROVE  FInv'
<1>a. TypeOK /\ ControlInv /\ ArrivalInv /\ HeaderInv /\ PayloadInv /\ FilesWhole
  BY DEF FInv
<1> DEFINE s == stream[conn]
           p == pos[conn]
           h == hdr[1]
<1>1. srv_pc = "header" /\ srv_pc \in Serving
  BY DEF HeaderAccepted, Serving
<1>2. /\ conn \in Conns /\ s \in Seq(Byte) /\ p \in Nat /\ Len(s) \in Nat /\ p <= Len(s)
      /\ hdr \in Seq(Byte) /\ HeaderLen \in Nat /\ HeaderLen >= 1 /\ frame_buf \in Seq(Byte)
      /\ \A i \in 1 .. Len(s) : s[i] \in Byte /\ s[i].seq \in Seqs
  BY <1>1, ReadingFacts
<1>3. /\ Len(hdr) = HeaderLen /\ ValidHeader(hdr) /\ ~(h.len > MaxPayload)
      /\ frame_buf' = Resized(frame_buf, h.len) /\ got' = 0 /\ srv_pc' = "payload"
      /\ UNCHANGED <<g_running, ssl_ctx, server_fd, conn, open_conns, hdr, frames_received,
                     bytes_received, frames_saved, files, failed_saves, backlog, stream, ending,
                     pos>>
  BY DEF HeaderAccepted, TooLarge, mainVars, statVars, fileVars, netVars
<1>4. HeaderLen <= p /\ \A i \in 1 .. HeaderLen : hdr[i] = s[p - HeaderLen + i]
  BY <1>a, <1>1, <1>3 DEF HeaderInv
<1>5. 1 \in 1 .. HeaderLen /\ HeaderLen \in 1 .. HeaderLen
  BY <1>2
<1>6. h = s[p - HeaderLen + 1] /\ p - HeaderLen + 1 \in 1 .. Len(s)
  BY <1>2, <1>4, <1>5
<1>7. h \in Byte /\ h.seq \in Seqs
  BY <1>2, <1>6
<1>8. h.len \in Nat
  BY <1>7 DEF Byte
<1>9. hdr[HeaderLen] = s[p]
  <2>1. p - HeaderLen + HeaderLen = p
    BY <1>2
  <2> QED BY <1>4, <1>5, <2>1
<1>10. hdr[HeaderLen] = At(h, HeaderLen - 1) /\ h.proto = "FRAM 1"
  BY <1>3, <1>5 DEF ValidHeader, At
<1>11. /\ frame_buf' \in Seq(Byte)
       /\ Len(frame_buf') = IF h.len > Len(frame_buf) THEN h.len ELSE Len(frame_buf)
  BY <1>2, <1>3, <1>8, ResizedFacts
<1>12. Len(frame_buf) <= MaxPayload /\ Len(frame_buf) \in Nat /\ MaxPayload \in Nat
  BY <1>a, <1>2, HeaderAssumption DEF TypeOK
<1> HIDE DEF s, p, h
<1>13. Len(frame_buf') <= MaxPayload /\ h.len <= Len(frame_buf')
  BY <1>3, <1>8, <1>11, <1>12
<1>14. TypeOK'
  BY <1>a, <1>3, <1>11, <1>13 DEF TypeOK, SrvPC
<1>15. ControlInv'
  BY <1>a, <1>1, <1>3 DEF ControlInv, Serving
<1>16. ArrivalInv'
  BY <1>a, <1>3, ArrivalStays
<1>17. HeaderInv'
  <2>1. Len(hdr') = HeaderLen /\ hdr'[1].seq \in Seqs /\ hdr'[1].proto = "FRAM 1"
    BY <1>3, <1>7, <1>10 DEF h
  <2>2. hdr'[1].len <= Len(frame_buf') /\ got' <= hdr'[1].len
    BY <1>3, <1>8, <1>13 DEF h
  <2> QED BY <1>3, <2>1, <2>2 DEF HeaderInv
<1>18. PayloadInv'
  <2>1. HeaderLen + 0 - 1 = HeaderLen - 1 /\ p >= 1
    BY <1>2, <1>4
  <2>2. stream'[conn'][pos'[conn']] = At(hdr'[1], HeaderLen + got' - 1) /\ pos'[conn'] >= 1
    BY <1>3, <1>9, <1>10, <2>1 DEF s, p, h
  <2>3. \A i \in 1 .. got' : FALSE
    BY <1>3
  <2> QED BY <1>3, <2>2, <2>3 DEF PayloadInv
<1>19. FilesWhole'
  BY <1>a, <1>1, <1>3, FilesStay
<1> QED BY <1>14, <1>15, <1>16, <1>17, <1>18, <1>19 DEF FInv

\* SSL_read() gives the next bytes of the payload, which are those of the same frame.
LEMMA ReadPayloadStep ==
    ASSUME FInv, ReadPayload
    PROVE  FInv'
<1>a. TypeOK /\ ControlInv /\ ArrivalInv /\ HeaderInv /\ PayloadInv /\ FilesWhole
  BY DEF FInv
<1> DEFINE s == stream[conn]
           p == pos[conn]
           h == hdr[1]
<1>1. srv_pc = "payload" /\ srv_pc \in Serving
  BY DEF ReadPayload, Serving
<1>2. /\ conn \in Conns /\ s \in Seq(Byte) /\ p \in Nat /\ Len(s) \in Nat /\ p <= Len(s)
      /\ Coherent(s) /\ HeaderLen \in Nat /\ HeaderLen >= 1 /\ frame_buf \in Seq(Byte)
      /\ h \in Byte /\ h.len \in Nat /\ got \in Nat /\ Len(frame_buf) \in Nat
  BY <1>1, ReadingFacts
<1>3. PICK n \in 1 .. (h.len - got) :
         /\ n <= Len(s) - p
         /\ frame_buf' = [i \in 1 .. Len(frame_buf) |->
                             IF got < i /\ i <= got + n THEN SubSeq(s, p + 1, p + n)[i - got]
                                                        ELSE frame_buf[i]]
         /\ got' = got + n
         /\ pos' = [pos EXCEPT ![conn] = p + n]
  BY DEF ReadPayload, Arriving, Unread
<1>4. UNCHANGED <<srv_pc, g_running, ssl_ctx, server_fd, conn, open_conns, hdr,
                  frames_received, bytes_received, frames_saved, files, failed_saves, backlog,
                  stream, ending>>
  BY DEF ReadPayload, mainVars, statVars, fileVars, netVars
<1>5. n \in Nat /\ n >= 1 /\ p + n <= Len(s) /\ got + n <= h.len
  BY <1>2, <1>3
<1> HIDE DEF s, p
<1> DEFINE t == SubSeq(s, p + 1, p + n)
<1>6. t \in Seq(Byte) /\ Len(t) = n /\ \A i \in 1 .. n : t[i] = s[p + i]
  BY <1>2, <1>5, PieceFacts
<1>7. /\ p >= 1 /\ s[p] = At(h, HeaderLen + got - 1) /\ h.len <= Len(frame_buf)
      /\ \A i \in 1 .. got : frame_buf[i] = At(h, HeaderLen + i - 1)
  BY <1>a, <1>1 DEF PayloadInv, HeaderInv, s, p
<1>8. pos \in [Conns -> Nat]
  BY <1>a DEF TypeOK
<1>9. /\ pos' \in [Conns -> Nat] /\ pos'[conn] = p + n
      /\ \A c \in Conns : c # conn => pos'[c] = pos[c]
  BY <1>2, <1>3, <1>5, <1>8
<1>10. frame_buf' = [i \in 1 .. Len(frame_buf) |->
                        IF got < i /\ i <= got + n THEN t[i - got] ELSE frame_buf[i]]
  BY <1>3
<1> HIDE DEF h, t
<1>11. ASSUME NEW k \in 1 .. n
       PROVE  s[p + k] = At(h, HeaderLen + got + k - 1)
  <2> DEFINE a == HeaderLen + got - 1
  <2>1. a \in Nat /\ a + k \in Nat /\ a + k = HeaderLen + got + k - 1 /\ k \in Nat
        /\ a + k < HeaderLen + h.len
    BY <1>2, <1>5
  <2>2. /\ p \in 1 .. Len(s) /\ p + k \in 1 .. Len(s) /\ p <= p + k /\ (p + k) - p = k
    BY <1>2, <1>5, <1>7
  <2>3. s[p] = At(h, a)
    BY <1>7
  <2> HIDE DEF a
  <2>4. s[p].off = a /\ s[p].len = h.len
    BY <1>2, <2>1, <2>3, AtFacts
  <2>5. s[p].off + ((p + k) - p) < HeaderLen + s[p].len
    BY <2>1, <2>2, <2>4
  <2>6. s[p + k] = [s[p] EXCEPT !.off = s[p].off + ((p + k) - p)]
    BY <1>2, <2>2, <2>5 DEF Coherent
  <2>7. s[p + k] = At(At(h, a), a + k)
    BY <2>2, <2>3, <2>4, <2>6 DEF At
  <2>8. s[p + k] = At(h, a + k)
    BY <1>2, <2>1, <2>7, AtFacts
  <2> QED BY <2>1, <2>8
<1>12. /\ frame_buf' \in Seq(Byte) /\ Len(frame_buf') = Len(frame_buf)
  <2>1. \A i \in 1 .. Len(frame_buf) :
           (IF got < i /\ i <= got + n THEN t[i - got] ELSE frame_buf[i]) \in Byte
    <3> SUFFICES ASSUME NEW i \in 1 .. Len(frame_buf)
                 PROVE  (IF got < i /\ i <= got + n THEN t[i - got] ELSE frame_buf[i]) \in Byte
      OBVIOUS
    <3>1. got < i /\ i <= got + n => i - got \in 1 .. Len(t)
      BY <1>2, <1>5, <1>6
    <3>2. \A j \in 1 .. Len(t) : t[j] \in Byte
      BY <1>6
    <3>3. frame_buf[i] \in Byte
      BY <1>2
    <3> QED BY <3>1, <3>2, <3>3
  <2> QED BY <1>2, <1>10, <2>1
<1>13. \A i \in 1 .. (got + n) : frame_buf'[i] = At(h, HeaderLen + i - 1)
  <2> SUFFICES ASSUME NEW i \in 1 .. (got + n)
               PROVE  frame_buf'[i] = At(h, HeaderLen + i - 1)
    OBVIOUS
  <2>1. i \in 1 .. Len(frame_buf)
    BY <1>2, <1>5, <1>7
  <2>2. CASE i <= got
    <3>1. i \in 1 .. got
      BY <1>2, <2>2
    <3>2. frame_buf'[i] = frame_buf[i]
      BY <1>2, <1>10, <2>1, <2>2
    <3> QED BY <1>7, <3>1, <3>2
  <2>3. CASE got < i
    <3> DEFINE k == i - got
    <3>1. k \in 1 .. n /\ i <= got + n /\ HeaderLen + got + k - 1 = HeaderLen + i - 1
      BY <1>2, <1>5, <2>3
    <3>2. frame_buf'[i] = t[k]
      BY <1>10, <2>1, <2>3, <3>1
    <3> HIDE DEF k
    <3>3. t[k] = s[p + k] /\ s[p + k] = At(h, HeaderLen + got + k - 1)
      BY <1>6, <1>11, <3>1
    <3> QED BY <3>1, <3>2, <3>3
  <2> QED BY <1>2, <2>2, <2>3
<1>14. TypeOK'
  BY <1>a, <1>2, <1>3, <1>4, <1>5, <1>9, <1>12 DEF TypeOK
<1>15. ControlInv'
  BY <1>a, <1>4 DEF ControlInv
<1>16. ArrivalInv'
  <2>1. \A c \in Conns : pos'[c] <= Len(stream[c])
    BY <1>a, <1>5, <1>9 DEF ArrivalInv, s
  <2>2. ending[conn] # "none"
    BY <1>a, <1>1 DEF ArrivalInv, ControlInv
  <2>3. \A c \in Conns : ending[c] = "none" => pos'[c] = 0
    BY <1>a, <1>9, <2>2 DEF ArrivalInv
  <2> QED BY <1>a, <1>4, <2>1, <2>3 DEF ArrivalInv
<1>17. HeaderInv'
  BY <1>a, <1>1, <1>3, <1>4, <1>5, <1>12 DEF HeaderInv, h
<1>18. PayloadInv'
  <2>1. n \in 1 .. n /\ p + n >= 1
    BY <1>2, <1>5
  <2>2. s[p + n] = At(h, HeaderLen + got + n - 1)
    BY <1>11, <2>1
  <2>3. HeaderLen + (got + n) - 1 = HeaderLen + got + n - 1
    BY <1>2, <1>5
  <2>4. pos'[conn'] >= 1 /\ stream'[conn'][pos'[conn']] = At(hdr'[1], HeaderLen + got' - 1)
    BY <1>3, <1>4, <1>9, <2>1, <2>2, <2>3 DEF s, h
  <2>5. \A i \in 1 .. got' : frame_buf'[i] = At(hdr'[1], HeaderLen + i - 1)
    BY <1>3, <1>4, <1>13 DEF h
  <2> QED BY <1>1, <1>4, <2>4, <2>5 DEF PayloadInv
<1>19. FilesWhole'
  BY <1>a, <1>1, <1>4, FilesStay
<1> QED BY <1>14, <1>15, <1>16, <1>17, <1>18, <1>19 DEF FInv

\* The frame was read, and is saved, or not.
LEMMA FrameReceivedStep ==
    ASSUME FInv, FrameReceived
    PROVE  FInv'
<1>a. TypeOK /\ ControlInv /\ ArrivalInv /\ HeaderInv /\ PayloadInv /\ FilesWhole
  BY DEF FInv
<1>1. srv_pc = "payload" /\ srv_pc \in Serving /\ got = hdr[1].len
  BY DEF FrameReceived, ReceivedAll, Serving
<1>2. hdr[1].len \in Nat /\ HeaderLen \in Nat
  BY <1>1, ReadingFacts
<1>3. /\ UNCHANGED <<g_running, ssl_ctx, server_fd, conn, open_conns, frame_buf, got,
                     frames_saved, files, failed_saves, backlog, stream, ending, pos>>
      /\ frames_received' = frames_received + 1
      /\ bytes_received' = bytes_received + HeaderLen + hdr[1].len
      /\ \/ srv_pc' = "open" /\ hdr' = hdr
         \/ srv_pc' = "loop" /\ hdr' = <<>>
  BY DEF FrameReceived, EndOfTurn, mainVars, fileVars, netVars
<1>4. TypeOK'
  <2>1. frames_received' \in Nat /\ bytes_received' \in Nat /\ srv_pc' \in SrvPC
    BY <1>a, <1>2, <1>3 DEF TypeOK, SrvPC
  <2>2. hdr \in Seq(Byte) /\ Len(hdr) <= HeaderLen
    BY <1>a DEF TypeOK
  <2>3. <<>> \in Seq(Byte) /\ Len(<<>>) <= HeaderLen
    BY <1>2
  <2>4. hdr' \in Seq(Byte) /\ Len(hdr') <= HeaderLen
    BY <1>3, <2>2, <2>3, Zenon
  <2> QED BY <1>a, <1>3, <2>1, <2>4 DEF TypeOK
<1>5. ControlInv'
  BY <1>a, <1>1, <1>3 DEF ControlInv, Serving
<1>6. ArrivalInv'
  BY <1>a, <1>3, ArrivalStays
<1>7. HeaderInv' /\ PayloadInv'
  <2>1. CASE srv_pc' = "open" /\ hdr' = hdr
    BY <1>a, <1>1, <1>3, <2>1 DEF HeaderInv, PayloadInv
  <2>2. CASE srv_pc' = "loop" /\ hdr' = <<>>
    BY <2>2 DEF HeaderInv, PayloadInv
  <2> QED BY <1>3, <2>1, <2>2
<1>8. FilesWhole'
  BY <1>a, <1>1, <1>3, FilesStay
<1> QED BY <1>4, <1>5, <1>6, <1>7, <1>8 DEF FInv

\* What saveFrame() may do to a file: the one of the header in hand changes, and holds the
\* first n bytes of the payload.
LEMMA FileWritten ==
    ASSUME FInv, srv_pc \in {"open", "write"},
           NEW n \in Nat,
           UNCHANGED hdr, srv_pc' = "write",
           files' \in [Seqs -> Seq(Byte)],
           \A s \in Seqs : s # hdr[1].seq =>
               files'[s] = files[s] /\ (s \in failed_saves => s \in failed_saves'),
           Len(files'[hdr[1].seq]) = n,
           \A i \in 1 .. n : files'[hdr[1].seq][i] = At(hdr[1], HeaderLen + i - 1)
    PROVE  FilesWhole'
<1> DEFINE h == hdr[1]
<1>1. h \in Byte /\ HeaderLen \in Nat /\ h.seq \in Seqs /\ h.proto = "FRAM 1"
  BY ReadingFacts DEF FInv, HeaderInv, Serving
<1> SUFFICES ASSUME NEW s \in Seqs, files'[s] # <<>>
             PROVE  /\ \A i \in 1 .. Len(files'[s]) :
                          files'[s][i] = At(files'[s][1], HeaderLen + i - 1)
                    /\ files'[s][1].seq = s /\ files'[s][1].proto = "FRAM 1"
                    /\ \/ Len(files'[s]) = files'[s][1].len
                       \/ s \in failed_saves'
                       \/ srv_pc' = "write" /\ hdr'[1].seq = s
  BY DEF FilesWhole, At
<1>2. CASE s # h.seq
  <2>1. files'[s] = files[s] /\ (s \in failed_saves => s \in failed_saves')
    BY <1>2
  <2>2. /\ \A i \in 1 .. Len(files[s]) : files[s][i] = At(files[s][1], HeaderLen + i - 1)
        /\ files[s][1].seq = s /\ files[s][1].proto = "FRAM 1"
        /\ \/ Len(files[s]) = files[s][1].len
           \/ s \in failed_saves
           \/ srv_pc = "write" /\ hdr[1].seq = s
    BY <2>1 DEF FInv, FilesWhole, At
  <2> QED BY <1>2, <2>1, <2>2
<1>3. CASE s = h.seq
  <2> DEFINE d == files'[s]
  <2>1. d \in Seq(Byte) /\ d # <<>> /\ Len(d) = n
    BY <1>3
  <2>2. n >= 1 /\ 1 \in 1 .. n
    BY <2>1
  <2>3. \A i \in 1 .. n : d[i] = At(h, HeaderLen + i - 1)
    BY <1>3
  <2>h. h \in Byte /\ h.seq = s /\ h.proto = "FRAM 1"
    BY <1>1, <1>3
  <2>k. HeaderLen \in Nat
    BY HeaderAssumption
  <2> HIDE DEF d, h
  <2>4. d[1] = At(h, HeaderLen)
    <3>1. HeaderLen + 1 - 1 = HeaderLen
      BY <2>k
    <3>2. d[1] = At(h, HeaderLen + 1 - 1)
      BY <2>2, <2>3
    <3> QED BY <3>1, <3>2
  <2>5. \A i \in 1 .. n : d[i] = At(d[1], HeaderLen + i - 1)
    <3> SUFFICES ASSUME NEW i \in 1 .. n PROVE d[i] = At(d[1], HeaderLen + i - 1)
      OBVIOUS
    <3>1. HeaderLen + i - 1 \in Nat
      BY <2>k
    <3>2. At(At(h, HeaderLen), HeaderLen + i - 1) = At(h, HeaderLen + i - 1)
      BY <2>h, <2>k, <3>1, AtFacts
    <3> QED BY <2>3, <2>4, <3>2
  <2>6. d[1].seq = s /\ d[1].proto = "FRAM 1"
    <3>1. At(h, HeaderLen).seq = h.seq /\ At(h, HeaderLen).proto = h.proto
      BY <2>h, <2>k, AtFacts
    <3> QED BY <2>h, <2>4, <3>1
  <2>7. srv_pc' = "write" /\ hdr'[1].seq = s
    BY <1>3 DEF h
  <2> QED BY <2>1, <2>5, <2>6, <2>7 DEF d
<1> QED BY <1>2, <1>3

\* open() truncates the file of the frame.
LEMMA OpenFileStep ==
    ASSUME FInv, OpenFile
    PROVE  FInv'
<1>a. TypeOK /\ ControlInv /\ ArrivalInv /\ HeaderInv /\ PayloadInv /\ FilesWhole
  BY DEF FInv
<1>1. srv_pc = "open" /\ srv_pc' = "write" /\ srv_pc \in Serving
  BY DEF OpenFile, Serving
<1>2. /\ UNCHANGED <<g_running, ssl_ctx, server_fd, conn, open_conns, hdr, frame_buf,
                     frames_received, bytes_received, frames_saved, backlog, stream, ending, pos>>
      /\ files' = [files EXCEPT ![hdr[1].seq] = <<>>]
      /\ failed_saves' = failed_saves \ {hdr[1].seq} /\ got' = 0
  BY DEF OpenFile, Truncated, mainVars, statVars, netVars
<1>3. hdr[1].seq \in Seqs /\ hdr[1].len \in Nat
  BY <1>a, <1>1, ReadingFacts DEF HeaderInv
<1>4. files \in [Seqs -> Seq(Byte)] /\ <<>> \in Seq(Byte)
  BY <1>a DEF TypeOK
<1>5. /\ files' \in [Seqs -> Seq(Byte)] /\ files'[hdr[1].seq] = <<>>
      /\ \A s \in Seqs : s # hdr[1].seq => files'[s] = files[s]
  BY <1>2, <1>3, <1>4
<1>6. TypeOK'
  BY <1>a, <1>1, <1>2, <1>5 DEF TypeOK, SrvPC
<1>7. ControlInv' /\ ArrivalInv'
  BY <1>a, <1>1, <1>2, ArrivalStays DEF ControlInv, Serving
<1>8. HeaderInv'
  <2>1. /\ Len(hdr) = HeaderLen /\ hdr[1].seq \in Seqs /\ hdr[1].proto = "FRAM 1"
        /\ hdr[1].len <= Len(frame_buf)
    BY <1>a, <1>1 DEF HeaderInv
  <2>2. 0 <= hdr[1].len
    BY <1>3
  <2> QED BY <1>1, <1>2, <2>1, <2>2 DEF HeaderInv
<1>9. Len(files'[hdr[1].seq]) = 0 /\ \A i \in 1 .. 0 : FALSE
  BY <1>5
<1>10. PayloadInv'
  BY <1>a, <1>1, <1>2, <1>9 DEF PayloadInv
<1>11. FilesWhole'
  BY <1>1, <1>2, <1>5, <1>9, FileWritten
<1> QED BY <1>6, <1>7, <1>8, <1>10, <1>11 DEF FInv

\* write() appends the next bytes of the buffer.
LEMMA WriteFileStep ==
    ASSUME FInv, WriteFile
    PROVE  FInv'
<1>a. TypeOK /\ ControlInv /\ ArrivalInv /\ HeaderInv /\ PayloadInv /\ FilesWhole
  BY DEF FInv
<1> DEFINE h == hdr[1]
           old == files[hdr[1].seq]
<1>1. srv_pc = "write" /\ srv_pc \in Serving
  BY DEF WriteFile, Serving
<1>2. /\ h \in Byte /\ h.len \in Nat /\ h.seq \in Seqs /\ got \in Nat /\ HeaderLen \in Nat
      /\ frame_buf \in Seq(Byte) /\ Len(frame_buf) \in Nat /\ h.len <= Len(frame_buf)
  BY <1>a, <1>1, ReadingFacts DEF HeaderInv
<1>3. PICK n \in 1 .. (h.len - got) :
         /\ files' = [files EXCEPT ![h.seq] =
                         Overwrite(@, got, SubSeq(frame_buf, got + 1, got + n))]
         /\ got' = got + n
  BY DEF WriteFile
<1>4. UNCHANGED <<srv_pc, g_running, ssl_ctx, server_fd, conn, open_conns, hdr, frame_buf,
                  frames_received, bytes_received, frames_saved, failed_saves, backlog, stream,
                  ending, pos>>
  BY DEF WriteFile, mainVars, statVars, netVars
<1>5. files \in [Seqs -> Seq(Byte)]
  BY <1>a DEF TypeOK
<1>6. old \in Seq(Byte) /\ Len(old) = got
      /\ \A i \in 1 .. got : old[i] = At(h, HeaderLen + i - 1)
  BY <1>a, <1>1, <1>2, <1>5 DEF PayloadInv
<1>7. \A i \in 1 .. h.len : frame_buf[i] = At(h, HeaderLen + i - 1)
  BY <1>a, <1>1 DEF PayloadInv
<1>8. n \in Nat /\ got + n <= h.len /\ got + n <= Len(frame_buf)
  BY <1>2, <1>3
<1> DEFINE t == SubSeq(frame_buf, got + 1, got + n)
           new == Overwrite(old, got, t)
<1>9. t \in Seq(Byte) /\ Len(t) = n /\ \A i \in 1 .. n : t[i] = frame_buf[got + i]
  BY <1>2, <1>8, PieceFacts
<1>10. files' = [files EXCEPT ![h.seq] = new]
  BY <1>3
<1> HIDE DEF t, old
<1>11. new = Overwrite(old, Len(old), t)
  BY <1>6
<1> HIDE DEF new
<1>12. /\ new \in Seq(Byte) /\ Len(new) = got + n
       /\ \A i \in 1 .. got : new[i] = old[i]
       /\ \A j \in 1 .. n : new[got + j] = t[j]
  BY <1>6, <1>9, <1>11, OverwriteFacts
<1> HIDE DEF h
<1>13. \A i \in 1 .. (got + n) : new[i] = At(h, HeaderLen + i - 1)
  <2> SUFFICES ASSUME NEW i \in 1 .. (got + n) PROVE new[i] = At(h, HeaderLen + i - 1)
    OBVIOUS
  <2>1. CASE i <= got
    <3>1. i \in 1 .. got
      BY <1>2, <2>1
    <3> QED BY <1>6, <1>12, <3>1
  <2>2. CASE i > got
    <3> DEFINE j == i - got
    <3>1. j \in 1 .. n /\ i = got + j /\ i \in 1 .. h.len
      BY <1>2, <1>8, <2>2
    <3> HIDE DEF j
    <3>2. new[i] = t[j] /\ t[j] = frame_buf[i]
      BY <1>9, <1>12, <3>1
    <3> QED BY <1>7, <3>1, <3>2
  <2> QED BY <1>2, <2>1, <2>2
<1>14. /\ files' \in [Seqs -> Seq(Byte)] /\ files'[h.seq] = new
       /\ \A s \in Seqs : s # h.seq => files'[s] = files[s]
  BY <1>2, <1>5, <1>10, <1>12
<1>15. got + n \in Nat
  BY <1>2, <1>8
<1>16. TypeOK'
  BY <1>a, <1>3, <1>4, <1>14, <1>15 DEF TypeOK
<1>17. ControlInv' /\ ArrivalInv'
  BY <1>a, <1>4, ArrivalStays DEF ControlInv
<1>18. HeaderInv'
  BY <1>a, <1>1, <1>3, <1>4, <1>8 DEF HeaderInv, h
<1>19. PayloadInv'
  BY <1>a, <1>1, <1>3, <1>4, <1>12, <1>13, <1>14 DEF PayloadInv, h
<1>20. FilesWhole'
  BY <1>1, <1>4, <1>12, <1>13, <1>14, <1>15, FileWritten DEF h
<1> QED BY <1>16, <1>17, <1>18, <1>19, <1>20 DEF FInv

\* saveFrame() ends: the file is complete, or known to be incomplete.
LEMMA SaveEndsStep ==
    ASSUME FInv, WriteDone \/ WriteFails
    PROVE  FInv'
<1>a. TypeOK /\ ControlInv /\ ArrivalInv /\ HeaderInv /\ PayloadInv /\ FilesWhole
  BY DEF FInv
<1> DEFINE h == hdr[1]
<1>1. srv_pc = "write" /\ srv_pc \in Serving
  BY DEF WriteDone, WriteFails, Serving
<1>2. /\ h \in Byte /\ h.len \in Nat /\ h.seq \in Seqs /\ got \in Nat /\ HeaderLen \in Nat
  BY <1>a, <1>1, ReadingFacts DEF HeaderInv
<1>3. /\ UNCHANGED <<g_running, ssl_ctx, server_fd, conn, open_conns, frame_buf, got,
                     frames_received, bytes_received, files, backlog, stream, ending, pos>>
      /\ hdr' = <<>> /\ srv_pc' = "loop"
      /\ \/ failed_saves' = failed_saves /\ got = h.len /\ frames_saved' = frames_saved + 1
         \/ failed_saves' = failed_saves \cup {h.seq} /\ frames_saved' = frames_saved
  BY DEF WriteDone, WriteFails, EndOfTurn, mainVars, statVars, fileVars, netVars
<1>4. TypeOK'
  <2>1. frames_saved' \in Nat /\ failed_saves' \subseteq Seqs /\ srv_pc' \in SrvPC
    BY <1>a, <1>2, <1>3 DEF TypeOK, SrvPC
  <2>2. hdr' \in Seq(Byte) /\ Len(hdr') <= HeaderLen
    BY <1>2, <1>3
  <2> QED BY <1>a, <1>3, <2>1, <2>2 DEF TypeOK
<1>5. ControlInv' /\ ArrivalInv'
  BY <1>a, <1>1, <1>3, ArrivalStays DEF ControlInv, Serving
<1>6. HeaderInv' /\ PayloadInv'
  BY <1>3 DEF HeaderInv, PayloadInv
<1>7. FilesWhole'
  <2> SUFFICES ASSUME NEW s \in Seqs, files'[s] # <<>>
               PROVE  /\ \A i \in 1 .. Len(files'[s]) :
                            files'[s][i] = At(files'[s][1], HeaderLen + i - 1)
                      /\ files'[s][1].seq = s /\ files'[s][1].proto = "FRAM 1"
                      /\ \/ Len(files'[s]) = files'[s][1].len
                         \/ s \in failed_saves'
                         \/ srv_pc' = "write" /\ hdr'[1].seq = s
    BY DEF FilesWhole, At
  <2>1. files' = files /\ (s \in failed_saves => s \in failed_saves')
    BY <1>3
  <2>2. /\ \A i \in 1 .. Len(files[s]) : files[s][i] = At(files[s][1], HeaderLen + i - 1)
        /\ files[s][1].seq = s /\ files[s][1].proto = "FRAM 1"
        /\ \/ Len(files[s]) = files[s][1].len
           \/ s \in failed_saves
           \/ srv_pc = "write" /\ hdr[1].seq = s
    BY <1>a, <2>1 DEF FilesWhole, At
  <2>3. CASE s # h.seq
    BY <2>1, <2>2, <2>3
  <2>4. CASE s = h.seq /\ s \in failed_saves'
    BY <2>1, <2>2, <2>4
  <2>5. CASE s = h.seq /\ got = h.len
    <3> DEFINE d == files[s]
    <3>1. /\ Len(d) = got /\ \A i \in 1 .. got : d[i] = At(h, HeaderLen + i - 1)
      BY <1>a, <1>1, <2>5 DEF PayloadInv
    <3>2. d \in Seq(Byte) /\ d # <<>>
      BY <1>a, <2>1 DEF TypeOK
    <3> HIDE DEF d, h
    <3>3. 1 \in 1 .. got /\ HeaderLen + 1 - 1 = HeaderLen
      BY <1>2, <3>1, <3>2
    <3>4. d[1] = At(h, HeaderLen)
      BY <3>1, <3>3
    <3>5. d[1].len = h.len
      BY <1>2, <3>4, AtFacts
    <3>6. Len(files[s]) = files[s][1].len
      BY <2>5, <3>1, <3>5 DEF d
    <3> QED BY <2>1, <2>2, <3>6
  <2> QED BY <1>3, <2>3, <2>4, <2>5
<1> QED BY <1>4, <1>5, <1>6, <1>7 DEF FInv

\* The next connection has the number behind the last one: nothing refers to it yet, and
\* what arrives on it is a part of what a client may send.
LEMMA ClientConnectsStep ==
    ASSUME FInv, NEW c \in Conns, NEW s \in Streams, NEW n \in 0 .. Len(s),
           ClientConnects(c, SubSeq(s, 1, n), "open")
    PROVE  FInv'
<1>a. TypeOK /\ ControlInv /\ ArrivalInv /\ HeaderInv /\ PayloadInv /\ FilesWhole
  BY DEF FInv
<1> DEFINE t == SubSeq(s, 1, n)
<1>1. s \in Seq(Byte) /\ Coherent(s) /\ \A i \in 1 .. Len(s) : s[i].seq \in Seqs
  BY StreamsAssumption
<1>2. Coherent(t)
  BY <1>1, PrefixCoherent
<1>3. t \in Seq(Byte) /\ Len(t) \in Nat /\ \A i \in 1 .. Len(t) : t[i].seq \in Seqs
  <2>1. n \in Nat /\ Len(t) = n /\ t \in Seq(Byte) /\ \A i \in 1 .. n : i \in 1 .. Len(s) /\ t[i] = s[i]
    BY <1>1
  <2> HIDE DEF t
  <2> QED BY <1>1, <2>1
<1>4. /\ UNCHANGED <<srv_pc, g_running, ssl_ctx, server_fd, conn, open_conns, hdr, frame_buf, got,
                     frames_received, bytes_received, frames_saved, files, failed_saves, pos>>
      /\ backlog' = Append(backlog, c)
      /\ stream' = [stream EXCEPT ![c] = t] /\ ending' = [ending EXCEPT ![c] = "open"]
      /\ ending[c] = "none" /\ \A d \in Conns : d < c => ending[d] # "none"
  BY DEF ClientConnects, mainVars, readVars, statVars, fileVars
<1> HIDE DEF t
<1>5. /\ backlog \in Seq(Conns) /\ stream \in [Conns -> Seq(Byte)] /\ pos \in [Conns -> Nat]
      /\ ending \in [Conns -> {"none", "open", "closed", "reset"}]
  BY <1>a DEF TypeOK
<1>6. PICK m \in 0 .. MaxConns : \A d \in Conns : ending[d] # "none" <=> d <= m
  BY <1>a DEF ArrivalInv
<1>7. c = m + 1
  <2>1. m \in Nat /\ c \in Nat /\ ~(c <= m) /\ (c > m + 1 => m + 1 \in Conns /\ m + 1 < c)
    BY <1>4, <1>6, ConnsAssumption DEF Conns
  <2>2. ~(c > m + 1)
    BY <1>4, <1>6, <2>1
  <2> QED BY <2>1, <2>2
<1>8. m + 1 \in 0 .. MaxConns /\ ~(c <= m) /\ \A d \in Conns : d <= m + 1 <=> d <= m \/ d = c
  BY <1>6, <1>7, ConnsAssumption DEF Conns
<1>9. ending[c] = "none"
  BY <1>6, <1>8
<1>10. /\ ending'[c] = "open" /\ stream'[c] = t
       /\ \A d \in Conns : d # c => ending'[d] = ending[d] /\ stream'[d] = stream[d]
       /\ ending' \in [Conns -> {"none", "open", "closed", "reset"}]
       /\ stream' \in [Conns -> Seq(Byte)]
  BY <1>3, <1>4, <1>5
<1>11. conn # c
  BY <1>a, <1>9 DEF ArrivalInv, Conns, NoConn
<1>12. conn \in Conns => stream'[conn] = stream[conn] /\ ending'[conn] = ending[conn]
  BY <1>10, <1>11
<1>13. backlog' \in Seq(Conns)
  BY <1>4, <1>5
<1>14. TypeOK'
  BY <1>a, <1>4, <1>10, <1>13 DEF TypeOK
<1>15. ControlInv'
  BY <1>a, <1>4 DEF ControlInv
<1>16. ArrivalInv'
  <2>1. \A d \in Conns : ending'[d] # "none" <=> d <= m + 1
    BY <1>6, <1>8, <1>10
  <2>2. conn' # NoConn => ending'[conn'] # "none"
    BY <1>a, <1>4, <1>12 DEF ArrivalInv, TypeOK
  <2>3. \A i \in 1 .. Len(backlog') : ending'[backlog'[i]] # "none"
    <3> SUFFICES ASSUME NEW i \in 1 .. Len(backlog') PROVE ending'[backlog'[i]] # "none"
      OBVIOUS
    <3>1. \/ i \in 1 .. Len(backlog) /\ backlog'[i] = backlog[i] /\ backlog[i] \in Conns
          \/ backlog'[i] = c
      BY <1>4, <1>5
    <3>2. i \in 1 .. Len(backlog) => ending[backlog[i]] # "none"
      BY <1>a DEF ArrivalInv
    <3> QED BY <1>9, <1>10, <3>1, <3>2
  <2>4. \A d \in Conns : ending'[d] = "none" => pos'[d] = 0
    BY <1>a, <1>4, <1>10 DEF ArrivalInv
  <2>5. pos[c] = 0
    BY <1>a, <1>9 DEF ArrivalInv
  <2>6. \A d \in Conns : pos'[d] <= Len(stream'[d])
    BY <1>a, <1>3, <1>4, <1>10, <2>5 DEF ArrivalInv
  <2>7. \A d \in Conns : Coherent(stream'[d])
                         /\ \A i \in 1 .. Len(stream'[d]) : stream'[d][i].seq \in Seqs
    BY <1>a, <1>2, <1>3, <1>10 DEF ArrivalInv
  <2> QED BY <1>8, <2>1, <2>2, <2>3, <2>4, <2>6, <2>7 DEF ArrivalInv
<1>17. srv_pc \in Serving => conn \in Conns
  BY <1>a DEF ControlInv, TypeOK
<1>18. HeaderInv' /\ PayloadInv'
  <2>1. CASE srv_pc \in Serving
    <3>1. stream'[conn] = stream[conn]
      BY <1>12, <1>17, <2>1
    <3>2. stream'[conn'] = stream[conn] /\ pos'[conn'] = pos[conn]
      BY <1>4, <3>1
    <3>3. UNCHANGED <<srv_pc, hdr, frame_buf, got, files>>
      BY <1>4
    <3>4. HeaderInv'
      BY <1>a, <3>2, <3>3, Zenon DEF HeaderInv
    <3>5. PayloadInv'
      BY <1>a, <3>2, <3>3, Zenon DEF PayloadInv
    <3> QED BY <3>4, <3>5
  <2>2. CASE srv_pc \notin Serving
    BY <1>a, <1>4, <2>2 DEF HeaderInv, PayloadInv, Serving
  <2> QED BY <2>1, <2>2
<1>19. FilesWhole'
  BY <1>a, <1>4, FilesStay
<1> QED BY <1>14, <1>15, <1>16, <1>18, <1>19 DEF FInv

\* A client hangs up: what it sent still arrives.
LEMMA ClientEndsStep ==
    ASSUME FInv, ClientEnds
    PROVE  FInv'
<1>a. TypeOK /\ ControlInv /\ ArrivalInv /\ HeaderInv /\ PayloadInv /\ FilesWhole
  BY DEF FInv
<1>1. PICK c \in Conns, e \in {"closed", "reset"} :
         ending[c] = "open" /\ ending' = [ending EXCEPT ![c] = e]
  BY DEF ClientEnds
<1>2. UNCHANGED <<srv_pc, g_running, ssl_ctx, server_fd, conn, open_conns, hdr, frame_buf, got,
                  frames_received, bytes_received, frames_saved, files, failed_saves, backlog,
                  stream, pos>>
  BY DEF ClientEnds, mainVars, readVars, statVars, fileVars
<1>3. /\ ending' \in [Conns -> {"none", "open", "closed", "reset"}]
      /\ \A d \in Conns : ending'[d] = "none" <=> ending[d] = "none"
  BY <1>a, <1>1 DEF TypeOK
<1>4. TypeOK'
  BY <1>a, <1>2, <1>3 DEF TypeOK
<1>5. ControlInv' /\ HeaderInv' /\ PayloadInv'
  BY <1>a, <1>2 DEF ControlInv, HeaderInv, PayloadInv
<1>6. ArrivalInv'
  <2>1. conn # NoConn => conn \in Conns
    BY <1>a DEF TypeOK
  <2>2. \A i \in 1 .. Len(backlog) : backlog[i] \in Conns
    BY <1>a DEF TypeOK
  <2>3. \E m \in 0 .. MaxConns : \A d \in Conns : ending'[d] # "none" <=> d <= m
    BY <1>a, <1>3 DEF ArrivalInv
  <2> QED BY <1>a, <1>2, <1>3, <2>1, <2>2, <2>3 DEF ArrivalInv
<1>7. FilesWhole'
  BY <1>a, <1>2, FilesStay
<1> QED BY <1>4, <1>5, <1>6, <1>7 DEF FInv

\* FInv is preserved by every step of the server and of its clients.
LEMMA NextFInv == FInv /\ [Next]_vars => FInv'
<1> SUFFICES ASSUME FInv, [Next]_vars PROVE FInv'
  OBVIOUS
<1>1. CASE \/ ParseArgs \/ CreateSslContext \/ CreateSocket \/ BindListen
           \/ LoopTop \/ LoopExit \/ SelectNothing \/ AcceptFails \/ SslAccept
           \/ ClientLoop \/ signalHandler
  BY <1>1, ControlStep
<1>2. CASE Accept \/ SslAcceptFails \/ Cleanup \/ Final \/ Sigpipe
  BY <1>2, ConnectionStep
<1>3. CASE ClientLoopExit \/ ReadFails \/ HeaderRejected \/ OpenFails
  BY <1>3, LeaveStep
<1>4. CASE ReadHeader
  BY <1>4, ReadHeaderStep
<1>5. CASE HeaderAccepted
  BY <1>5, HeaderAcceptedStep
<1>6. CASE ReadPayload
  BY <1>6, ReadPayloadStep
<1>7. CASE FrameReceived
  BY <1>7, FrameReceivedStep
<1>8. CASE OpenFile
  BY <1>8, OpenFileStep
<1>9. CASE WriteFile
  BY <1>9, WriteFileStep
<1>10. CASE WriteDone \/ WriteFails
  BY <1>10, SaveEndsStep
<1>11. CASE ClientStep
  BY <1>11, ClientConnectsStep DEF ClientStep
<1>12. CASE ClientEnds
  BY <1>12, ClientEndsStep
<1>13. CASE UNCHANGED vars
  <2>a. TypeOK /\ ControlInv /\ ArrivalInv /\ HeaderInv /\ PayloadInv /\ FilesWhole
    BY DEF FInv
  <2>1. UNCHANGED <<srv_pc, g_running, ssl_ctx, server_fd, conn, open_conns, hdr, frame_buf, got,
                    frames_received, bytes_received, frames_saved, files, failed_saves, backlog,
                    stream, ending, pos>>
    BY <1>13 DEF vars, mainVars, readVars, statVars, fileVars, netVars
  <2>2. TypeOK' /\ ControlInv'
    BY <2>a, <2>1 DEF TypeOK, ControlInv
  <2>3. ArrivalInv' /\ FilesWhole'
    BY <2>a, <2>1, ArrivalStays, FilesStay
  <2>4. HeaderInv' /\ PayloadInv'
    BY <2>a, <2>1 DEF HeaderInv, PayloadInv
  <2> QED BY <2>2, <2>3, <2>4 DEF FInv
<1> QED BY <1>1, <1>2, <1>3, <1>4, <1>5, <1>6, <1>7, <1>8, <1>9, <1>10, <1>11, <1>12, <1>13
     DEF Next, LocalStep, ReadStep, HandshakeStep, Terminated

-----------------------------------------------------------------------------
(* The theorems.                                                           *)

\* FInv always holds: while handleClient() and saveFrame() work, header, buffer and file hold
\* the bytes of one frame, as far as they were read and written.
THEOREM ServerInvariant == Spec => []FInv
BY InitFInv, NextFInv, PTL DEF Spec

\* Every variable of the server and of its connections always has its type: the header in
\* sslReadAll() never outgrows FRAME_HEADER_SIZE, and the buffer never the limit that
\* handleClient() puts on a payload.
THEOREM ServerTypes == Spec => []TypeOK
<1>1. FInv => TypeOK
  BY DEF FInv
<1> QED BY <1>1, ServerInvariant, PTL

\* A file that saveFrame() wrote holds the payload of one frame of its number from the first
\* byte on, all of it unless a write() failed or is under way, however reads and writes are
\* split, connections break off, and the buffer is used again.
THEOREM SavedFilesWhole == Spec => []FilesWhole
<1>1. FInv => FilesWhole
  BY DEF FInv
<1> QED BY <1>1, ServerInvariant, PTL

\* main() holds one connection at a time, closes it on every path before it accepts another,
\* and holds nothing when it has returned.
THEOREM ServerOwnsOne == Spec => []ServerResources
<1>1. FInv => ServerResources
  BY DEF FInv, ControlInv, ServerResources, Serving
<1> QED BY <1>1, ServerInvariant, PTL

-----------------------------------------------------------------------------
(* Counting the frames.                                                    *)

\* Byte i of a stream, if it is one, is the last byte of a frame.
WholeUpTo(s, i) == i = 0 \/ s[i].off = HeaderLen + s[i].len - 1

\* Connections that wait are different ones; none of them is served, or was read from.
WaitingInv ==
    /\ \A i, j \in 1 .. Len(backlog) : backlog[i] = backlog[j] => i = j
    /\ \A i \in 1 .. Len(backlog) : backlog[i] # conn /\ pos[backlog[i]] = 0

\* Where handleClient() is in the stream it reads: between two frames at the top of its
\* loop and while a file is written, Len(hdr) bytes further while the header is read, and
\* got bytes behind the header while the payload is.
PlaceInv ==
    /\ srv_pc = "handshake" => pos[conn] = 0
    /\ srv_pc \in {"loop", "open", "write"} => WholeUpTo(stream[conn], pos[conn])
    /\ srv_pc = "header" => WholeUpTo(stream[conn], pos[conn] - Len(hdr))
    /\ srv_pc = "payload" =>
          /\ HeaderLen + got <= pos[conn] /\ hdr[1].off = 0 /\ hdr[1].len <= MaxPayload
          /\ stream[conn][pos[conn] - HeaderLen - got + 1] = hdr[1]

CountInv ==
    /\ IsFiniteSet(FramesRead) /\ IsFiniteSet(FrameBytesRead)
    /\ Cardinality(FramesRead) = frames_received + (IF Uncounted THEN 1 ELSE 0)
    /\ Cardinality(FrameBytesRead)
          = bytes_received + (IF Uncounted THEN HeaderLen + hdr[1].len ELSE 0)
    /\ frames_saved + (IF srv_pc \in {"open", "write"} THEN 1 ELSE 0) <= frames_received

\* From a first byte at f on, the bytes are those of its frame; the last one ends the frame and
\* none before it ends any.
LEMMA FrameSpan ==
    ASSUME NEW s \in Seq(Byte), Coherent(s), NEW f \in 1 .. Len(s), s[f].off = 0,
           NEW j \in f .. Len(s), j - f < HeaderLen + s[f].len
    PROVE  /\ s[j] = At(s[f], j - f) /\ s[j].off = j - f /\ s[j].len = s[f].len
           /\ s[j].proto = s[f].proto
           /\ s[j].off = HeaderLen + s[j].len - 1 <=> j = f + HeaderLen + s[f].len - 1
           /\ s[f].proto = "FRAM 1" /\ s[f].len <= MaxPayload =>
                 (FrameEnd(s, j) <=> j = f + HeaderLen + s[f].len - 1)
<1> DEFINE b == s[f]
<1>1. Len(s) \in Nat /\ b \in Byte /\ b.len \in Nat /\ f \in 1 .. Len(s) /\ j \in 1 .. Len(s)
      /\ HeaderLen \in Nat /\ f <= j /\ j - f \in Nat
  <2>1. b \in Byte /\ Len(s) \in Nat
    OBVIOUS
  <2>2. b.len \in Nat /\ HeaderLen \in Nat
    BY <2>1, HeaderAssumption DEF Byte
  <2> HIDE DEF b
  <2> QED BY <2>1, <2>2
<1>2. b.off + (j - f) < HeaderLen + b.len
  BY <1>1
<1>3. s[j] = At(b, b.off + (j - f))
  BY <1>1, <1>2 DEF Coherent, At
<1>4. b.off + (j - f) = j - f
  BY <1>1
<1>5. s[j] = At(b, j - f)
  BY <1>3, <1>4
<1>6. s[j].off = j - f /\ s[j].len = b.len /\ s[j].proto = b.proto
  <2> HIDE DEF b
  <2>1. b \in Byte /\ j - f \in Nat
    BY <1>1
  <2>2. At(b, j - f).off = j - f /\ At(b, j - f).len = b.len /\ At(b, j - f).proto = b.proto
    BY ONLY <2>1, AtFacts
  <2> QED BY ONLY <1>5, <2>2
<1>7. s[j].off = HeaderLen + s[j].len - 1 <=> j = f + HeaderLen + b.len - 1
  <2>1. j - f = HeaderLen + b.len - 1 <=> j = f + HeaderLen + b.len - 1
    <3> HIDE DEF b
    <3> QED BY <1>1
  <2> QED BY <1>6, <2>1
<1>8. At(s[j], 0) = b
  <2>1. At(s[j], 0) = At(b, 0)
    BY <1>1, <1>5, AtFacts
  <2>2. At(b, 0) = b
    BY <1>1 DEF At, Byte
  <2> QED BY <2>1, <2>2
<1>9. s[j].off < j /\ j - s[j].off = f
  BY <1>1, <1>6
<1>10. b.proto = "FRAM 1" /\ b.len <= MaxPayload =>
          (FrameEnd(s, j) <=> j = f + HeaderLen + b.len - 1)
  BY <1>6, <1>7, <1>8, <1>9 DEF FrameEnd, At
<1> QED BY <1>5, <1>6, <1>7, <1>10

\* A frame that ends at j started HeaderLen + len bytes before, at a first byte.
LEMMA FrameStart ==
    ASSUME NEW s \in Seq(Byte), NEW j \in 1 .. Len(s), FrameEnd(s, j)
    PROVE  LET f == j - s[j].off
           IN  /\ f \in 1 .. j /\ s[f].off = 0 /\ s[f].len = s[j].len /\ s[f].len \in Nat
               /\ s[f].proto = "FRAM 1" /\ s[f].len <= MaxPayload
               /\ j = f + HeaderLen + s[f].len - 1
<1> DEFINE b == s[j]
           f == j - b.off
<1>1. b \in Byte /\ j \in Nat
  OBVIOUS
<1>2. b.off < j /\ s[f] = At(b, 0) /\ b.off = HeaderLen + b.len - 1
      /\ b.proto = "FRAM 1" /\ b.len <= MaxPayload
  BY DEF FrameEnd, At
<1> HIDE DEF b
<1>3. b.off \in Nat /\ b.len \in Nat /\ HeaderLen \in Nat
  BY <1>1, HeaderAssumption DEF Byte
<1>4. s[f].off = 0 /\ s[f].len = b.len /\ s[f].proto = b.proto
  <2> HIDE DEF f
  <2>1. At(b, 0).off = 0 /\ At(b, 0).len = b.len /\ At(b, 0).proto = b.proto
    BY <1>1, AtFacts
  <2> QED BY <1>2, <2>1
<1>5. f \in 1 .. j /\ j = f + HeaderLen + b.len - 1
  <2> DEFINE o == b.off
             l == b.len
  <2>1. o \in Nat /\ l \in Nat /\ j \in Nat /\ HeaderLen \in Nat /\ o < j /\ o = HeaderLen + l - 1
    BY <1>1, <1>2, <1>3
  <2> HIDE DEF o, l
  <2>2. j - o \in 1 .. j
    BY <2>1
  <2>3. j = (j - o) + HeaderLen + l - 1
    BY <2>1
  <2> QED BY <2>2, <2>3 DEF o, l
<1> QED BY <1>2, <1>3, <1>4, <1>5 DEF b

\* Behind the end of a frame, the first frame that can end within HeaderLen bytes is one
\* without a payload that starts right there.
LEMMA NextFrameEnd ==
    ASSUME NEW s \in Seq(Byte), Coherent(s), NEW q \in Nat, WholeUpTo(s, q),
           NEW j \in 1 .. Len(s), q < j, j <= q + HeaderLen, FrameEnd(s, j)
    PROVE  /\ j = q + HeaderLen /\ s[q + 1].off = 0 /\ s[q + 1].len = 0
           /\ s[q + 1].proto = "FRAM 1"
<1> DEFINE f == j - s[j].off
<1>1. /\ f \in 1 .. j /\ s[f].off = 0 /\ s[f].len = s[j].len /\ s[f].len \in Nat
      /\ s[f].proto = "FRAM 1" /\ s[f].len <= MaxPayload
      /\ j = f + HeaderLen + s[f].len - 1
  BY FrameStart
<1> HIDE DEF f
<1>2. HeaderLen \in Nat /\ Len(s) \in Nat
  BY HeaderAssumption
<1>a. f \in Nat /\ j \in Nat /\ 1 <= f /\ f <= j /\ j <= Len(s)
  <2>1. j \in Nat /\ j <= Len(s)
    BY <1>2
  <2>2. f \in 1 .. j
    BY <1>1
  <2> QED BY <2>1, <2>2
<1>3. f > q
  <2> SUFFICES ASSUME f <= q PROVE FALSE
    BY <1>a
  <2>1. f \in 1 .. Len(s) /\ q \in f .. Len(s) /\ q - f < HeaderLen + s[f].len /\ q # 0 /\ q # j
    <3> DEFINE l == s[f].len
    <3>1. l \in Nat /\ j = f + HeaderLen + l - 1
      BY <1>1
    <3> HIDE DEF l
    <3>2. f \in 1 .. Len(s) /\ q \in f .. Len(s) /\ q - f < HeaderLen + l /\ q # 0 /\ q # j
      BY <1>2, <1>a, <3>1
    <3> QED BY <3>2 DEF l
  <2>2. s[q].off = HeaderLen + s[q].len - 1 <=> q = j
    BY <1>1, <2>1, FrameSpan
  <2> QED BY <2>1, <2>2 DEF WholeUpTo
<1>4. f = q + 1 /\ s[f].len = 0 /\ j = q + HeaderLen
  <2> DEFINE l == s[f].len
  <2>1. l \in Nat /\ j = f + HeaderLen + l - 1
    BY <1>1
  <2> HIDE DEF l
  <2>2. f = q + 1 /\ l = 0 /\ j = q + HeaderLen
    BY <1>2, <1>3, <1>a, <2>1
  <2> QED BY <2>2 DEF l
<1> QED BY <1>1, <1>4

\* The sets that FramesCounted speaks of, for streams st and p[c] bytes read of stream c.
Pairs(p) == UNION {{c} \X (1 .. p[c]) : c \in Conns}

Ends(st, p) == {ci \in Pairs(p) : FrameEnd(st[ci[1]], ci[2])}

Covered(st, p) ==
    {ci \in Pairs(p) :
        \E j \in ci[2] .. p[ci[1]] :
            FrameEnd(st[ci[1]], j) /\ j - st[ci[1]][j].off <= ci[2]}

\* The bytes of a frame on connection c.
Span(c, f, m) == {c} \X (f .. m)

\* A byte that was read has a connection and a place.
LEMMA PairsFacts ==
    ASSUME NEW p
    PROVE  /\ \A ci \in Pairs(p) : \E c \in Conns : \E i \in 1 .. p[c] : ci = <<c, i>>
           /\ \A c \in Conns : \A i \in 1 .. p[c] : <<c, i>> \in Pairs(p)
BY DEF Pairs

LEMMA EndsFacts ==
    ASSUME NEW st, NEW p, NEW ci
    PROVE  ci \in Ends(st, p) <=>
              \E c \in Conns : \E i \in 1 .. p[c] : ci = <<c, i>> /\ FrameEnd(st[c], i)
BY PairsFacts DEF Ends

LEMMA CoveredFacts ==
    ASSUME NEW st, NEW p, NEW ci
    PROVE  ci \in Covered(st, p) <=>
              \E c \in Conns : \E i \in 1 .. p[c] :
                 /\ ci = <<c, i>>
                 /\ \E j \in i .. p[c] : FrameEnd(st[c], j) /\ j - st[c][j].off <= i
BY PairsFacts DEF Covered

\* Streams of which nothing was read may change.
LEMMA SameFrames ==
    ASSUME NEW st, NEW tt, NEW p, \A c \in Conns : p[c] = 0 \/ tt[c] = st[c]
    PROVE  Ends(tt, p) = Ends(st, p) /\ Covered(tt, p) = Covered(st, p)
<1>1. \A c \in Conns : \A i \in 1 .. p[c] : tt[c] = st[c]
  <2> SUFFICES ASSUME NEW c \in Conns, NEW i \in 1 .. p[c] PROVE tt[c] = st[c]
    OBVIOUS
  <2>1. p[c] # 0
    OBVIOUS
  <2> QED BY <2>1
<1>2. \A ci : ci \in Ends(tt, p) <=> ci \in Ends(st, p)
  BY <1>1, EndsFacts
<1>3. \A ci : ci \in Covered(tt, p) <=> ci \in Covered(st, p)
  BY <1>1, CoveredFacts
<1> QED BY <1>2, <1>3

\* More was read of stream c, and none of it is the end of a frame.
LEMMA ReadNoEnd ==
    ASSUME NEW st, NEW p \in [Conns -> Nat], NEW c \in Conns, NEW m \in Nat, p[c] <= m,
           NEW q, q = [p EXCEPT ![c] = m],
           \A j \in (p[c] + 1) .. m : ~FrameEnd(st[c], j)
    PROVE  Ends(st, q) = Ends(st, p) /\ Covered(st, q) = Covered(st, p)
<1>1. q[c] = m /\ \A d \in Conns : d # c => q[d] = p[d]
  OBVIOUS
<1>2. \A d \in Conns : \A i \in 1 .. q[d] : FrameEnd(st[d], i) => i \in 1 .. p[d]
  <2> SUFFICES ASSUME NEW d \in Conns, NEW i \in 1 .. q[d], FrameEnd(st[d], i)
               PROVE  i \in 1 .. p[d]
    OBVIOUS
  <2>1. CASE d # c
    BY <1>1, <2>1
  <2>2. CASE d = c
    <3>1. i \in 1 .. m /\ i \notin (p[c] + 1) .. m /\ p[c] \in Nat
      BY <1>1, <2>2
    <3> QED BY <2>2, <3>1
  <2> QED BY <2>1, <2>2
<1>3. \A d \in Conns : p[d] \in Nat /\ q[d] \in Nat /\ p[d] <= q[d]
  BY <1>1
<1>4. \A ci : ci \in Ends(st, q) <=> ci \in Ends(st, p)
  <2> SUFFICES ASSUME NEW ci PROVE ci \in Ends(st, q) <=> ci \in Ends(st, p)
    OBVIOUS
  <2>1. ASSUME ci \in Ends(st, q) PROVE ci \in Ends(st, p)
    <3>1. \E d \in Conns : \E i \in 1 .. q[d] : ci = <<d, i>> /\ FrameEnd(st[d], i)
      BY <2>1, EndsFacts
    <3>2. \E d \in Conns : \E i \in 1 .. p[d] : ci = <<d, i>> /\ FrameEnd(st[d], i)
      BY <1>2, <3>1
    <3> QED BY <3>2, EndsFacts
  <2>2. ASSUME ci \in Ends(st, p) PROVE ci \in Ends(st, q)
    <3>1. \E d \in Conns : \E i \in 1 .. p[d] : ci = <<d, i>> /\ FrameEnd(st[d], i)
      BY <2>2, EndsFacts
    <3>2. \A d \in Conns : \A i \in 1 .. p[d] : i \in 1 .. q[d]
      BY <1>3
    <3>3. \E d \in Conns : \E i \in 1 .. q[d] : ci = <<d, i>> /\ FrameEnd(st[d], i)
      BY <3>1, <3>2
    <3> QED BY <3>3, EndsFacts
  <2> QED BY <2>1, <2>2
<1>5. \A ci : ci \in Covered(st, q) <=> ci \in Covered(st, p)
  <2> SUFFICES ASSUME NEW ci PROVE ci \in Covered(st, q) <=> ci \in Covered(st, p)
    OBVIOUS
  <2>1. ASSUME ci \in Covered(st, q) PROVE ci \in Covered(st, p)
    <3>1. PICK d, i, j :
             /\ d \in Conns /\ i \in 1 .. q[d] /\ j \in i .. q[d]
             /\ ci = <<d, i>> /\ FrameEnd(st[d], j) /\ j - st[d][j].off <= i
      BY <2>1, CoveredFacts
    <3>2. j \in 1 .. q[d]
      BY <1>3, <3>1
    <3>3. j \in 1 .. p[d]
      BY <1>2, <3>1, <3>2
    <3>4. i \in 1 .. p[d] /\ j \in i .. p[d]
      BY <1>3, <3>1, <3>3
    <3> QED BY <3>1, <3>4, CoveredFacts
  <2>2. ASSUME ci \in Covered(st, p) PROVE ci \in Covered(st, q)
    <3>1. PICK d, i, j :
             /\ d \in Conns /\ i \in 1 .. p[d] /\ j \in i .. p[d]
             /\ ci = <<d, i>> /\ FrameEnd(st[d], j) /\ j - st[d][j].off <= i
      BY <2>2, CoveredFacts
    <3>2. i \in 1 .. q[d] /\ j \in i .. q[d]
      BY <1>3, <3>1
    <3> QED BY <3>1, <3>2, CoveredFacts
  <2> QED BY <2>1, <2>2
<1> QED BY <1>4, <1>5

\* Of stream c, p[c] bytes were read before and m now, up to the end of a frame that started
\* at f, no later than the first of the new ones.
FrameReadAt(st, p, q, c, f, m) ==
    /\ p \in [Conns -> Nat] /\ c \in Conns /\ m \in Nat /\ p[c] < m /\ q = [p EXCEPT ![c] = m]
    /\ f \in Nat /\ 1 <= f /\ f <= p[c] + 1
    /\ FrameEnd(st[c], m) /\ m - st[c][m].off = f
    /\ \A j \in f .. (m - 1) : ~FrameEnd(st[c], j)

\* There is one frame more then, and its bytes belong to no other.
LEMMA ReadOneEnd ==
    ASSUME NEW st, NEW p, NEW q, NEW c, NEW f, NEW m, FrameReadAt(st, p, q, c, f, m)
    PROVE  /\ \A ci : ci \in Ends(st, q) <=> ci \in Ends(st, p) \/ ci = <<c, m>>
           /\ <<c, m>> \notin Ends(st, p)
           /\ \A ci : ci \in Covered(st, q) <=> ci \in Covered(st, p) \/ ci \in Span(c, f, m)
           /\ Covered(st, p) \cap Span(c, f, m) = {}
<1>0. /\ p \in [Conns -> Nat] /\ c \in Conns /\ m \in Nat /\ p[c] < m /\ q = [p EXCEPT ![c] = m]
      /\ f \in Nat /\ 1 <= f /\ f <= p[c] + 1
      /\ FrameEnd(st[c], m) /\ m - st[c][m].off = f
      /\ \A j \in f .. (m - 1) : ~FrameEnd(st[c], j)
  BY DEF FrameReadAt
<1> USE <1>0
<1>1. q[c] = m /\ \A d \in Conns : d # c => q[d] = p[d]
  OBVIOUS
<1>2. \A d \in Conns : \A i \in 1 .. q[d] : FrameEnd(st[d], i) => i \in 1 .. p[d] \/ (d = c /\ i = m)
  <2> SUFFICES ASSUME NEW d \in Conns, NEW i \in 1 .. q[d], FrameEnd(st[d], i)
               PROVE  i \in 1 .. p[d] \/ (d = c /\ i = m)
    OBVIOUS
  <2>1. CASE d # c
    BY <1>1, <2>1
  <2>2. CASE d = c
    <3>1. i \in 1 .. m /\ i \notin f .. (m - 1) /\ p[c] \in Nat
      BY <1>1, <2>2
    <3> QED BY <2>2, <3>1
  <2> QED BY <2>1, <2>2
<1>3. \A d \in Conns : p[d] \in Nat /\ q[d] \in Nat /\ p[d] <= q[d]
  BY <1>1
<1>4. m \in 1 .. q[c] /\ m \notin 1 .. p[c]
  BY <1>1, <1>3
<1>5. \A ci : ci \in Ends(st, q) <=> ci \in Ends(st, p) \cup {<<c, m>>}
  <2>1. ASSUME NEW ci, ci \in Ends(st, q) PROVE ci \in Ends(st, p) \cup {<<c, m>>}
    <3>1. \E d \in Conns : \E i \in 1 .. q[d] : ci = <<d, i>> /\ FrameEnd(st[d], i)
      BY ONLY <2>1, EndsFacts
    <3>2. PICK d, i : d \in Conns /\ i \in 1 .. q[d] /\ ci = <<d, i>> /\ FrameEnd(st[d], i)
      BY <3>1
    <3>3. CASE d = c /\ i = m
      BY <3>2, <3>3
    <3>4. CASE i \in 1 .. p[d]
      BY <3>2, <3>4, EndsFacts
    <3> QED BY <1>2, <3>2, <3>3, <3>4
  <2>2. \A d \in Conns : \A i \in 1 .. p[d] : i \in 1 .. q[d]
    BY <1>3
  <2>3. ASSUME NEW ci, ci \in Ends(st, p) PROVE ci \in Ends(st, q)
    <3>1. \E d \in Conns : \E i \in 1 .. p[d] : ci = <<d, i>> /\ FrameEnd(st[d], i)
      BY <2>3, EndsFacts
    <3>2. \E d \in Conns : \E i \in 1 .. q[d] : ci = <<d, i>> /\ FrameEnd(st[d], i)
      BY <2>2, <3>1
    <3> QED BY <3>2, EndsFacts
  <2>4. <<c, m>> \in Ends(st, q)
    BY <1>4, EndsFacts
  <2> QED BY <2>1, <2>3, <2>4
<1>6. <<c, m>> \notin Ends(st, p)
  <2> SUFFICES ASSUME <<c, m>> \in Ends(st, p) PROVE FALSE
    OBVIOUS
  <2>1. \E d \in Conns : \E i \in 1 .. p[d] : <<c, m>> = <<d, i>>
    BY EndsFacts
  <2> QED BY <1>4, <2>1
<1>7. \A ci : ci \in Covered(st, q) => ci \in Covered(st, p) \cup ({c} \X (f .. m))
  <2> SUFFICES ASSUME NEW ci, ci \in Covered(st, q)
               PROVE  ci \in Covered(st, p) \cup ({c} \X (f .. m))
    OBVIOUS
  <2>0. ci \in Covered(st, q)
    OBVIOUS
  <2>1. PICK d, i, j :
           /\ d \in Conns /\ i \in 1 .. q[d] /\ j \in i .. q[d]
           /\ ci = <<d, i>> /\ FrameEnd(st[d], j) /\ j - st[d][j].off <= i
    BY ONLY <2>0, CoveredFacts
  <2>2. j \in 1 .. q[d]
    BY <1>3, <2>1
  <2>3. CASE j \in 1 .. p[d]
    <3>1. i \in 1 .. p[d] /\ j \in i .. p[d]
      BY <1>3, <2>1, <2>3
    <3>2. ci \in Covered(st, p)
      BY <2>1, <3>1, CoveredFacts
    <3> QED BY <3>2
  <2>4. CASE d = c /\ j = m
    <3>1. f <= i /\ i \in f .. m
      BY <1>1, <2>1, <2>4
    <3> QED BY <2>1, <2>4, <3>1
  <2> QED BY <1>2, <2>1, <2>2, <2>3, <2>4
<1>8. \A ci : ci \in Covered(st, p) => ci \in Covered(st, q)
  <2> SUFFICES ASSUME NEW ci, ci \in Covered(st, p) PROVE ci \in Covered(st, q)
    OBVIOUS
  <2>1. PICK d, i, j :
           /\ d \in Conns /\ i \in 1 .. p[d] /\ j \in i .. p[d]
           /\ ci = <<d, i>> /\ FrameEnd(st[d], j) /\ j - st[d][j].off <= i
    BY CoveredFacts
  <2>2. i \in 1 .. q[d] /\ j \in i .. q[d]
    BY <1>3, <2>1
  <2> QED BY <2>1, <2>2, CoveredFacts
<1>9. \A i \in f .. m : <<c, i>> \in Covered(st, q)
  <2> SUFFICES ASSUME NEW i \in f .. m PROVE <<c, i>> \in Covered(st, q)
    OBVIOUS
  <2>1. i \in 1 .. q[c] /\ m \in i .. q[c] /\ m - st[c][m].off <= i
    BY <1>1
  <2> QED BY <2>1, CoveredFacts
<1>10. \A i \in f .. m : <<c, i>> \notin Covered(st, p)
  <2> SUFFICES ASSUME NEW i \in f .. m, <<c, i>> \in Covered(st, p) PROVE FALSE
    OBVIOUS
  <2>1. PICK d, k, j :
           /\ d \in Conns /\ k \in 1 .. p[d] /\ j \in k .. p[d]
           /\ <<c, i>> = <<d, k>> /\ FrameEnd(st[d], j)
    BY CoveredFacts
  <2>2. d = c /\ k = i
    BY <2>1
  <2>3. j \in f .. (m - 1)
    BY <1>3, <2>1, <2>2
  <2> QED BY <2>1, <2>2, <2>3
<1> DEFINE N == {c} \X (f .. m)
<1>11. \A ci \in N : \E i \in f .. m : ci = <<c, i>>
  OBVIOUS
<1> HIDE DEF N
<1>13. N \subseteq Covered(st, q) /\ Covered(st, p) \cap N = {}
  BY <1>9, <1>10, <1>11
<1>14. Covered(st, q) \subseteq Covered(st, p) \cup N /\ Covered(st, p) \subseteq Covered(st, q)
  BY <1>7, <1>8 DEF N
<1>15. Covered(st, q) = Covered(st, p) \cup N
  BY <1>13, <1>14
<1>16. N = Span(c, f, m)
  BY DEF N, Span
<1>17. \A ci : ci \in Covered(st, q) <=> ci \in Covered(st, p) \/ ci \in Span(c, f, m)
  BY <1>15, <1>16
<1>18. \A ci : ci \in Ends(st, q) <=> ci \in Ends(st, p) \/ ci = <<c, m>>
  BY <1>5
<1> QED BY <1>6, <1>13, <1>16, <1>17, <1>18

\* A frame from f to m has m - f + 1 bytes.
LEMMA SpanCount ==
    ASSUME NEW c, NEW f \in Nat, NEW m \in Nat, f <= m + 1
    PROVE  IsFiniteSet(Span(c, f, m)) /\ Cardinality(Span(c, f, m)) = m - f + 1
<1> DEFINE N == Span(c, f, m)
<1>1. IsFiniteSet(f .. m) /\ Cardinality(f .. m) = m - f + 1
  <2>1. f \in Int /\ m \in Int /\ (IF f > m THEN 0 ELSE m - f + 1) = m - f + 1
    OBVIOUS
  <2> QED BY <2>1, FS_Interval
<1>2. IsFiniteSet({c}) /\ Cardinality({c}) = 1
  BY FS_Singleton
<1>3. IsFiniteSet(N) /\ Cardinality(N) = 1 * (m - f + 1)
  <2> DEFINE A == {c}
             B == f .. m
  <2>1. IsFiniteSet(A) /\ IsFiniteSet(B) /\ Cardinality(A) = 1 /\ Cardinality(B) = m - f + 1
    BY <1>1, <1>2
  <2> HIDE DEF A, B
  <2>2. IsFiniteSet(A \X B) /\ Cardinality(A \X B) = Cardinality(A) * Cardinality(B)
    BY <2>1, FS_Product
  <2>3. N = A \X B
    BY DEF A, B, Span
  <2> QED BY <2>1, <2>2, <2>3
<1>4. 1 * (m - f + 1) = m - f + 1
  OBVIOUS
<1> QED BY <1>3, <1>4

\* Sets that have no element in common.
LEMMA DisjointUnion ==
    ASSUME NEW A, NEW B, IsFiniteSet(A), IsFiniteSet(B), A \cap B = {}
    PROVE  IsFiniteSet(A \cup B) /\ Cardinality(A \cup B) = Cardinality(A) + Cardinality(B)
<1>1. IsFiniteSet(A \cup B)
      /\ Cardinality(A \cup B) = Cardinality(A) + Cardinality(B) - Cardinality({})
  BY FS_Union
<1>2. Cardinality({}) = 0 /\ Cardinality(A) \in Nat /\ Cardinality(B) \in Nat
  BY FS_EmptySet, FS_CardinalityType
<1> QED BY <1>1, <1>2

\* The sets of FramesCounted, before and after a step.
LEMMA FramesAre ==
    /\ FramesRead = Ends(stream, pos) /\ FrameBytesRead = Covered(stream, pos)
    /\ FramesRead' = Ends(stream', pos') /\ FrameBytesRead' = Covered(stream', pos')
BY DEF FramesRead, FrameBytesRead, BytesRead, Ends, Covered, Pairs

\* Nothing was read or counted, and no frame has come to wait for it.
LEMMA CountStays ==
    ASSUME CountInv, UNCHANGED <<pos, frames_received, bytes_received>>,
           \A c \in Conns : pos[c] = 0 \/ stream'[c] = stream[c],
           Uncounted' <=> Uncounted, Uncounted => hdr'[1].len = hdr[1].len,
           frames_saved' + (IF srv_pc' \in {"open", "write"} THEN 1 ELSE 0) <= frames_received
    PROVE  CountInv'
<1>1. pos' = pos /\ Ends(stream', pos) = Ends(stream, pos) /\ Covered(stream', pos) = Covered(stream, pos)
  BY SameFrames
<1>2. FramesRead' = FramesRead /\ FrameBytesRead' = FrameBytesRead
  BY <1>1, FramesAre
<1>3. CASE Uncounted
  BY <1>2, <1>3 DEF CountInv
<1>4. CASE ~Uncounted
  BY <1>2, <1>4 DEF CountInv
<1> QED BY <1>3, <1>4

\* Bytes were read, none of them the last one of a frame.
LEMMA NoEndRead ==
    ASSUME CountInv, conn \in Conns, pos \in [Conns -> Nat], NEW m \in Nat, pos[conn] <= m,
           pos' = [pos EXCEPT ![conn] = m], ~Uncounted, ~Uncounted',
           UNCHANGED <<srv_pc, stream, frames_received, bytes_received, frames_saved>>,
           \A j \in (pos[conn] + 1) .. m : ~FrameEnd(stream[conn], j)
    PROVE  CountInv'
<1>1. Ends(stream, pos') = Ends(stream, pos) /\ Covered(stream, pos') = Covered(stream, pos)
  BY ReadNoEnd
<1>2. FramesRead' = FramesRead /\ FrameBytesRead' = FrameBytesRead
  BY <1>1, FramesAre
<1> QED BY <1>2 DEF CountInv

\* Bytes were read up to the last one, m, of the frame that started at f.
LEMMA EndRead ==
    ASSUME CountInv, conn \in Conns, pos \in [Conns -> Nat], NEW m \in Nat, pos[conn] < m,
           pos' = [pos EXCEPT ![conn] = m], ~Uncounted, Uncounted',
           frames_received \in Nat, bytes_received \in Nat,
           UNCHANGED <<srv_pc, stream, frames_received, bytes_received, frames_saved>>,
           NEW f \in Nat, 1 <= f, f <= pos[conn] + 1,
           FrameEnd(stream[conn], m), m - stream[conn][m].off = f,
           \A j \in f .. (m - 1) : ~FrameEnd(stream[conn], j),
           m - f + 1 = HeaderLen + hdr'[1].len
    PROVE  CountInv'
<1> DEFINE E == Ends(stream, pos)
           C == Covered(stream, pos)
           N == Span(conn, f, m)
<1>1. /\ Ends(stream, pos') = E \cup {<<conn, m>>} /\ <<conn, m>> \notin E
      /\ Covered(stream, pos') = C \cup N /\ C \cap N = {}
  <2>1. FrameReadAt(stream, pos, pos', conn, f, m)
    BY DEF FrameReadAt
  <2>2. Ends(stream, pos') = Ends(stream, pos) \cup {<<conn, m>>}
    <3>1. \A ci : ci \in Ends(stream, pos') <=> ci \in Ends(stream, pos) \/ ci = <<conn, m>>
      BY ONLY <2>1, ReadOneEnd
    <3> QED BY <3>1
  <2>3. <<conn, m>> \notin Ends(stream, pos)
    BY ONLY <2>1, ReadOneEnd
  <2>4. Covered(stream, pos') = Covered(stream, pos) \cup Span(conn, f, m)
    <3>1. \A ci : ci \in Covered(stream, pos') <=>
                     ci \in Covered(stream, pos) \/ ci \in Span(conn, f, m)
      BY ONLY <2>1, ReadOneEnd
    <3> QED BY <3>1
  <2>5. Covered(stream, pos) \cap Span(conn, f, m) = {}
    BY ONLY <2>1, ReadOneEnd
  <2> QED BY <2>2, <2>3, <2>4, <2>5
<1>2. FramesRead = E /\ FrameBytesRead = C /\ FramesRead' = E \cup {<<conn, m>>}
      /\ FrameBytesRead' = C \cup N
  BY <1>1, FramesAre
<1>3. IsFiniteSet(E) /\ IsFiniteSet(C) /\ Cardinality(E) = frames_received
      /\ Cardinality(C) = bytes_received
      /\ frames_saved + (IF srv_pc \in {"open", "write"} THEN 1 ELSE 0) <= frames_received
  BY <1>2 DEF CountInv
<1>4. f <= m + 1
  OBVIOUS
<1>5. /\ IsFiniteSet(FramesRead') /\ Cardinality(FramesRead') = Cardinality(E) + 1
      /\ IsFiniteSet(FrameBytesRead') /\ Cardinality(FrameBytesRead') = Cardinality(C) + (m - f + 1)
  <2>1. IsFiniteSet(N) /\ Cardinality(N) = m - f + 1
    BY <1>4, SpanCount
  <2> HIDE DEF E, C, N
  <2>2. IsFiniteSet(C \cup N) /\ Cardinality(C \cup N) = Cardinality(C) + Cardinality(N)
    BY <1>1, <1>3, <2>1, DisjointUnion
  <2>3. IsFiniteSet(E \cup {<<conn, m>>}) /\ Cardinality(E \cup {<<conn, m>>}) = Cardinality(E) + 1
    BY <1>1, <1>3, FS_AddElement
  <2> QED BY <1>2, <2>1, <2>2, <2>3
<1> HIDE DEF E, C
<1>6. IsFiniteSet(FramesRead') /\ IsFiniteSet(FrameBytesRead')
      /\ Cardinality(FramesRead') = frames_received' + 1
      /\ Cardinality(FrameBytesRead') = bytes_received' + (HeaderLen + hdr'[1].len)
  BY <1>3, <1>5
<1> QED BY <1>3, <1>6 DEF CountInv

\* The invariant of the counters, and what it rests on.
SInv == FInv /\ WaitingInv /\ PlaceInv /\ CountInv

\* With no header and no payload on hand nothing is left to count.
LEMMA NothingUncounted ==
    /\ srv_pc \notin {"header", "payload"} => ~Uncounted
    /\ srv_pc = "header" /\ Len(hdr) # HeaderLen => ~Uncounted
    /\ srv_pc' \notin {"header", "payload"} => ~Uncounted'
    /\ srv_pc' = "header" /\ Len(hdr') # HeaderLen => ~Uncounted'
BY DEF Uncounted

\* Steps of main() and of signals and clients that leave connections and counters alone.
LEMMA ControlCount ==
    ASSUME SInv,
           \/ ParseArgs \/ CreateSslContext \/ CreateSocket \/ BindListen
           \/ LoopTop \/ LoopExit \/ SelectNothing \/ AcceptFails \/ SslAccept
           \/ ClientLoop
    PROVE  WaitingInv' /\ PlaceInv' /\ CountInv'
<1>a. FInv /\ WaitingInv /\ PlaceInv /\ CountInv /\ HeaderInv
  BY DEF SInv, FInv
<1>1. UNCHANGED <<conn, hdr, got, frames_received, bytes_received, frames_saved, backlog, stream, pos>>
  BY DEF ParseArgs, CreateSslContext, CreateSocket, BindListen, LoopTop, LoopExit, SelectNothing,
         AcceptFails, SslAccept, ClientLoop, Goto, mainVars, readVars, statVars, netVars
<1>2. /\ srv_pc \in {"args", "context", "socket", "bind", "top", "select", "handshake", "loop"}
      /\ srv_pc' \in {"context", "socket", "bind", "top", "select", "final", "stopped", "loop", "header"}
      /\ srv_pc' = "loop" => srv_pc = "handshake"
      /\ srv_pc' = "header" => srv_pc = "loop"
  BY DEF ParseArgs, CreateSslContext, CreateSocket, BindListen, LoopTop, LoopExit, SelectNothing,
         AcceptFails, SslAccept, ClientLoop, Goto
<1>3. hdr = <<>> /\ Len(hdr) = 0 /\ 0 # HeaderLen
  BY <1>a, <1>2, HeaderAssumption DEF HeaderInv
<1>4. WaitingInv'
  BY <1>a, <1>1 DEF WaitingInv
<1>5. PlaceInv'
  <2>1. srv_pc' = "loop" => WholeUpTo(stream[conn], pos[conn])
    BY <1>a, <1>2 DEF PlaceInv, WholeUpTo
  <2>2. srv_pc' = "header" => WholeUpTo(stream[conn], pos[conn] - Len(hdr))
    <3> SUFFICES ASSUME srv_pc' = "header" PROVE WholeUpTo(stream[conn], pos[conn] - Len(hdr))
      OBVIOUS
    <3>1. srv_pc = "loop" /\ srv_pc \in Serving
      BY <1>2 DEF Serving
    <3>2. pos[conn] \in Nat
      BY <1>a, <3>1, ReadingFacts
    <3>3. pos[conn] - Len(hdr) = pos[conn]
      BY <1>3, <3>2
    <3> QED BY <1>a, <3>1, <3>3 DEF PlaceInv
  <2> QED BY <1>1, <1>2, <2>1, <2>2 DEF PlaceInv
<1>6. CountInv'
  <2>1. ~Uncounted /\ ~Uncounted'
    BY <1>1, <1>2, <1>3, NothingUncounted
  <2>2. frames_saved' + (IF srv_pc' \in {"open", "write"} THEN 1 ELSE 0) <= frames_received
    BY <1>a, <1>1, <1>2 DEF CountInv
  <2> QED BY <1>a, <1>1, <2>1, <2>2, CountStays
<1> QED BY <1>4, <1>5, <1>6

\* Steps that change nothing the counters depend on.
LEMMA IdleCount ==
    ASSUME SInv,
           UNCHANGED <<srv_pc, conn, hdr, got, frames_received, bytes_received, frames_saved,
                       backlog, stream, pos>>
    PROVE  WaitingInv' /\ PlaceInv' /\ CountInv'
<1>a. WaitingInv /\ PlaceInv /\ CountInv
  BY DEF SInv
<1>1. WaitingInv'
  BY <1>a DEF WaitingInv
<1>2. PlaceInv'
  BY <1>a DEF PlaceInv
<1>3. Uncounted' <=> Uncounted
  BY DEF Uncounted
<1>4. CountInv'
  <2>1. frames_saved' + (IF srv_pc' \in {"open", "write"} THEN 1 ELSE 0) <= frames_received
    BY <1>a DEF CountInv
  <2> QED BY <1>a, <1>3, <2>1, CountStays
<1> QED BY <1>1, <1>2, <1>4

\* A connection is taken from the backlog or given up.
LEMMA ConnectionCount ==
    ASSUME SInv, Accept \/ SslAcceptFails \/ Cleanup \/ Final \/ Sigpipe
    PROVE  WaitingInv' /\ PlaceInv' /\ CountInv'
<1>a. FInv /\ WaitingInv /\ PlaceInv /\ CountInv /\ TypeOK
  BY DEF SInv, FInv
<1>1. UNCHANGED <<hdr, got, frames_received, bytes_received, frames_saved, stream, pos>>
  BY DEF Accept, SslAcceptFails, Cleanup, Final, Sigpipe, readVars, statVars, netVars
<1>2. /\ srv_pc \in {"select", "handshake", "cleanup", "final"}
      /\ srv_pc' \in {"handshake", "top", "stopped", "killed"}
  BY DEF Accept, SslAcceptFails, Cleanup, Final, Sigpipe
<1>3. CountInv'
  <2>1. ~Uncounted /\ ~Uncounted'
    BY <1>2, NothingUncounted
  <2>2. frames_saved' + (IF srv_pc' \in {"open", "write"} THEN 1 ELSE 0) <= frames_received
    BY <1>a, <1>1, <1>2 DEF CountInv
  <2> QED BY <1>a, <1>1, <2>1, <2>2, CountStays
<1>b. backlog \in Seq(Conns) /\ Len(backlog) \in Nat
  BY <1>a DEF TypeOK
<1>4. CASE Accept
  <2>1. backlog # <<>> /\ conn' = backlog[1] /\ backlog' = Tail(backlog) /\ srv_pc' = "handshake"
    BY <1>4 DEF Accept
  <2>2. /\ 1 \in 1 .. Len(backlog) /\ Len(Tail(backlog)) = Len(backlog) - 1
        /\ \A i \in 1 .. Len(Tail(backlog)) : Tail(backlog)[i] = backlog[i + 1]
    BY <1>b, <2>1
  <2>3. \A i \in 1 .. Len(Tail(backlog)) : i + 1 \in 1 .. Len(backlog) /\ i + 1 # 1
    BY <1>b, <2>2
  <2>4. \A i, j \in 1 .. Len(backlog) : backlog[i] = backlog[j] => i = j
    BY <1>a DEF WaitingInv
  <2>5. \A i, j \in 1 .. Len(backlog') : backlog'[i] = backlog'[j] => i = j
    <3> SUFFICES ASSUME NEW i \in 1 .. Len(backlog'), NEW j \in 1 .. Len(backlog'),
                        backlog'[i] = backlog'[j]
                 PROVE  i = j
      OBVIOUS
    <3>1. i + 1 \in 1 .. Len(backlog) /\ j + 1 \in 1 .. Len(backlog)
          /\ backlog[i + 1] = backlog[j + 1]
      BY <2>1, <2>2, <2>3
    <3>2. i + 1 = j + 1
      BY <2>4, <3>1
    <3>3. i \in Int /\ j \in Int
      OBVIOUS
    <3> QED BY <3>2, <3>3
  <2>6. \A i \in 1 .. Len(backlog') : backlog'[i] # conn' /\ pos'[backlog'[i]] = 0
    <3> SUFFICES ASSUME NEW i \in 1 .. Len(backlog')
                 PROVE  backlog'[i] # conn' /\ pos'[backlog'[i]] = 0
      OBVIOUS
    <3>1. i + 1 \in 1 .. Len(backlog) /\ i + 1 # 1 /\ backlog'[i] = backlog[i + 1]
      BY <2>1, <2>2, <2>3
    <3>2. pos[backlog[i + 1]] = 0
      BY <1>a, <3>1 DEF WaitingInv
    <3>3. backlog[i + 1] # backlog[1]
      BY <2>2, <2>4, <3>1
    <3> QED BY <1>1, <2>1, <3>1, <3>2, <3>3
  <2>7. pos'[conn'] = 0
    BY <1>a, <1>1, <2>1, <2>2 DEF WaitingInv
  <2>8. WaitingInv'
    BY <2>5, <2>6 DEF WaitingInv
  <2>9. PlaceInv'
    BY <2>1, <2>7 DEF PlaceInv
  <2> QED BY <1>3, <2>8, <2>9
<1>5. CASE SslAcceptFails \/ Cleanup \/ Final \/ Sigpipe
  <2>1. srv_pc' \notin {"handshake", "loop", "open", "write", "header", "payload"}
    BY <1>5 DEF SslAcceptFails, Cleanup, Final, Sigpipe
  <2>2. (backlog' = backlog /\ conn' = NoConn) \/ backlog' = <<>>
    BY <1>5 DEF SslAcceptFails, Cleanup, Final, Sigpipe, netVars
  <2>3. \A i \in 1 .. Len(backlog) : backlog[i] # NoConn
    BY <1>b, ConnsAssumption DEF Conns, NoConn
  <2>4. WaitingInv'
    <3>1. CASE backlog' = <<>>
      BY <3>1 DEF WaitingInv
    <3>2. CASE backlog' = backlog /\ conn' = NoConn
      BY <1>a, <1>1, <2>3, <3>2 DEF WaitingInv
    <3> QED BY <2>2, <3>1, <3>2
  <2>5. PlaceInv'
    BY <2>1 DEF PlaceInv
  <2> QED BY <1>3, <2>4, <2>5
<1> QED BY <1>4, <1>5

\* handleClient() is left, or a file cannot be opened: no frame is read and not counted.
LEMMA LeaveCount ==
    ASSUME SInv, ClientLoopExit \/ ReadFails \/ HeaderRejected \/ OpenFails
    PROVE  WaitingInv' /\ PlaceInv' /\ CountInv'
<1>a. FInv /\ WaitingInv /\ PlaceInv /\ CountInv /\ HeaderInv
  BY DEF SInv, FInv
<1>1. UNCHANGED <<conn, frames_received, bytes_received, frames_saved, backlog, stream, pos>>
  BY DEF ClientLoopExit, ReadFails, HeaderRejected, OpenFails, LeaveClient, statVars, netVars
<1>2. /\ srv_pc \in {"loop", "header", "payload", "open"} /\ srv_pc' \in {"cleanup", "loop"}
      /\ srv_pc' = "loop" => srv_pc = "open"
  BY DEF ClientLoopExit, ReadFails, ReadFailure, HeaderRejected, OpenFails, LeaveClient, EndOfTurn
<1>3. ~Uncounted
  <2>1. CASE ClientLoopExit \/ OpenFails
    BY <2>1 DEF ClientLoopExit, OpenFails, Uncounted
  <2>2. CASE ReadFails
    <3>1. CASE srv_pc = "header" /\ Len(hdr) < HeaderLen
      <4>1. srv_pc \in Serving
        BY <3>1 DEF Serving
      <4>2. Len(hdr) \in Nat /\ HeaderLen \in Nat
        BY <1>a, <4>1, ReadingFacts
      <4>3. Len(hdr) # HeaderLen
        BY <3>1, <4>2
      <4> QED BY <3>1, <4>3 DEF Uncounted
    <3>2. CASE srv_pc = "payload" /\ got < hdr[1].len
      <4>1. srv_pc \in Serving /\ srv_pc \in {"payload", "open", "write"}
        BY <3>2 DEF Serving
      <4>2. got \in Nat /\ hdr[1].len \in Nat
        BY <1>a, <4>1, ReadingFacts
      <4>3. got # hdr[1].len
        BY <3>2, <4>2
      <4> QED BY <3>2, <4>3 DEF Uncounted
    <3> QED BY <2>2, <3>1, <3>2 DEF ReadFails, ReadFailure
  <2>3. CASE HeaderRejected
    <3>1. srv_pc = "header" /\ (~ValidHeader(hdr) \/ hdr[1].len > MaxPayload)
      BY <2>3 DEF HeaderRejected, TooLarge
    <3>2. ~(0 > MaxPayload)
      BY HeaderAssumption
    <3> QED BY <3>1, <3>2 DEF Uncounted
  <2> QED BY <2>1, <2>2, <2>3
<1>4. WaitingInv'
  BY <1>a, <1>1 DEF WaitingInv
<1>5. PlaceInv'
  BY <1>a, <1>1, <1>2 DEF PlaceInv
<1>6. CountInv'
  <2>1. ~Uncounted'
    BY <1>2, NothingUncounted
  <2>2. frames_saved' + (IF srv_pc' \in {"open", "write"} THEN 1 ELSE 0) <= frames_received
    <3>1. frames_saved \in Nat /\ frames_received \in Nat
      BY <1>a DEF FInv, TypeOK
    <3> QED BY <1>a, <1>1, <1>2, <3>1 DEF CountInv
  <2> QED BY <1>a, <1>1, <1>3, <2>1, <2>2, CountStays
<1> QED BY <1>4, <1>5, <1>6

\* The header of a frame that will be taken is complete; without a payload all of it is there.
LEMMA AcceptedCount ==
    ASSUME SInv, HeaderAccepted
    PROVE  WaitingInv' /\ PlaceInv' /\ CountInv'
<1>a. FInv /\ WaitingInv /\ PlaceInv /\ CountInv /\ HeaderInv
  BY DEF SInv, FInv
<1>1. /\ UNCHANGED <<conn, hdr, frames_received, bytes_received, frames_saved, backlog, stream, pos>>
      /\ srv_pc = "header" /\ Len(hdr) = HeaderLen /\ ValidHeader(hdr) /\ ~(hdr[1].len > MaxPayload)
      /\ got' = 0 /\ srv_pc' = "payload" /\ srv_pc \in Serving
  BY DEF HeaderAccepted, TooLarge, statVars, netVars, Serving
<1>2. /\ pos[conn] \in Nat /\ HeaderLen \in Nat /\ HeaderLen >= 1 /\ MaxPayload \in Nat
      /\ hdr \in Seq(Byte)
  BY <1>a, <1>1, ReadingFacts, HeaderAssumption
<1>3. 1 \in 1 .. HeaderLen /\ hdr[1] \in Byte
  <2>1. 1 \in 1 .. HeaderLen
    BY <1>2
  <2> QED BY <1>1, <1>2, <2>1
<1>4. hdr[1].len \in Nat /\ hdr[1].off = 0
  <2>1. \A i \in 1 .. HeaderLen : hdr[i] = At(hdr[1], i - 1)
    BY <1>1 DEF ValidHeader, At
  <2>2. hdr[1] = At(hdr[1], 1 - 1)
    BY ONLY <1>3, <2>1, Zenon
  <2>3. 1 - 1 = 0
    OBVIOUS
  <2>4. hdr[1] = At(hdr[1], 0)
    BY <2>2, <2>3
  <2> QED BY <1>3, <2>4, AtFacts
<1>5. WaitingInv'
  BY <1>a, <1>1 DEF WaitingInv
<1>6. PlaceInv'
  <2>1. HeaderLen <= pos[conn] /\ hdr[1] = stream[conn][pos[conn] - HeaderLen + 1]
    BY <1>a, <1>1, <1>3 DEF HeaderInv
  <2>2. pos[conn] - HeaderLen - 0 + 1 = pos[conn] - HeaderLen + 1 /\ HeaderLen + 0 = HeaderLen
    BY <1>2
  <2>3. hdr[1].len <= MaxPayload
    BY <1>1, <1>2, <1>4
  <2> QED BY <1>1, <1>4, <2>1, <2>2, <2>3 DEF PlaceInv
<1>7. CountInv'
  <2>1. Uncounted' <=> Uncounted
    BY <1>1 DEF Uncounted
  <2>2. frames_saved' + (IF srv_pc' \in {"open", "write"} THEN 1 ELSE 0) <= frames_received
    BY <1>a, <1>1 DEF CountInv
  <2> QED BY <1>a, <1>1, <2>1, <2>2, CountStays
<1> QED BY <1>5, <1>6, <1>7

\* handleClient() counts the frame it has read.
LEMMA ReceivedCount ==
    ASSUME SInv, FrameReceived
    PROVE  WaitingInv' /\ PlaceInv' /\ CountInv'
<1>a. FInv /\ WaitingInv /\ PlaceInv /\ CountInv /\ PayloadInv /\ TypeOK
  BY DEF SInv, FInv
<1>1. /\ UNCHANGED <<conn, frames_saved, backlog, stream, pos>>
      /\ srv_pc = "payload" /\ got = hdr[1].len
      /\ frames_received' = frames_received + 1
      /\ bytes_received' = bytes_received + HeaderLen + hdr[1].len
      /\ srv_pc' \in {"open", "loop"} /\ srv_pc \in Serving
  BY DEF FrameReceived, ReceivedAll, EndOfTurn, netVars, Serving
<1>2. /\ hdr[1] \in Byte /\ hdr[1].len \in Nat /\ HeaderLen \in Nat /\ HeaderLen >= 1
  BY <1>a, <1>1, ReadingFacts
<1>3. WaitingInv'
  BY <1>a, <1>1 DEF WaitingInv
<1>4. PlaceInv'
  <2> DEFINE l == hdr[1].len
             b == stream[conn][pos[conn]]
  <2>1. b = At(hdr[1], HeaderLen + l - 1)
    BY <1>a, <1>1 DEF PayloadInv
  <2>2. HeaderLen + l - 1 \in Nat
    <3> HIDE DEF l
    <3>1. l \in Nat
      BY <1>2 DEF l
    <3> QED BY <1>2, <3>1
  <2>3. b.off = HeaderLen + l - 1 /\ b.len = l
    <3> HIDE DEF b
    <3>1. /\ At(hdr[1], HeaderLen + l - 1).off = HeaderLen + l - 1
          /\ At(hdr[1], HeaderLen + l - 1).len = l
      BY <1>2, <2>2, AtFacts
    <3> QED BY <2>1, <3>1
  <2>4. WholeUpTo(stream[conn], pos[conn])
    BY <2>3 DEF WholeUpTo
  <2> QED BY <1>1, <2>4 DEF PlaceInv
<1>5. CountInv'
  <2>1. Uncounted /\ ~Uncounted'
    BY <1>1 DEF Uncounted
  <2>2. FramesRead' = FramesRead /\ FrameBytesRead' = FrameBytesRead
    BY <1>1, FramesAre
  <2>3. /\ IsFiniteSet(FramesRead) /\ IsFiniteSet(FrameBytesRead)
        /\ Cardinality(FramesRead) = frames_received + 1
        /\ Cardinality(FrameBytesRead) = bytes_received + (HeaderLen + hdr[1].len)
        /\ frames_saved <= frames_received
    <3>1. frames_saved \in Nat /\ frames_received \in Nat
      BY <1>a DEF TypeOK
    <3> QED BY <1>a, <1>1, <2>1, <3>1 DEF CountInv
  <2>4. bytes_received + (HeaderLen + hdr[1].len) = bytes_received'
    <3> DEFINE l == hdr[1].len
    <3>1. l \in Nat /\ bytes_received \in Nat /\ bytes_received' = bytes_received + HeaderLen + l
      BY <1>a, <1>1, <1>2 DEF TypeOK
    <3> HIDE DEF l
    <3>2. bytes_received + (HeaderLen + l) = bytes_received'
      BY <1>2, <3>1
    <3> QED BY <3>2 DEF l
  <2>5. frames_saved' + (IF srv_pc' \in {"open", "write"} THEN 1 ELSE 0) <= frames_received'
    <3>1. frames_saved \in Nat /\ frames_received \in Nat
      BY <1>a DEF TypeOK
    <3> QED BY <1>1, <2>3, <3>1
  <2>6. frames_received' \in Nat /\ bytes_received' \in Nat
    <3>1. frames_received \in Nat /\ Cardinality(FrameBytesRead) \in Nat
      BY <1>a, <2>3, FS_CardinalityType DEF TypeOK
    <3> QED BY <1>1, <2>3, <2>4, <3>1
  <2>7. /\ Cardinality(FramesRead') = frames_received' + 0
        /\ Cardinality(FrameBytesRead') = bytes_received' + 0
    BY <1>1, <2>2, <2>3, <2>4, <2>6
  <2> QED BY <2>1, <2>2, <2>3, <2>5, <2>7 DEF CountInv
<1> QED BY <1>3, <1>4, <1>5

\* saveFrame() writes a frame that was counted.
LEMMA SaveCount ==
    ASSUME SInv, OpenFile \/ WriteFile \/ WriteDone \/ WriteFails
    PROVE  WaitingInv' /\ PlaceInv' /\ CountInv'
<1>a. FInv /\ WaitingInv /\ PlaceInv /\ CountInv
  BY DEF SInv, FInv
<1>1. /\ UNCHANGED <<conn, frames_received, bytes_received, backlog, stream, pos>>
      /\ srv_pc \in {"open", "write"} /\ srv_pc' \in {"write", "loop"}
      /\ frames_saved' = frames_saved \/ (frames_saved' = frames_saved + 1 /\ srv_pc' = "loop")
  BY DEF OpenFile, WriteFile, WriteDone, WriteFails, EndOfTurn, statVars, netVars
<1>2. WaitingInv'
  BY <1>a, <1>1 DEF WaitingInv
<1>3. PlaceInv'
  BY <1>a, <1>1 DEF PlaceInv
<1>4. CountInv'
  <2>1. ~Uncounted /\ ~Uncounted'
    BY <1>1, NothingUncounted
  <2>2. frames_saved' + (IF srv_pc' \in {"open", "write"} THEN 1 ELSE 0) <= frames_received
    <3>1. frames_saved \in Nat /\ frames_received \in Nat /\ frames_saved + 1 <= frames_received
      BY <1>a, <1>1 DEF FInv, TypeOK, CountInv
    <3> QED BY <1>1, <3>1
  <2> QED BY <1>a, <1>1, <2>1, <2>2, CountStays
<1> QED BY <1>2, <1>3, <1>4

\* A connection that arrives is a new one, from which nothing was read.
LEMMA ConnectsCount ==
    ASSUME SInv, NEW c \in Conns, NEW s, NEW e, ClientConnects(c, s, e)
    PROVE  WaitingInv' /\ PlaceInv' /\ CountInv'
<1>a. FInv /\ WaitingInv /\ PlaceInv /\ CountInv /\ TypeOK /\ ArrivalInv /\ ControlInv
  BY DEF SInv, FInv
<1>1. /\ UNCHANGED <<srv_pc, conn, hdr, got, frames_received, bytes_received, frames_saved, pos>>
      /\ ending[c] = "none" /\ backlog' = Append(backlog, c) /\ stream' = [stream EXCEPT ![c] = s]
  BY DEF ClientConnects, readVars, statVars
<1>2. pos[c] = 0 /\ c # conn /\ \A i \in 1 .. Len(backlog) : backlog[i] # c
  <2>1. c # conn
    <3>1. NoConn \notin Conns
      BY ConnsAssumption DEF Conns, NoConn
    <3> QED BY <1>a, <1>1, <3>1 DEF ArrivalInv
  <2> QED BY <1>a, <1>1, <2>1 DEF ArrivalInv
<1>3. backlog \in Seq(Conns) /\ Len(backlog) \in Nat /\ stream \in [Conns -> Seq(Byte)]
  BY <1>a DEF TypeOK
<1>4. /\ Len(backlog') = Len(backlog) + 1 /\ backlog'[Len(backlog) + 1] = c
      /\ \A i \in 1 .. Len(backlog) : backlog'[i] = backlog[i]
  BY <1>1, <1>3
<1>5. \A i \in 1 .. Len(backlog') : i \in 1 .. Len(backlog) \/ i = Len(backlog) + 1
  BY <1>3, <1>4
<1>6. WaitingInv'
  <2>1. \A i, j \in 1 .. Len(backlog') : backlog'[i] = backlog'[j] => i = j
    BY <1>a, <1>2, <1>4, <1>5 DEF WaitingInv
  <2>2. \A i \in 1 .. Len(backlog') : backlog'[i] # conn' /\ pos'[backlog'[i]] = 0
    BY <1>a, <1>1, <1>2, <1>4, <1>5 DEF WaitingInv
  <2> QED BY <2>1, <2>2 DEF WaitingInv
<1>7. \A d \in Conns : d # c => stream'[d] = stream[d]
  BY <1>1, <1>3
<1>8. PlaceInv'
  <2>1. CASE conn \in Conns
    <3>1. stream'[conn] = stream[conn]
      BY <1>2, <1>7, <2>1
    <3> QED BY <1>a, <1>1, <3>1 DEF PlaceInv
  <2>2. CASE conn \notin Conns
    <3>1. srv_pc \notin Serving
      BY <1>a, <2>2 DEF TypeOK, ControlInv
    <3> QED BY <1>1, <3>1 DEF PlaceInv, Serving
  <2> QED BY <2>1, <2>2
<1>9. CountInv'
  <2>1. Uncounted' <=> Uncounted
    BY <1>1 DEF Uncounted
  <2>2. frames_saved' + (IF srv_pc' \in {"open", "write"} THEN 1 ELSE 0) <= frames_received
    BY <1>a, <1>1 DEF CountInv
  <2>3. \A d \in Conns : pos[d] = 0 \/ stream'[d] = stream[d]
    BY <1>2, <1>7
  <2> QED BY <1>a, <1>1, <2>1, <2>2, <2>3, CountStays
<1> QED BY <1>6, <1>8, <1>9

\* A header of the protocol without a payload is complete exactly when a frame ends there.
LEMMA HeaderEnd ==
    ASSUME NEW s \in Seq(Byte), Coherent(s), NEW q \in Nat, WholeUpTo(s, q),
           NEW h \in Seq(Byte), Len(h) = HeaderLen, q + HeaderLen <= Len(s),
           \A i \in 1 .. HeaderLen : h[i] = s[q + i]
    PROVE  /\ ValidHeader(h) /\ h[1].len = 0 <=> FrameEnd(s, q + HeaderLen)
           /\ FrameEnd(s, q + HeaderLen) => s[q + HeaderLen].off = HeaderLen - 1
<1> DEFINE f == q + 1
           m == q + HeaderLen
<1>1. HeaderLen \in Nat /\ HeaderLen >= 1 /\ MaxPayload \in Nat /\ Len(s) \in Nat
  BY HeaderAssumption
<1>2. f \in 1 .. Len(s) /\ m \in f .. Len(s) /\ m \in 1 .. Len(s) /\ m - f = HeaderLen - 1
      /\ 1 \in 1 .. HeaderLen
  BY <1>1
<1>3. h[1] = s[f] /\ s[f] \in Byte
  BY <1>2
<1> HIDE DEF f, m
<1>4. ASSUME s[f].off = 0, s[f].len = 0, s[f].proto = "FRAM 1"
      PROVE  ValidHeader(h) /\ FrameEnd(s, m) /\ s[m].off = HeaderLen - 1
  <2>1. 0 <= MaxPayload /\ m - f < HeaderLen + 0 /\ m = f + HeaderLen + 0 - 1
    BY <1>1, <1>2 DEF f, m
  <2>2. m - f < HeaderLen + s[f].len /\ s[f].len <= MaxPayload /\ m = f + HeaderLen + s[f].len - 1
    BY <1>4, <2>1
  <2>3. FrameEnd(s, m) /\ s[m].off = m - f
    BY <1>2, <1>4, <2>2, FrameSpan
  <2>4. ASSUME NEW i \in 1 .. HeaderLen
        PROVE  h[i] = [h[1] EXCEPT !.off = i - 1] /\ h[i].proto = "FRAM 1"
    <3>1. q + i \in f .. Len(s) /\ (q + i) - f = i - 1 /\ (q + i) - f < HeaderLen + 0
      BY <1>1 DEF f
    <3>2. (q + i) - f < HeaderLen + s[f].len
      BY <1>4, <3>1
    <3>3. s[q + i] = At(s[f], (q + i) - f) /\ s[q + i].proto = s[f].proto
      BY <1>2, <1>4, <3>1, <3>2, FrameSpan
    <3>4. h[i] = s[q + i]
      OBVIOUS
    <3> QED BY <1>3, <1>4, <3>1, <3>3, <3>4 DEF At
  <2>5. ValidHeader(h)
    BY <2>4 DEF ValidHeader
  <2> QED BY <1>2, <2>3, <2>5
<1>5. ASSUME ValidHeader(h), h[1].len = 0 PROVE FrameEnd(s, m)
  <2>1. h[1].proto = "FRAM 1" /\ \A i \in 1 .. HeaderLen : h[i] = At(h[1], i - 1)
    BY <1>2, <1>5 DEF ValidHeader, At
  <2>2. h[1] = At(h[1], 1 - 1)
    BY ONLY <1>2, <2>1, Zenon
  <2>3. 1 - 1 = 0
    OBVIOUS
  <2>4. h[1] = At(h[1], 0)
    BY <2>2, <2>3
  <2>5. h[1].off = 0
    BY <1>3, <2>4, AtFacts
  <2> QED BY <1>3, <1>4, <1>5, <2>1, <2>5
<1>6. ASSUME FrameEnd(s, m) PROVE s[f].off = 0 /\ s[f].len = 0 /\ s[f].proto = "FRAM 1"
  <2>1. q < m /\ m <= q + HeaderLen
    BY <1>1 DEF m
  <2> QED BY <1>2, <1>6, <2>1, NextFrameEnd DEF f
<1>7. ValidHeader(h) /\ h[1].len = 0 <=> FrameEnd(s, m)
  BY <1>3, <1>4, <1>5, <1>6
<1>8. FrameEnd(s, m) => s[m].off = HeaderLen - 1
  BY <1>4, <1>6
<1> QED BY <1>7, <1>8 DEF m

\* Reading of the header ends a frame only when this has no payload.
LEMMA ReadHeaderCount ==
    ASSUME SInv, ReadHeader
    PROVE  WaitingInv' /\ PlaceInv' /\ CountInv'
<1>a. FInv /\ WaitingInv /\ PlaceInv /\ CountInv /\ TypeOK /\ HeaderInv /\ FInv'
  BY ReadHeaderStep DEF SInv, FInv
<1> DEFINE s == stream[conn]
           p == pos[conn]
           l == Len(hdr)
<1>1. srv_pc = "header" /\ srv_pc \in Serving
  BY DEF ReadHeader, Serving
<1>2. /\ conn \in Conns /\ s \in Seq(Byte) /\ p \in Nat /\ Len(s) \in Nat /\ p <= Len(s)
      /\ Coherent(s) /\ l \in Nat /\ HeaderLen \in Nat /\ HeaderLen >= 1
      /\ pos \in [Conns -> Nat] /\ frames_received \in Nat /\ bytes_received \in Nat
  BY <1>a, <1>1, ReadingFacts DEF TypeOK
<1>3. PICK n \in 1 .. (HeaderLen - l) :
         /\ n <= Len(s) - p
         /\ hdr' = hdr \o SubSeq(s, p + 1, p + n)
         /\ pos' = [pos EXCEPT ![conn] = p + n]
  BY DEF ReadHeader, Arriving, Unread
<1>4. UNCHANGED <<srv_pc, conn, got, frames_received, bytes_received, frames_saved, backlog, stream>>
  BY DEF ReadHeader, statVars, netVars
<1>5. l <= p /\ WholeUpTo(s, p - l)
  BY <1>a, <1>1 DEF HeaderInv, PlaceInv
<1>6. hdr \in Seq(Byte) /\ hdr' \in Seq(Byte)
  BY <1>a DEF FInv, TypeOK
<1> HIDE DEF s, p
<1>7. n \in Nat /\ n >= 1 /\ p + n <= Len(s) /\ l + n <= HeaderLen /\ l < HeaderLen
  <2>1. n \in 1 .. (HeaderLen - l) /\ n <= Len(s) - p
    BY <1>3
  <2> HIDE DEF l
  <2> QED BY <1>2, <2>1
<1>8. Len(hdr') = l + n
  <2> DEFINE u == SubSeq(s, p + 1, p + n)
  <2>1. u \in Seq(Byte) /\ Len(u) = n
    BY <1>2, <1>7, PieceFacts
  <2> HIDE DEF u
  <2>2. hdr' = hdr \o u
    BY <1>3 DEF u
  <2> QED BY <1>6, <2>1, <2>2, JoinFacts
<1>9. pos'[conn'] = p + n /\ stream'[conn'] = s
  BY <1>2, <1>3, <1>4 DEF s
<1> DEFINE q == p - l
           m == p + n
<1>10. q \in Nat /\ m \in Nat /\ p < m /\ m - (l + n) = q /\ m <= q + HeaderLen /\ m <= Len(s) /\ q <= p
  <2> HIDE DEF l
  <2> QED BY <1>2, <1>5, <1>7
<1>11. WaitingInv'
  <2>1. \A c \in Conns : c # conn => pos'[c] = pos[c]
    BY <1>2, <1>3
  <2>2. backlog \in Seq(Conns)
    BY <1>a DEF TypeOK
  <2>3. \A i \in 1 .. Len(backlog) : backlog[i] \in Conns
    BY <2>2
  <2> QED BY <1>a, <1>4, <2>1, <2>3 DEF WaitingInv
<1>12. PlaceInv'
  <2>1. WholeUpTo(stream'[conn'], pos'[conn'] - Len(hdr'))
    BY <1>5, <1>8, <1>9, <1>10
  <2> QED BY <1>1, <1>4, <2>1 DEF PlaceInv
<1>13. ~Uncounted
  <2>1. Len(hdr) # HeaderLen
    BY <1>2, <1>7
  <2> QED BY <1>1, <2>1, NothingUncounted
<1> HIDE DEF l, q, m
<1>14. ASSUME NEW j \in (q + 1) .. m, FrameEnd(s, j) PROVE j = q + HeaderLen
  <2>1. j \in 1 .. Len(s) /\ q < j /\ j <= q + HeaderLen
    BY <1>2, <1>10
  <2> QED BY <1>2, <1>5, <1>10, <1>14, <2>1, NextFrameEnd DEF q
<1>15. \A j \in (p + 1) .. m : j \in (q + 1) .. m
  BY <1>2, <1>10
<1>16. pos' = [pos EXCEPT ![conn] = m] /\ pos[conn] = p /\ stream[conn] = s /\ p <= m
  BY <1>2, <1>3, <1>10 DEF m, p, s
<1>17. CASE l + n # HeaderLen
  <2>1. ~Uncounted'
    BY <1>1, <1>4, <1>8, <1>17, NothingUncounted
  <2>2. m # q + HeaderLen
    BY <1>2, <1>7, <1>17 DEF m, q
  <2>3. m < q + HeaderLen
    BY <1>2, <1>10, <2>2
  <2>4. \A j \in (p + 1) .. m : ~FrameEnd(s, j)
    <3> SUFFICES ASSUME NEW j \in (p + 1) .. m, FrameEnd(s, j) PROVE FALSE
      OBVIOUS
    <3>1. j = q + HeaderLen
      BY <1>14, <1>15
    <3>2. j <= m /\ j \in Int
      BY <1>2, <1>10
    <3> QED BY <1>2, <1>10, <2>3, <3>1, <3>2
  <2>5. CountInv'
    BY <1>a, <1>2, <1>4, <1>10, <1>13, <1>16, <2>1, <2>4, NoEndRead
  <2> QED BY <1>11, <1>12, <2>5
<1>18. CASE l + n = HeaderLen
  <2>1. m = q + HeaderLen
    BY <1>2, <1>7, <1>18 DEF m, q
  <2>2. \A i \in 1 .. HeaderLen : hdr'[i] = s[q + i]
    <3>1. \A i \in 1 .. Len(hdr') : hdr'[i] = stream'[conn'][pos'[conn'] - Len(hdr') + i]
      BY <1>a, <1>1, <1>4 DEF FInv, HeaderInv
    <3>2. pos'[conn'] - Len(hdr') = q
      BY <1>8, <1>9, <1>10 DEF m
    <3> QED BY <1>8, <1>9, <1>18, <3>1, <3>2
  <2>3. /\ ValidHeader(hdr') /\ hdr'[1].len = 0 <=> FrameEnd(s, m)
        /\ FrameEnd(s, m) => s[m].off = HeaderLen - 1
    <3>1. WholeUpTo(s, q) /\ Len(hdr') = HeaderLen /\ q + HeaderLen <= Len(s)
      BY <1>5, <1>8, <1>10, <1>18, <2>1 DEF q
    <3>2. /\ ValidHeader(hdr') /\ hdr'[1].len = 0 <=> FrameEnd(s, q + HeaderLen)
          /\ FrameEnd(s, q + HeaderLen) => s[q + HeaderLen].off = HeaderLen - 1
      <4> DEFINE h == hdr'
      <4>1. h \in Seq(Byte) /\ Len(h) = HeaderLen /\ \A i \in 1 .. HeaderLen : h[i] = s[q + i]
        BY <1>6, <2>2, <3>1
      <4> HIDE DEF h
      <4>2. /\ ValidHeader(h) /\ h[1].len = 0 <=> FrameEnd(s, q + HeaderLen)
            /\ FrameEnd(s, q + HeaderLen) => s[q + HeaderLen].off = HeaderLen - 1
        BY <1>2, <1>10, <3>1, <4>1, HeaderEnd
      <4>3. ValidHeader(h) = ValidHeader(hdr') /\ h = hdr'
        BY DEF h
      <4> QED BY <4>2, <4>3
    <3> QED BY <2>1, <3>2
  <2>4. Uncounted' <=> FrameEnd(s, m)
    <3>1. Uncounted' <=> (ValidHeader(hdr') /\ hdr'[1].len = 0)
      BY <1>1, <1>4, <1>8, <1>18 DEF Uncounted, ValidHeader
    <3> QED BY <2>3, <3>1
  <2>5. CASE ~FrameEnd(s, m)
    <3>1. \A j \in (p + 1) .. m : ~FrameEnd(s, j)
      BY <1>14, <1>15, <2>1, <2>5
    <3>2. CountInv'
      BY <1>a, <1>2, <1>4, <1>10, <1>13, <1>16, <2>4, <2>5, <3>1, NoEndRead
    <3> QED BY <1>11, <1>12, <3>2
  <2>6. CASE FrameEnd(s, m)
    <3> DEFINE f == q + 1
    <3>1. f \in Nat /\ 1 <= f /\ f <= p + 1 /\ m - f + 1 = HeaderLen /\ m - (HeaderLen - 1) = f
      BY <1>2, <1>10, <2>1
    <3>2. m - s[m].off = f
      BY <2>3, <2>6, <3>1
    <3>3. \A j \in f .. (m - 1) : ~FrameEnd(s, j)
      <4> SUFFICES ASSUME NEW j \in f .. (m - 1), FrameEnd(s, j) PROVE FALSE
        OBVIOUS
      <4>1. j \in (q + 1) .. m /\ j # m
        BY <1>2, <1>10
      <4> QED BY <1>14, <2>1, <4>1
    <3>4. m - f + 1 = HeaderLen + hdr'[1].len
      <4>1. hdr'[1].len = 0
        BY <2>3, <2>6
      <4>2. HeaderLen + 0 = HeaderLen
        BY <1>2
      <4> QED BY <3>1, <4>1, <4>2
    <3> HIDE DEF f
    <3>5. CountInv'
      BY <1>a, <1>2, <1>4, <1>10, <1>13, <1>16, <2>4, <2>6, <3>1, <3>2, <3>3, <3>4, EndRead
    <3> QED BY <1>11, <1>12, <3>5
  <2> QED BY <2>5, <2>6
<1> QED BY <1>17, <1>18

\* Reading of the payload ends the frame with its last byte.
LEMMA ReadPayloadCount ==
    ASSUME SInv, ReadPayload
    PROVE  WaitingInv' /\ PlaceInv' /\ CountInv'
<1>a. FInv /\ WaitingInv /\ PlaceInv /\ CountInv /\ TypeOK /\ HeaderInv
  BY DEF SInv, FInv
<1> DEFINE s == stream[conn]
           p == pos[conn]
           l == hdr[1].len
<1>1. srv_pc = "payload" /\ srv_pc \in Serving /\ srv_pc \in {"payload", "open", "write"}
  BY DEF ReadPayload, Serving
<1>2. /\ conn \in Conns /\ s \in Seq(Byte) /\ p \in Nat /\ Len(s) \in Nat /\ p <= Len(s)
      /\ Coherent(s) /\ l \in Nat /\ HeaderLen \in Nat /\ HeaderLen >= 1 /\ got \in Nat
      /\ pos \in [Conns -> Nat] /\ frames_received \in Nat /\ bytes_received \in Nat
  BY <1>a, <1>1, ReadingFacts DEF TypeOK
<1>3. PICK n \in 1 .. (l - got) :
         n <= Len(s) - p /\ got' = got + n /\ pos' = [pos EXCEPT ![conn] = p + n]
  BY DEF ReadPayload, Unread
<1>4. UNCHANGED <<srv_pc, conn, hdr, frames_received, bytes_received, frames_saved, backlog, stream>>
  BY DEF ReadPayload, statVars, netVars
<1>5. /\ HeaderLen + got <= p /\ hdr[1].off = 0 /\ hdr[1].len <= MaxPayload
      /\ s[p - HeaderLen - got + 1] = hdr[1] /\ hdr[1].proto = "FRAM 1"
  BY <1>a, <1>1 DEF PlaceInv, HeaderInv
<1> DEFINE f == p - HeaderLen - got + 1
           m == p + n
<1>6. s[f] = hdr[1] /\ s[f].off = 0 /\ s[f].len = l /\ s[f].len <= MaxPayload /\ s[f].proto = "FRAM 1"
  BY <1>5
<1> HIDE DEF s, p, l
<1>7. n \in Nat /\ n >= 1 /\ p + n <= Len(s) /\ got + n <= l /\ got < l
  BY <1>2, <1>3
<1>b. HeaderLen + got <= p
  BY <1>5
<1>c. /\ p \in Nat /\ Len(s) \in Nat /\ p <= Len(s) /\ l \in Nat /\ got \in Nat
      /\ HeaderLen \in Nat /\ HeaderLen >= 1
  BY <1>2
<1>8. f \in Nat /\ m \in Nat /\ 1 <= f /\ f <= p + 1 /\ p < m /\ m <= Len(s) /\ f <= Len(s)
      /\ f \in 1 .. Len(s)
  BY <1>b, <1>c, <1>7
<1>9. /\ m = f + HeaderLen + (got + n) - 1 /\ m - f + 1 = HeaderLen + (got + n)
      /\ (p + n) - HeaderLen - (got + n) + 1 = f /\ HeaderLen + (got + n) <= p + n
  BY <1>b, <1>c, <1>7
<1>10. pos'[conn'] = m /\ stream'[conn'] = s
  BY <1>2, <1>3, <1>4 DEF s
<1>11. WaitingInv'
  <2>1. \A c \in Conns : c # conn => pos'[c] = pos[c]
    BY <1>2, <1>3
  <2>2. backlog \in Seq(Conns)
    BY <1>a DEF TypeOK
  <2>3. \A i \in 1 .. Len(backlog) : backlog[i] \in Conns
    BY <2>2
  <2> QED BY <1>a, <1>4, <2>1, <2>3 DEF WaitingInv
<1>12. PlaceInv'
  <2>1. HeaderLen + got' <= pos'[conn'] /\ pos'[conn'] - HeaderLen - got' + 1 = f
    BY <1>3, <1>9, <1>10
  <2> QED BY <1>1, <1>4, <1>5, <1>6, <1>10, <2>1 DEF PlaceInv
<1>13. /\ ~Uncounted /\ (Uncounted' <=> got + n = l) /\ hdr'[1].len = l
  <2>1. got # l
    BY <1>2, <1>7
  <2> QED BY <1>1, <1>3, <1>4, <2>1 DEF Uncounted, l
<1>14. pos' = [pos EXCEPT ![conn] = m] /\ pos[conn] = p /\ stream[conn] = s /\ p <= m
  BY <1>2, <1>3, <1>8 DEF p, s
<1> HIDE DEF f, m
<1>15. ASSUME NEW j \in f .. m
       PROVE  /\ FrameEnd(s, j) <=> j = f + HeaderLen + l - 1
              /\ s[j].off = j - f
  <2>1. j \in f .. Len(s) /\ j - f < HeaderLen + l
    BY <1>2, <1>7, <1>8, <1>9
  <2>2. j - f < HeaderLen + s[f].len
    BY <1>6, <2>1
  <2>3. /\ s \in Seq(Byte) /\ Coherent(s) /\ f \in 1 .. Len(s) /\ s[f].off = 0 /\ j \in f .. Len(s)
        /\ s[f].proto = "FRAM 1" /\ s[f].len <= MaxPayload
    BY <1>2, <1>6, <1>8, <2>1
  <2>4. s[j].off = j - f
    BY ONLY <2>2, <2>3, FrameSpan
  <2>5. ASSUME FrameEnd(s, j) PROVE j = f + HeaderLen + s[f].len - 1
    BY ONLY <2>2, <2>3, <2>5, FrameSpan, ZenonT(40)
  <2>6. ASSUME j = f + HeaderLen + s[f].len - 1 PROVE FrameEnd(s, j)
    BY ONLY <2>2, <2>3, <2>6, FrameSpan, ZenonT(40)
  <2>7. FrameEnd(s, j) <=> j = f + HeaderLen + s[f].len - 1
    BY <2>5, <2>6
  <2> QED BY <1>6, <2>4, <2>7
<1>16. CASE got + n # l
  <2>1. m < f + HeaderLen + l - 1
    BY <1>2, <1>7, <1>8, <1>9, <1>16
  <2>2. \A j \in (p + 1) .. m : ~FrameEnd(s, j)
    <3> SUFFICES ASSUME NEW j \in (p + 1) .. m PROVE ~FrameEnd(s, j)
      OBVIOUS
    <3>1. j \in f .. m /\ j # f + HeaderLen + l - 1
      BY <1>2, <1>8, <2>1
    <3> QED BY <1>15, <3>1
  <2>3. CountInv'
    BY <1>a, <1>2, <1>4, <1>8, <1>13, <1>14, <1>16, <2>2, NoEndRead
  <2> QED BY <1>11, <1>12, <2>3
<1>17. CASE got + n = l
  <2>1. m = f + HeaderLen + l - 1 /\ m - f + 1 = HeaderLen + l /\ m \in f .. m
    BY <1>2, <1>8, <1>9, <1>17
  <2>2. FrameEnd(s, m) /\ s[m].off = m - f
    BY <1>15, <2>1
  <2>3. m - s[m].off = f
    <3>1. m - (m - f) = f
      BY <1>8
    <3> QED BY <2>2, <3>1
  <2>4. \A j \in f .. (m - 1) : ~FrameEnd(s, j)
    <3> SUFFICES ASSUME NEW j \in f .. (m - 1) PROVE ~FrameEnd(s, j)
      OBVIOUS
    <3>1. j \in f .. m /\ j # m
      BY <1>8
    <3> QED BY <1>15, <2>1, <3>1
  <2>5. m - f + 1 = HeaderLen + hdr'[1].len
    BY <1>13, <2>1
  <2>6. CountInv'
    BY <1>a, <1>2, <1>4, <1>8, <1>13, <1>14, <1>17, <2>2, <2>3, <2>4, <2>5, EndRead
  <2> QED BY <1>11, <1>12, <2>6
<1> QED BY <1>16, <1>17

\* Before the server listens nothing was read or counted.
LEMMA InitSInv == Init => SInv
<1> SUFFICES ASSUME Init PROVE SInv
  OBVIOUS
<1>1. FInv
  BY InitFInv
<1>2. WaitingInv /\ PlaceInv
  BY DEF Init, WaitingInv, PlaceInv
<1>3. FramesRead = {} /\ FrameBytesRead = {}
  <2>1. \A c \in Conns : \A i \in 1 .. pos[c] : FALSE
    BY DEF Init
  <2>2. \A ci : ci \notin Ends(stream, pos)
    BY <2>1, EndsFacts
  <2>3. \A ci : ci \notin Covered(stream, pos)
    BY <2>1, CoveredFacts
  <2> QED BY <2>2, <2>3, FramesAre
<1>4. CountInv
  <2>1. IsFiniteSet({}) /\ Cardinality({}) = 0
    BY FS_EmptySet
  <2>2. frames_received = 0 /\ bytes_received = 0 /\ frames_saved = 0 /\ srv_pc = "args"
    BY DEF Init
  <2>3. ~Uncounted
    BY <2>2 DEF Uncounted
  <2> QED BY <1>3, <2>1, <2>2, <2>3 DEF CountInv
<1> QED BY <1>1, <1>2, <1>4 DEF SInv

\* The invariant of the counters is preserved by every step of the server and of its clients.
LEMMA NextSInv == SInv /\ [Next]_vars => SInv'
<1> SUFFICES ASSUME SInv, [Next]_vars PROVE SInv'
  OBVIOUS
<1>0. FInv'
  BY NextFInv DEF SInv
<1> SUFFICES WaitingInv' /\ PlaceInv' /\ CountInv'
  BY <1>0 DEF SInv
<1>1. CASE \/ ParseArgs \/ CreateSslContext \/ CreateSocket \/ BindListen
           \/ LoopTop \/ LoopExit \/ SelectNothing \/ AcceptFails \/ SslAccept
           \/ ClientLoop
  BY <1>1, ControlCount
<1>2. CASE signalHandler \/ ClientEnds \/ UNCHANGED vars
  <2>1. UNCHANGED <<srv_pc, conn, hdr, got, frames_received, bytes_received, frames_saved,
                    backlog, stream, pos>>
    BY <1>2 DEF signalHandler, ClientEnds, vars, readVars, statVars, netVars
  <2> QED BY <2>1, IdleCount
<1>3. CASE Accept \/ SslAcceptFails \/ Cleanup \/ Final \/ Sigpipe
  BY <1>3, ConnectionCount
<1>4. CASE ClientLoopExit \/ ReadFails \/ HeaderRejected \/ OpenFails
  BY <1>4, LeaveCount
<1>5. CASE ReadHeader
  BY <1>5, ReadHeaderCount
<1>6. CASE HeaderAccepted
  BY <1>6, AcceptedCount
<1>7. CASE ReadPayload
  BY <1>7, ReadPayloadCount
<1>8. CASE FrameReceived
  BY <1>8, ReceivedCount
<1>9. CASE OpenFile \/ WriteFile \/ WriteDone \/ WriteFails
  BY <1>9, SaveCount
<1>10. CASE ClientStep
  BY <1>10, ConnectsCount DEF ClientStep
<1> QED BY <1>1, <1>2, <1>3, <1>4, <1>5, <1>6, <1>7, <1>8, <1>9, <1>10
     DEF Next, LocalStep, ReadStep, HandshakeStep, Terminated

\* The statistics of handleClient() agree with what arrived: every frame that was read to its
\* last byte is counted once, with its bytes, on whatever connection and however reads are
\* split and connections break off, and saveFrame() counts no frame that was not received.
THEOREM FramesAllCounted == Spec => []FramesCounted
<1>1. SInv => FramesCounted
  <2> SUFFICES ASSUME SInv PROVE FramesCounted
    OBVIOUS
  <2>1. frames_saved \in Nat /\ frames_received \in Nat /\ CountInv
    BY DEF SInv, FInv, TypeOK
  <2>2. frames_saved <= frames_received
    BY <2>1 DEF CountInv
  <2> QED BY <2>1, <2>2 DEF CountInv, FramesCounted
<1> QED BY <1>1, InitSInv, NextSInv, PTL DEF Spec
=============================================================================
