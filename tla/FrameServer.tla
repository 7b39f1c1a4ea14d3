----------------------------- MODULE FrameServer -----------------------------
(***************************************************************************)
(* The server, server/server.cpp: start-up, the accept loop of main(),     *)
(* handleClient(), sslReadAll() and saveFrame(), with the clients, the     *)
(* kernel and the file system as environment.                              *)
(*                                                                         *)
(* A byte of a connection is a record: the program run that sent it, the   *)
(* protocol (magic and version) and number of its frame, its offset in     *)
(* header and payload, and the payload length the header announces.        *)
(* A call that is repeated (WANT_READ, EINTR) changes nothing and is no    *)
(* step.  Files are named by frame number; the extension is in             *)
(* WireProtocol.tla.                                                       *)
(***************************************************************************)
EXTENDS Integers, Sequences, FiniteSets

CONSTANTS
    MaxConns,        \* bound: connections, numbered in the order of arrival
    Seqs,            \* frame numbers
    HeaderLen,       \* FRAME_HEADER_SIZE
    MaxPayload,      \* the 16 MB limit
    save_frames,     \* whether --output was given
    Streams          \* what a client may send on a connection

ASSUME HeaderAssumption == HeaderLen \in Nat \ {0} /\ MaxPayload \in Nat
ASSUME ConnsAssumption  == MaxConns \in Nat
ASSUME SaveAssumption   == save_frames \in BOOLEAN

Byte == [src : Nat, proto : {"FRAM 1", "other", "zero"}, seq : Nat, off : Nat, len : Nat]

\* The bytes that follow a byte are those of its frame, up to the end of the frame: a
\* client writes a frame from first to last byte, or breaks off.
Coherent(s) ==
    \A i, j \in 1 .. Len(s) :
        i <= j /\ s[i].off + (j - i) < HeaderLen + s[i].len =>
            s[j] = [s[i] EXCEPT !.off = s[i].off + (j - i)]

ASSUME StreamsAssumption ==
    \A s \in Streams :
        s \in Seq(Byte) /\ Coherent(s) /\ \A i \in 1 .. Len(s) : s[i].seq \in Seqs

VARIABLES
    \* main()
    srv_pc, g_running, ssl_ctx, server_fd,
    conn,                  \* connection being served, or NoConn
    open_conns,            \* accepted and not closed: descriptor and SSL object
    \* handleClient() and saveFrame()
    hdr, frame_buf, got,   \* header bytes, buffer, payload bytes read so far
    frames_received, bytes_received, frames_saved,
    files,                 \* contents by frame number, <<>> when there is none
    \* Clients and kernel
    backlog,               \* connections not accepted yet
    stream, pos,           \* bytes that arrive on a connection, how many were read
    ending,                \* "none", "open", "closed", "reset"
    \* History
    failed_saves           \* files whose last write() failed

Conns  == 1 .. MaxConns
NoConn == 0

mainVars == <<g_running, ssl_ctx, server_fd>>
readVars == <<hdr, frame_buf, got>>
statVars == <<frames_received, bytes_received, frames_saved>>
fileVars == <<files, failed_saves>>
netVars  == <<backlog, stream, ending>>
vars == <<srv_pc, mainVars, conn, open_conns, readVars, statVars, fileVars, netVars, pos>>

ZeroByte == [src |-> 0, proto |-> "zero", seq |-> 0, off |-> 0, len |-> 0]

Init ==
    /\ srv_pc = "args" /\ g_running = TRUE
    /\ ssl_ctx = FALSE /\ server_fd = FALSE
    /\ conn = NoConn /\ open_conns = {}
    /\ hdr = <<>> /\ frame_buf = <<>> /\ got = 0
    /\ frames_received = 0 /\ bytes_received = 0 /\ frames_saved = 0
    /\ files = [s \in Seqs |-> <<>>] /\ failed_saves = {}
    /\ backlog = <<>>
    /\ stream = [c \in Conns |-> <<>>] /\ pos = [c \in Conns |-> 0]
    /\ ending = [c \in Conns |-> "none"]

-----------------------------------------------------------------------------
(* main(): start-up.  Every failure returns, and frees what there is.      *)

\* parseArgs() and mkdir().
ParseArgs ==
    /\ srv_pc = "args"
    /\ srv_pc' \in {"context", "stopped"}
    /\ UNCHANGED <<mainVars, conn, open_conns, readVars, statVars, fileVars, netVars, pos>>

CreateSslContext ==
    /\ srv_pc = "context"
    /\ \/ ssl_ctx' = TRUE /\ srv_pc' = "socket"
       \/ UNCHANGED ssl_ctx /\ srv_pc' = "stopped"
    /\ UNCHANGED <<g_running, server_fd, conn, open_conns, readVars, statVars, fileVars,
                   netVars, pos>>

CreateSocket ==
    /\ srv_pc = "socket"
    /\ \/ server_fd' = TRUE /\ UNCHANGED ssl_ctx /\ srv_pc' = "bind"
       \/ UNCHANGED server_fd /\ ssl_ctx' = FALSE /\ srv_pc' = "stopped"
    /\ UNCHANGED <<g_running, conn, open_conns, readVars, statVars, fileVars, netVars, pos>>

\* bind() and listen().
BindListen ==
    /\ srv_pc = "bind"
    /\ \/ UNCHANGED <<ssl_ctx, server_fd>> /\ srv_pc' = "top"
       \/ ssl_ctx' = FALSE /\ server_fd' = FALSE /\ srv_pc' = "stopped"
    /\ UNCHANGED <<g_running, conn, open_conns, readVars, statVars, fileVars, netVars, pos>>

signalHandler ==
    /\ g_running
    /\ srv_pc \notin {"args", "stopped", "killed"}
    /\ g_running' = FALSE
    /\ UNCHANGED <<srv_pc, ssl_ctx, server_fd, conn, open_conns, readVars, statVars,
                   fileVars, netVars, pos>>

-----------------------------------------------------------------------------
(* main(): the accept loop.                                                *)

Goto(from, to) ==
    /\ srv_pc = from
    /\ srv_pc' = to
    /\ UNCHANGED <<mainVars, conn, open_conns, readVars, statVars, fileVars, netVars, pos>>

LoopAgain == Goto("top", "select")   \* faulty: g_running is not looked at
LoopTop  == g_running /\ Goto("top", "select")
LoopExit == ~g_running /\ Goto("top", "final")

\* select() timed out, or the signal interrupted it.
SelectNothing == (backlog = <<>> \/ ~g_running) /\ Goto("select", "top")

\* select() or accept() fails for another reason than EINTR: the loop ends.
AcceptFails == Goto("select", "final")

Accept ==
    /\ srv_pc = "select" /\ backlog # <<>>
    /\ conn' = Head(backlog)
    /\ backlog' = Tail(backlog)
    /\ open_conns' = open_conns \cup {Head(backlog)}
    /\ srv_pc' = "handshake"
    /\ UNCHANGED <<mainVars, readVars, statVars, fileVars, stream, ending, pos>>

SslAccept == Goto("handshake", "loop")

SslAcceptLeaks ==   \* faulty: SSL object and descriptor are kept
    /\ srv_pc = "handshake"
    /\ conn' = NoConn
    /\ srv_pc' = "top"
    /\ UNCHANGED <<mainVars, open_conns, readVars, statVars, fileVars, netVars, pos>>

\* SSL_accept() fails: SSL_free(), close(), and on with the loop.
SslAcceptFails ==
    /\ srv_pc = "handshake"
    /\ open_conns' = open_conns \ {conn}
    /\ conn' = NoConn
    /\ srv_pc' = "top"
    /\ UNCHANGED <<mainVars, readVars, statVars, fileVars, netVars, pos>>

\* After handleClient(): SSL_shutdown(), SSL_free(), close().
Cleanup ==
    /\ srv_pc = "cleanup"
    /\ open_conns' = open_conns \ {conn}
    /\ conn' = NoConn
    /\ srv_pc' = "top"
    /\ UNCHANGED <<mainVars, readVars, statVars, fileVars, netVars, pos>>

\* The statistics, and the end of main(); the kernel drops the backlog.
Final ==
    /\ srv_pc = "final"
    /\ server_fd' = FALSE /\ ssl_ctx' = FALSE
    /\ backlog' = <<>>
    /\ srv_pc' = "stopped"
    /\ UNCHANGED <<g_running, conn, open_conns, readVars, statVars, fileVars, stream, ending,
                   pos>>

-----------------------------------------------------------------------------
(* handleClient() and sslReadAll().                                        *)

ClientLoop == g_running /\ Goto("loop", "header")

\* The end of handleClient(), which clears the buffer.
LeaveClient ==
    /\ hdr' = <<>> /\ frame_buf' = <<>> /\ got' = 0
    /\ srv_pc' = "cleanup"
    /\ UNCHANGED <<mainVars, conn, open_conns, statVars, fileVars, netVars, pos>>

ClientLoopExit == srv_pc = "loop" /\ ~g_running /\ LeaveClient

Unread == Len(stream[conn]) - pos[conn]
Arriving(n) == SubSeq(stream[conn], pos[conn] + 1, pos[conn] + n)

ReadHeader ==
    /\ srv_pc = "header"
    /\ \E n \in 1 .. (HeaderLen - Len(hdr)) :
          /\ n <= Unread
          /\ hdr' = hdr \o Arriving(n)
          /\ pos' = [pos EXCEPT ![conn] = @ + n]
    /\ UNCHANGED <<srv_pc, mainVars, conn, open_conns, frame_buf, got, statVars, fileVars,
                   netVars>>

Ended(e) == e \in {"closed", "reset"}

\* The connection was closed or lost, and everything that arrived was read.
ReadFailure ==
    /\ \/ srv_pc = "header" /\ Len(hdr) < HeaderLen
       \/ srv_pc = "payload" /\ got < hdr[1].len
    /\ Unread = 0 /\ Ended(ending[conn])

ReadFailsContinues ==   \* faulty: on with the loop of handleClient()
    /\ ReadFailure
    /\ hdr' = <<>> /\ got' = 0
    /\ srv_pc' = "loop"
    /\ UNCHANGED <<mainVars, conn, open_conns, frame_buf, statVars, fileVars, netVars, pos>>

ReadFails == ReadFailure /\ LeaveClient

\* Magic and version are right.
ValidHeader(h) == \A i \in 1 .. HeaderLen : h[i] = [h[1] EXCEPT !.off = i - 1]
                                            /\ h[i].proto = "FRAM 1"

NeverTooLarge(n) == FALSE   \* faulty: no limit
TooLarge(n)      == n > MaxPayload

HeaderRejected ==
    /\ srv_pc = "header" /\ Len(hdr) = HeaderLen
    /\ ~ValidHeader(hdr) \/ TooLarge(hdr[1].len)
    /\ LeaveClient

\* The buffer only grows; what it holds stays.
Resized(buf, n) == [i \in 1 .. (IF n > Len(buf) THEN n ELSE Len(buf)) |->
                       IF i <= Len(buf) THEN buf[i] ELSE ZeroByte]

HeaderAccepted ==
    /\ srv_pc = "header" /\ Len(hdr) = HeaderLen
    /\ ValidHeader(hdr) /\ ~TooLarge(hdr[1].len)
    /\ frame_buf' = Resized(frame_buf, hdr[1].len)
    /\ got' = 0
    /\ srv_pc' = "payload"
    /\ UNCHANGED <<mainVars, conn, open_conns, hdr, statVars, fileVars, netVars, pos>>

ReadPayload ==
    /\ srv_pc = "payload"
    /\ \E n \in 1 .. (hdr[1].len - got) :
          /\ n <= Unread
          /\ frame_buf' = [i \in 1 .. Len(frame_buf) |->
                              IF got < i /\ i <= got + n THEN Arriving(n)[i - got] ELSE frame_buf[i]]
          /\ got' = got + n
          /\ pos' = [pos EXCEPT ![conn] = @ + n]
    /\ UNCHANGED <<srv_pc, mainVars, conn, open_conns, hdr, statVars, fileVars, netVars>>

EndOfTurnKeepsHeader == UNCHANGED hdr /\ srv_pc' = "loop"   \* faulty: it is not read again

\* The header is read into the same struct again in the next turn.
EndOfTurn == hdr' = <<>> /\ srv_pc' = "loop"

ReceivedEarly == srv_pc = "payload"   \* faulty: a short payload is enough
ReceivedAll   == srv_pc = "payload" /\ got = hdr[1].len

FrameReceived ==
    /\ ReceivedAll
    /\ frames_received' = frames_received + 1
    /\ bytes_received' = bytes_received + HeaderLen + hdr[1].len
    /\ IF save_frames THEN srv_pc' = "open" /\ UNCHANGED hdr ELSE EndOfTurn
    /\ UNCHANGED <<mainVars, conn, open_conns, frame_buf, got, frames_saved, fileVars,
                   netVars, pos>>

-----------------------------------------------------------------------------
(* saveFrame().                                                            *)

OpenKeeps(old) == old    \* faulty: no O_TRUNC, write() goes over the old content
Truncated(old) == <<>>

OpenFile ==
    /\ srv_pc = "open"
    /\ files' = [files EXCEPT ![hdr[1].seq] = Truncated(@)]
    /\ failed_saves' = failed_saves \ {hdr[1].seq}
    /\ got' = 0      \* from here on the bytes written
    /\ srv_pc' = "write"
    /\ UNCHANGED <<mainVars, conn, open_conns, hdr, frame_buf, statVars, netVars, pos>>

OpenFails ==
    /\ srv_pc = "open"
    /\ EndOfTurn
    /\ UNCHANGED <<mainVars, conn, open_conns, frame_buf, got, statVars, fileVars, netVars,
                   pos>>

\* data over the bytes of old that start at offset off.
Overwrite(old, off, data) ==
    [i \in 1 .. (IF off + Len(data) > Len(old) THEN off + Len(data) ELSE Len(old)) |->
        IF off < i /\ i <= off + Len(data) THEN data[i - off] ELSE old[i]]

WriteFile ==
    /\ srv_pc = "write"
    /\ \E n \in 1 .. (hdr[1].len - got) :
          /\ files' = [files EXCEPT ![hdr[1].seq] =
                          Overwrite(@, got, SubSeq(frame_buf, got + 1, got + n))]
          /\ got' = got + n
    /\ UNCHANGED <<srv_pc, mainVars, conn, open_conns, hdr, frame_buf, statVars, failed_saves,
                   netVars, pos>>

WriteDone ==
    /\ srv_pc = "write" /\ got = hdr[1].len
    /\ frames_saved' = frames_saved + 1
    /\ EndOfTurn
    /\ UNCHANGED <<mainVars, conn, open_conns, frame_buf, got, frames_received, bytes_received,
                   fileVars, netVars, pos>>

\* write() fails: what was written stays under the frame's name.
WriteFails ==
    /\ srv_pc = "write" /\ got < hdr[1].len
    /\ failed_saves' = failed_saves \cup {hdr[1].seq}
    /\ EndOfTurn
    /\ UNCHANGED <<mainVars, conn, open_conns, frame_buf, got, statVars, files, netVars, pos>>

-----------------------------------------------------------------------------
(* Clients.                                                                *)

Listening == server_fd /\ srv_pc # "bind"

\* The next connection arrives, with the bytes s to come on it and then end e.
ClientConnects(c, s, e) ==
    /\ Listening
    /\ ending[c] = "none" /\ \A d \in Conns : d < c => ending[d] # "none"
    /\ backlog' = Append(backlog, c)
    /\ stream' = [stream EXCEPT ![c] = s]
    /\ ending' = [ending EXCEPT ![c] = e]
    /\ UNCHANGED <<srv_pc, mainVars, conn, open_conns, readVars, statVars, fileVars, pos>>

\* SSL_accept() and SSL_shutdown() write to a connection that was reset: nobody
\* changes the action of SIGPIPE.
Sigpipe ==
    /\ srv_pc \in {"handshake", "cleanup"} /\ ending[conn] = "reset"
    /\ srv_pc' = "killed"
    /\ server_fd' = FALSE /\ ssl_ctx' = FALSE
    /\ conn' = NoConn /\ open_conns' = {}
    /\ backlog' = <<>>
    /\ UNCHANGED <<g_running, readVars, statVars, fileVars, stream, ending, pos>>

-----------------------------------------------------------------------------
\* Steps that end by themselves.
LocalStep ==
    \/ ParseArgs \/ CreateSslContext \/ CreateSocket \/ BindListen
    \/ LoopTop \/ LoopExit \/ SelectNothing \/ AcceptFails \/ Accept \/ Cleanup \/ Final
    \/ ClientLoop \/ ClientLoopExit \/ HeaderRejected \/ HeaderAccepted \/ FrameReceived
    \/ OpenFile \/ OpenFails \/ WriteFile \/ WriteDone \/ WriteFails

\* Calls without a timeout: they wait for the client.
ReadStep      == ReadHeader \/ ReadPayload \/ ReadFails
HandshakeStep == SslAccept \/ SslAcceptFails

\* A client sends any part of a stream, and then nothing more.
ClientStep ==
    \E c \in Conns, s \in Streams :
        \E n \in 0 .. Len(s) : ClientConnects(c, SubSeq(s, 1, n), "open")

\* A client closes its connection, or is lost, at any moment.
ClientEnds ==
    \E c \in Conns :
        /\ ending[c] = "open"
        /\ \E e \in {"closed", "reset"} : ending' = [ending EXCEPT ![c] = e]
        /\ UNCHANGED <<srv_pc, mainVars, conn, open_conns, readVars, statVars, fileVars,
                       backlog, stream, pos>>

Terminated == srv_pc \in {"stopped", "killed"} /\ UNCHANGED vars

Next ==
    \/ LocalStep \/ ReadStep \/ HandshakeStep
    \/ signalHandler \/ ClientStep \/ ClientEnds \/ Sigpipe \/ Terminated

Spec == Init /\ [][Next]_vars

-----------------------------------------------------------------------------
(* Fairness.  The thread keeps running, and a call returns that has its    *)
(* answer.  SSL_read and SSL_accept have no timeout, so that the server    *)
(* depends on its clients: FairSpec assumes that each of them hangs up     *)
(* some day, which no code sees to, and SilentSpec does not.               *)

Answered == conn # NoConn /\ (Ended(ending[conn]) \/ stream[conn] # <<>>)

SilentSpec ==
    /\ Spec
    /\ WF_vars(LocalStep) /\ WF_vars(ReadStep) /\ WF_vars(Answered /\ HandshakeStep)

FairSpec == SilentSpec /\ WF_vars(ClientEnds)

-----------------------------------------------------------------------------
(* Properties.                                                             *)

SrvPC == {"args", "context", "socket", "bind", "top", "select", "handshake", "loop", "header",
          "payload", "open", "write", "cleanup", "final", "stopped", "killed"}

\* Every variable of the server and of its connections has its type.
TypeOK ==
    /\ srv_pc \in SrvPC /\ g_running \in BOOLEAN
    /\ ssl_ctx \in BOOLEAN /\ server_fd \in BOOLEAN
    /\ conn \in Conns \cup {NoConn} /\ open_conns \subseteq Conns
    /\ hdr \in Seq(Byte) /\ frame_buf \in Seq(Byte) /\ got \in Nat
    /\ Len(hdr) <= HeaderLen /\ Len(frame_buf) <= MaxPayload
    /\ frames_received \in Nat /\ bytes_received \in Nat /\ frames_saved \in Nat
    /\ files \in [Seqs -> Seq(Byte)] /\ failed_saves \subseteq Seqs
    /\ backlog \in Seq(Conns)
    /\ stream \in [Conns -> Seq(Byte)] /\ pos \in [Conns -> Nat]
    /\ ending \in [Conns -> {"none", "open", "closed", "reset"}]

\* Over partial reads, connections cut short, a buffer that is used again for
\* frames of other lengths, files that are written again by another client and
\* writes that fail: a file holds bytes of the payload of one frame with the
\* file's number, from the first one on, and all of them unless the write
\* failed or is under way.
FilesWhole ==
    \A s \in Seqs :
        LET data == files[s] IN
        data # <<>> =>
            /\ \A i \in 1 .. Len(data) :
                  data[i] = [data[1] EXCEPT !.off = HeaderLen + i - 1]
            /\ data[1].seq = s /\ data[1].proto = "FRAM 1"
            /\ \/ Len(data) = data[1].len
               \/ s \in failed_saves
               \/ srv_pc = "write" /\ hdr[1].seq = s

\* Byte i of a stream s is the last one of a frame that the server takes, and that
\* arrived from its first byte on.
FrameEnd(s, i) ==
    /\ s[i].off = HeaderLen + s[i].len - 1 /\ s[i].proto = "FRAM 1" /\ s[i].len <= MaxPayload
    /\ s[i].off < i /\ s[i - s[i].off] = [s[i] EXCEPT !.off = 0]

BytesRead == UNION {{c} \X (1 .. pos[c]) : c \in Conns}

\* The frames that were read whole, by their last bytes, and the bytes of these frames.
FramesRead == {ci \in BytesRead : FrameEnd(stream[ci[1]], ci[2])}

FrameBytesRead ==
    {ci \in BytesRead :
        LET s == stream[ci[1]]
        IN  \E j \in ci[2] .. pos[ci[1]] : FrameEnd(s, j) /\ j - s[j].off <= ci[2]}

\* All of a frame was read and the counters have not been advanced yet.
Uncounted ==
    \/ srv_pc = "header" /\ Len(hdr) = HeaderLen /\ ValidHeader(hdr) /\ hdr[1].len = 0
    \/ srv_pc = "payload" /\ got = hdr[1].len

\* The statistics agree with what arrived: a frame and its bytes are counted when
\* its last byte was read, on whatever connection and however the connection
\* ended, and never twice; frames are saved at most as often as received.
FramesCounted ==
    /\ Cardinality(FramesRead) = frames_received + (IF Uncounted THEN 1 ELSE 0)
    /\ Cardinality(FrameBytesRead)
          = bytes_received + (IF Uncounted THEN HeaderLen + hdr[1].len ELSE 0)
    /\ frames_saved <= frames_received

\* One connection at a time, closed on every path before the next accept(), and
\* nothing is left when main() returns, after whichever failure.
ServerResources ==
    /\ open_conns = {conn} \ {NoConn}
    /\ srv_pc \in {"top", "select", "final"} => open_conns = {}
    /\ srv_pc = "stopped" => ~ssl_ctx /\ ~server_fd /\ open_conns = {}

\* After Ctrl+C the server ends, wherever it is and whatever is in its backlog: under
\* FairSpec, where each client hangs up some day, and not under SilentSpec, where the
\* one that it serves may stay connected and send nothing.
StopEndsServer == ~g_running ~> srv_pc \in {"stopped", "killed"}

\* A client that waits in the backlog is accepted, whatever the clients before it sent
\* and wherever they stopped, provided that each of them hangs up, unless the server
\* ends.
BacklogServed ==
    \A c \in Conns :
        (\E i \in 1 .. Len(backlog) : backlog[i] = c)
            ~> (conn = c \/ srv_pc \in {"stopped", "killed"})
=============================================================================
