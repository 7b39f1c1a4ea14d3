-------------------------------- MODULE Link --------------------------------
(***************************************************************************)
(* The network thread of the client (TlsClient.tla, which this module      *)
(* extends) and the server (FrameServer.tla) over TCP connections that     *)
(* break: what one side writes the other reads, what one side closes the   *)
(* other notices, or does not.                                             *)
(*                                                                         *)
(* A connection breaks for both sides at once, with a reset, or silently:  *)
(* nothing more arrives, and neither side is told.  In both cases the end  *)
(* of what was written may be lost.                                        *)
(***************************************************************************)
EXTENDS TlsClient

CONSTANTS MaxConns, MaxPayload, save_frames   \* of the server

\* What the queue takes (4 MB) is below the server's limit (16 MB).
ASSUME PayloadAssumption == MaxPayload \in Nat /\ PayloadLen <= MaxPayload
ASSUME ServerAssumption  == MaxConns \in Nat /\ save_frames \in BOOLEAN

VARIABLES
    srv_pc, g_running, ssl_ctx, server_fd, conn, open_conns, hdr, frame_buf, got,
    frames_received, bytes_received, frames_saved, files, failed_saves,
    backlog, stream, pos, ending,
    cur,        \* the connection of the client, or NoConn
    greeted,    \* connections on which SSL_connect() succeeded
    cut,        \* connections that broke silently
    received    \* history: numbers of the frames the server counted

Srv == INSTANCE FrameServer WITH Seqs <- Frame, Streams <- {}

clientOnly == <<ssl_ctx_, ssl_, sockfd_, state_, reconnect_delay_ms_, frames_sent_, bytes_sent_,
                net_pc, sockfd, addrs, pkt, remaining, running,
                open_fds, ssl_live, wire, failures, last_frame, late_pops>>
serverOnly == <<srv_pc, g_running, ssl_ctx, server_fd, conn, open_conns, hdr, frame_buf, got,
                frames_received, bytes_received, frames_saved, files, failed_saves,
                backlog, pos>>
linkVars   == <<cur, greeted, cut>>
allVars    == <<clientOnly, peer, serverOnly, stream, ending, linkVars, received>>

NoConn == 0

LinkInit ==
    /\ Init /\ Srv!Init
    /\ cur = NoConn /\ greeted = {} /\ cut = {} /\ received = <<>>

-----------------------------------------------------------------------------
(* The client.                                                             *)

\* Steps that neither open, close nor use a connection.
ClientLocal ==
    /\ \/ InitializeFails \/ Initialize \/ StartLoop
       \/ LoopConnected \/ LoopConnect \/ Resolve \/ ResolveFails
       \/ OpenSocket \/ OpenSocketFails \/ AddressesExhausted
       \/ ConnectFails \/ SslNew \/ SslSetup \/ Backoff
       \/ PopNothing \/ FrameSent \/ DestroyJoined \/ QueueStep
    /\ UNCHANGED <<serverOnly, stream, ending, linkVars, received>>

\* connect() succeeds as soon as the kernel has the connection in the backlog.
ClientConnect ==
    /\ Connect
    /\ \E c \in Srv!Conns : Srv!ClientConnects(c, <<>>, "open") /\ cur' = c
    /\ UNCHANGED <<greeted, cut, received>>

\* SSL_connect() needs the server in SSL_accept() or beyond.
ClientHandshake ==
    /\ SslConnect
    /\ conn = cur
    /\ greeted' = greeted \cup {cur}
    /\ UNCHANGED <<serverOnly, stream, ending, cur, cut, received>>

\* Bytes of the client as the server sees them.
Seen(b) == [src |-> 1, proto |-> "FRAM 1", seq |-> b.seq, off |-> b.off, len |-> PayloadLen]

ClientWrite ==
    /\ WriteSome \/ WriteRest
    /\ stream' = IF peer # "open" THEN stream
                 ELSE [stream EXCEPT ![cur] =
                          @ \o [i \in 1 .. (Len(wire') - Len(wire)) |-> Seen(wire'[Len(wire) + i])]]
    /\ UNCHANGED <<serverOnly, ending, linkVars, received>>

\* The client closes its descriptor; the server is told unless the connection
\* is cut.  Unread session tickets turn the end into a reset.
HangUp ==
    /\ cur' = NoConn
    /\ IF cur = NoConn \/ cur \in cut \/ ending[cur] # "open" THEN UNCHANGED ending
       ELSE \E e \in {"closed", "reset"} : ending' = [ending EXCEPT ![cur] = e]
    /\ UNCHANGED <<serverOnly, stream, greeted, cut, received>>

ClientWriteFails     == WriteFails /\ HangUp
ClientHandshakeFails == TlsConnectFails /\ HangUp
ClientExit           == LoopExit /\ HangUp

\* Only a connection that the server closed ends with SIGPIPE: one that broke
\* gives the client an error, or nothing.
ClientKilled ==
    /\ Sigpipe /\ HangUp
    /\ cur \notin cut /\ ending[cur] = "open"

ClientStop == Stop /\ UNCHANGED <<serverOnly, stream, ending, linkVars, received>>

-----------------------------------------------------------------------------
(* The network.                                                            *)

\* The connection breaks, and the end of what was written is lost.
Break ==
    /\ cur # NoConn /\ PeerGone
    /\ \E n \in pos[cur] .. Len(stream[cur]) :
          stream' = [stream EXCEPT ![cur] = SubSeq(@, 1, n)]
    /\ \/ ending' = [ending EXCEPT ![cur] = "reset"] /\ UNCHANGED cut
       \/ cut' = cut \cup {cur} /\ UNCHANGED ending
    /\ UNCHANGED <<serverOnly, cur, greeted, received>>

-----------------------------------------------------------------------------
(* The server.                                                             *)

\* A connection that is neither served nor in the backlog any more was closed.
Closed(c) == c \notin open_conns /\ \A i \in 1 .. Len(backlog) : backlog[i] # c

ServerSide ==
    /\ UNCHANGED <<clientOnly, linkVars>>
    /\ peer' = IF peer = "open" /\ Closed(cur)' THEN "gone" ELSE peer

ServerLocal ==
    /\ Srv!LocalStep
    /\ received' = IF frames_received' > frames_received THEN Append(received, hdr[1].seq)
                                                         ELSE received
    /\ ServerSide

ServerRead == Srv!ReadStep /\ ServerSide /\ UNCHANGED received

\* SSL_accept() needs a client that is in SSL_connect() or has come back from it.
ServerHandshake ==
    /\ Srv!SslAccept
    /\ conn \in greeted \/ (conn = cur /\ net_pc = "handshake")
    /\ ServerSide /\ UNCHANGED received

ServerHandshakeFails == Srv!SslAcceptFails /\ ServerSide /\ UNCHANGED received
ServerStop           == Srv!signalHandler /\ ServerSide /\ UNCHANGED received
ServerKilled         == Srv!Sigpipe /\ ServerSide /\ UNCHANGED received

-----------------------------------------------------------------------------
Client ==
    \/ ClientLocal \/ ClientConnect \/ ClientHandshake \/ ClientHandshakeFails
    \/ ClientWrite \/ ClientWriteFails \/ ClientExit

Server == ServerLocal \/ ServerRead \/ ServerHandshake \/ ServerHandshakeFails

ClientDown == net_pc \in {"failed", "destroyed", "killed"}
ServerDown == srv_pc \in {"stopped", "killed"}

BothDown == ClientDown /\ ServerDown /\ UNCHANGED allVars

LinkNext ==
    \/ Client \/ Server \/ Break
    \/ ClientStop \/ ClientKilled \/ ServerStop \/ ServerKilled \/ BothDown

LinkSpec == LinkInit /\ [][LinkNext]_allVars

-----------------------------------------------------------------------------
(* Fairness.  Both programs keep running, and a call that has its answer   *)
(* returns.  Neither side has a timeout for a handshake: one is given up   *)
(* when the other side has closed or reset the connection, and not while   *)
(* it stands or when it broke silently.                                    *)

HandshakeLost == peer = "gone" /\ cur \notin cut /\ ClientHandshakeFails
ClientLost    == conn # cur /\ conn \notin cut /\ ServerHandshakeFails

LinkFairSpec ==
    /\ LinkSpec
    /\ WF_allVars(ClientLocal) /\ WF_allVars(ClientConnect) /\ WF_allVars(ClientExit)
    /\ WF_allVars(ClientHandshake) /\ WF_allVars(HandshakeLost)
    /\ WF_allVars(ClientWrite \/ ClientWriteFails)
    /\ WF_allVars(ServerLocal) /\ WF_allVars(ServerRead) /\ WF_allVars(ServerHandshake)
    /\ WF_allVars(ClientLost)

-----------------------------------------------------------------------------
(* Properties.                                                             *)

\* Wherever connections break and frames are given up, the server never takes
\* part of a payload for a header: it rejects nothing this client sends.
NoProtocolError ==
    srv_pc = "header" /\ Len(hdr) = HeaderLen =>
        Srv!ValidHeader(hdr) /\ hdr[1].len <= MaxPayload

\* What the server counts and saves was sent whole: the client has counted each
\* such frame, too, or is about to.
ReceivedWasSent ==
    /\ frames_received <= frames_sent_ + (IF net_pc = "sent" THEN 1 ELSE 0)
    /\ frames_saved <= frames_received

\* Over all connections, the server gets every frame at most once, in the order
\* of capture.
ReceivedInOrder == \A i \in 1 .. (Len(received) - 1) : received[i] < received[i + 1]

\* If no connection breaks silently, a client in its handshake is answered by the
\* server, which serves one connection after the other, or told that it is gone:
\* networkLoop() does not hang there.
HandshakeAnswered ==
    [](cut = {}) => (net_pc = "handshake" ~> net_pc # "handshake")

\* "Automatic reconnection": while nobody stops either program, a client that
\* had a connection, lost it and opened another is answered on that one, unless
\* it breaks as well.
LostConnectionReplaced ==
    net_pc = "handshake" /\ greeted # {} /\ running /\ g_running
        ~> net_pc # "handshake" \/ ~running \/ ~g_running \/ cur \in cut
=============================================================================
