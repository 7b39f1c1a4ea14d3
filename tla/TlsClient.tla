------------------------------ MODULE TlsClient ------------------------------
(***************************************************************************)
(* The network thread: src/tls_client.cpp, from initialize() through       *)
(* networkLoop() to the destructor, with the socket and TLS calls it makes *)
(* and everything those calls may answer.                                  *)
(*                                                                         *)
(* A byte on the wire is the frame it belongs to and its offset in header  *)
(* and payload, so the receiver's view of the stream can be stated.  A     *)
(* call that OpenSSL or the kernel asks to repeat (WANT_READ, WANT_WRITE,  *)
(* EINTR) changes nothing and is no step.                                  *)
(***************************************************************************)
EXTENDS Integers, Sequences, FiniteSets

CONSTANTS
    Fds,                   \* descriptors the kernel may hand out
    MaxAddrs,              \* bound: addresses getaddrinfo() returns
    HeaderLen, PayloadLen, \* bytes of a header and of a payload
    reconnect_base_ms, reconnect_max_ms, reconnect_multiplier,
    MaxFailures,           \* bound: failed attempts the history counts up to
    MaxFrames              \* bound: frames 0 .. MaxFrames - 1

ASSUME LengthAssumption  == HeaderLen \in Nat \ {0} /\ PayloadLen \in Nat \ {0}
ASSUME FdsAssumption     == Fds \subseteq Nat
ASSUME BackoffAssumption ==
    /\ reconnect_base_ms \in Nat /\ reconnect_max_ms \in Nat /\ reconnect_multiplier \in Nat
    /\ 0 < reconnect_base_ms /\ reconnect_base_ms <= reconnect_max_ms
    /\ reconnect_multiplier >= 1
ASSUME BoundsAssumption  == MaxAddrs \in Nat /\ MaxFailures \in Nat /\ MaxFrames \in Nat

\* The base delay multiplied n times.
ExactDelay[n \in Nat] ==
    IF n = 0 THEN reconnect_base_ms ELSE ExactDelay[n - 1] * reconnect_multiplier

ASSUME DelayAssumption   == ExactDelay[MaxFailures] >= reconnect_max_ms

VARIABLES
    \* TlsClient
    ssl_ctx_, ssl_,        \* non-null or not
    sockfd_, state_,
    reconnect_delay_ms_,
    frames_sent_, bytes_sent_,
    \* networkLoop() and the functions it calls
    net_pc, sockfd, addrs, \* place, local descriptor, addresses not tried yet
    pkt, remaining,        \* frame being sent, bytes sslWriteAll() has left
    running,               \* the caller's flag
    \* Kernel, OpenSSL and the far side
    open_fds, ssl_live,    \* open descriptors, SSL objects not freed
    peer,                  \* "none", "open", "gone": no longer answering, or
                           \* "reset": gone, and written to since
    wire,                  \* what was written on the current connection
    \* History variables
    failures,              \* failed attempts since the last connection
    last_frame,            \* frame popped last
    late_pops              \* frames popped after running was cleared

connVars  == <<ssl_, sockfd_, state_>>
statVars  == <<frames_sent_, bytes_sent_>>
localVars == <<sockfd, addrs>>
frameVars == <<pkt, remaining>>
sysVars   == <<open_fds, ssl_live, peer, wire>>
histVars  == <<failures, last_frame, late_pops>>
vars == <<ssl_ctx_, connVars, reconnect_delay_ms_, statVars, net_pc, localVars, frameVars,
          running, sysVars, histVars>>

NoFd     == -1
NoFrame  == -1
Frame    == 0 .. (MaxFrames - 1)
FrameLen == HeaderLen + PayloadLen

\* The bytes off .. off + n - 1 of frame f.
Bytes(f, off, n) == [i \in 1 .. n |-> [seq |-> f, off |-> off + i - 1]]

Init ==
    /\ ssl_ctx_ = FALSE /\ ssl_ = FALSE
    /\ sockfd_ = NoFd /\ state_ = "Disconnected"
    /\ reconnect_delay_ms_ = reconnect_base_ms
    /\ frames_sent_ = 0 /\ bytes_sent_ = 0
    /\ net_pc = "new" /\ sockfd = NoFd /\ addrs = 0
    /\ pkt = NoFrame /\ remaining = 0
    /\ running = TRUE
    /\ open_fds = {} /\ ssl_live = 0 /\ peer = "none" /\ wire = <<>>
    /\ failures = 0 /\ last_frame = NoFrame /\ late_pops = 0

-----------------------------------------------------------------------------
(* initialize(), and the start of the thread.                              *)

\* createSslContext() leaves no context behind when the CA bundle is not read.
InitializeFails ==
    /\ net_pc = "new"
    /\ net_pc' = "failed"
    /\ UNCHANGED <<ssl_ctx_, connVars, reconnect_delay_ms_, statVars, localVars, frameVars,
                   running, sysVars, histVars>>

Initialize ==
    /\ net_pc = "new"
    /\ ssl_ctx_' = TRUE
    /\ net_pc' = "ready"
    /\ UNCHANGED <<connVars, reconnect_delay_ms_, statVars, localVars, frameVars,
                   running, sysVars, histVars>>

StartLoop ==
    /\ net_pc = "ready"
    /\ net_pc' = "check"
    /\ UNCHANGED <<ssl_ctx_, connVars, reconnect_delay_ms_, statVars, localVars, frameVars,
                   running, sysVars, histVars>>

\* The flag is cleared by a signal handler or by main(), at any time.
Stop ==
    /\ running
    /\ running' = FALSE
    /\ UNCHANGED <<ssl_ctx_, connVars, reconnect_delay_ms_, statVars, net_pc, localVars,
                   frameVars, sysVars, histVars>>

-----------------------------------------------------------------------------
(* createTcpConnection() and tlsConnect().                                 *)

\* The top of the loop, when there is a connection and when there is none.
LoopConnected ==
    /\ net_pc = "check" /\ running
    /\ state_ = "Connected"
    /\ net_pc' = "pop"
    /\ UNCHANGED <<ssl_ctx_, connVars, reconnect_delay_ms_, statVars, localVars, frameVars,
                   running, sysVars, histVars>>

LoopConnect ==
    /\ net_pc = "check" /\ running
    /\ state_ # "Connected"
    /\ state_' = "Connecting"
    /\ net_pc' = "resolve"
    /\ UNCHANGED <<ssl_ctx_, ssl_, sockfd_, reconnect_delay_ms_, statVars, localVars,
                   frameVars, running, sysVars, histVars>>

\* getaddrinfo(): some addresses, or an error, which is a failed attempt.
Resolve ==
    /\ net_pc = "resolve"
    /\ \E n \in 1 .. MaxAddrs : addrs' = n
    /\ net_pc' = "socket"
    /\ UNCHANGED <<ssl_ctx_, connVars, reconnect_delay_ms_, statVars, sockfd, frameVars,
                   running, sysVars, histVars>>

ResolveFails ==
    /\ net_pc = "resolve"
    /\ sockfd_' = NoFd
    /\ net_pc' = "backoff"
    /\ UNCHANGED <<ssl_ctx_, ssl_, state_, reconnect_delay_ms_, statVars, localVars,
                   frameVars, running, sysVars, histVars>>

\* One turn of the loop over the addresses: socket() and, for the descriptor
\* it returns, connect().
OpenSocket ==
    /\ net_pc = "socket" /\ addrs > 0
    /\ \E fd \in Fds \ open_fds : sockfd' = fd /\ open_fds' = open_fds \cup {fd}
    /\ net_pc' = "connect"
    /\ UNCHANGED <<ssl_ctx_, connVars, reconnect_delay_ms_, statVars, addrs, frameVars,
                   running, ssl_live, peer, wire, histVars>>

OpenSocketFails ==
    /\ net_pc = "socket" /\ addrs > 0
    /\ sockfd' = NoFd
    /\ addrs' = addrs - 1
    /\ UNCHANGED <<ssl_ctx_, connVars, reconnect_delay_ms_, statVars, net_pc, frameVars,
                   running, sysVars, histVars>>

ConnectLeaks ==   \* faulty: the descriptor is not closed before the next address
    /\ net_pc = "connect"
    /\ sockfd' = NoFd
    /\ addrs' = addrs - 1
    /\ net_pc' = "socket"
    /\ UNCHANGED <<ssl_ctx_, connVars, reconnect_delay_ms_, statVars, frameVars,
                   running, sysVars, histVars>>

\* connect() is refused, poll() times out or is interrupted, or SO_ERROR is set.
ConnectFails ==
    /\ net_pc = "connect"
    /\ open_fds' = open_fds \ {sockfd}
    /\ sockfd' = NoFd
    /\ addrs' = addrs - 1
    /\ net_pc' = "socket"
    /\ UNCHANGED <<ssl_ctx_, connVars, reconnect_delay_ms_, statVars, frameVars,
                   running, ssl_live, peer, wire, histVars>>

\* No address is left: createTcpConnection() returns -1.
AddressesExhausted ==
    /\ net_pc = "socket" /\ addrs = 0
    /\ sockfd_' = NoFd
    /\ net_pc' = "backoff"
    /\ UNCHANGED <<ssl_ctx_, ssl_, state_, reconnect_delay_ms_, statVars, localVars,
                   frameVars, running, sysVars, histVars>>

\* A new connection, with nothing written on it.
Connect ==
    /\ net_pc = "connect"
    /\ sockfd_' = sockfd
    /\ sockfd' = NoFd
    /\ addrs' = 0
    /\ peer' = "open"
    /\ wire' = <<>>
    /\ net_pc' = "ssl_new"
    /\ UNCHANGED <<ssl_ctx_, ssl_, state_, reconnect_delay_ms_, statVars, frameVars,
                   running, open_fds, ssl_live, histVars>>

SslNew ==
    /\ net_pc = "ssl_new"
    /\ ssl_' = TRUE
    /\ ssl_live' = ssl_live + 1
    /\ net_pc' = "setup"
    /\ UNCHANGED <<ssl_ctx_, sockfd_, state_, reconnect_delay_ms_, statVars, localVars,
                   frameVars, running, open_fds, peer, wire, histVars>>

\* The hostname is set for verification and the socket attached.
SslSetup ==
    /\ net_pc = "setup"
    /\ net_pc' = "handshake"
    /\ UNCHANGED <<ssl_ctx_, connVars, reconnect_delay_ms_, statVars, localVars, frameVars,
                   running, sysVars, histVars>>

\* The error exits of tlsConnect() after the socket was connected: SSL_new()
\* fails, the setup of the SSL object fails, or SSL_connect() does.
TlsConnectFails ==
    /\ net_pc \in {"ssl_new", "setup", "handshake"}
    /\ ssl_live' = IF ssl_ THEN ssl_live - 1 ELSE ssl_live
    /\ ssl_' = FALSE
    /\ open_fds' = open_fds \ {sockfd_}
    /\ sockfd_' = NoFd
    /\ peer' = "none"
    /\ net_pc' = "backoff"
    /\ UNCHANGED <<ssl_ctx_, state_, reconnect_delay_ms_, statVars, localVars, frameVars,
                   running, wire, histVars>>

DelayNotReset == UNCHANGED reconnect_delay_ms_   \* faulty: the delay only grows
ResetDelay    == reconnect_delay_ms_' = reconnect_base_ms

SslConnectForgets ==   \* faulty: state_ is not set to Connected
    /\ net_pc = "handshake"
    /\ peer = "open"
    /\ ResetDelay
    /\ failures' = 0
    /\ net_pc' = "pop"
    /\ UNCHANGED <<ssl_ctx_, connVars, statVars, localVars, frameVars,
                   running, sysVars, last_frame, late_pops>>

\* SSL_connect() succeeds.
SslConnect ==
    /\ net_pc = "handshake"
    /\ peer = "open"
    /\ state_' = "Connected"
    /\ ResetDelay
    /\ failures' = 0
    /\ net_pc' = "pop"
    /\ UNCHANGED <<ssl_ctx_, ssl_, sockfd_, statVars, localVars, frameVars,
                   running, sysVars, last_frame, late_pops>>

\* The delay after ms; with the default values no product leaves 32 bits.
NextDelay(ms) ==
    LET product == ms * reconnect_multiplier
    IN  IF product > reconnect_max_ms THEN reconnect_max_ms ELSE product

\* sleepMs(), then the next delay, and back to the loop's condition.
BackoffInPlace ==   \* faulty: the attempt is repeated without a look at running
    /\ net_pc = "backoff"
    /\ reconnect_delay_ms_' = NextDelay(reconnect_delay_ms_)
    /\ failures' = IF failures < MaxFailures THEN failures + 1 ELSE failures
    /\ net_pc' = "resolve"
    /\ UNCHANGED <<ssl_ctx_, connVars, statVars, localVars, frameVars,
                   running, sysVars, last_frame, late_pops>>

Backoff ==
    /\ net_pc = "backoff"
    /\ reconnect_delay_ms_' = NextDelay(reconnect_delay_ms_)
    /\ failures' = IF failures < MaxFailures THEN failures + 1 ELSE failures
    /\ net_pc' = "check"
    /\ UNCHANGED <<ssl_ctx_, connVars, statVars, localVars, frameVars,
                   running, sysVars, last_frame, late_pops>>

-----------------------------------------------------------------------------
(* Sending frames.                                                         *)

\* pop() timed out, or returned nothing after shutdown.
PopNothing ==
    /\ net_pc = "pop"
    /\ net_pc' = "check"
    /\ UNCHANGED <<ssl_ctx_, connVars, reconnect_delay_ms_, statVars, localVars, frameVars,
                   running, sysVars, histVars>>

\* pop() returned frame f, and its header was built.
PopFrame(f) ==
    /\ net_pc = "pop"
    /\ pkt' = f
    /\ last_frame' = f
    /\ late_pops' = IF running THEN late_pops ELSE late_pops + 1
    /\ remaining' = HeaderLen
    /\ net_pc' = "header"
    /\ UNCHANGED <<ssl_ctx_, connVars, reconnect_delay_ms_, statVars, localVars,
                   running, sysVars, failures>>

\* How much of the frame was written before this call of SSL_write().
Written == IF net_pc = "header" THEN HeaderLen - remaining ELSE FrameLen - remaining

\* The kernel takes what is first written after the server closed; the server's
\* kernel answers it with a reset.
Answer == IF peer = "gone" THEN "reset" ELSE peer

\* SSL_write() took n bytes, and sslWriteAll() has some left.
WriteSome ==
    /\ net_pc \in {"header", "payload"}
    /\ \E n \in 1 .. (remaining - 1) :
          /\ wire' = wire \o Bytes(pkt, Written, n)
          /\ remaining' = remaining - n
    /\ peer' = Answer
    /\ UNCHANGED <<ssl_ctx_, connVars, reconnect_delay_ms_, statVars, net_pc, localVars, pkt,
                   running, open_fds, ssl_live, histVars>>

\* SSL_write() took the rest: the header is followed by the payload.
WriteRest ==
    /\ net_pc \in {"header", "payload"}
    /\ wire' = wire \o Bytes(pkt, Written, remaining)
    /\ remaining' = IF net_pc = "header" THEN PayloadLen ELSE 0
    /\ net_pc' = IF net_pc = "header" THEN "payload" ELSE "sent"
    /\ peer' = Answer
    /\ UNCHANGED <<ssl_ctx_, connVars, reconnect_delay_ms_, statVars, localVars, pkt,
                   running, open_fds, ssl_live, histVars>>

FrameSentPopsAgain ==   \* faulty: the next frame is popped without a look at running
    /\ net_pc = "sent"
    /\ frames_sent_' = frames_sent_ + 1
    /\ bytes_sent_' = bytes_sent_ + FrameLen
    /\ pkt' = NoFrame
    /\ net_pc' = "pop"
    /\ UNCHANGED <<ssl_ctx_, connVars, reconnect_delay_ms_, localVars, remaining,
                   running, sysVars, histVars>>

FrameSent ==
    /\ net_pc = "sent"
    /\ frames_sent_' = frames_sent_ + 1
    /\ bytes_sent_' = bytes_sent_ + FrameLen
    /\ pkt' = NoFrame
    /\ net_pc' = "check"
    /\ UNCHANGED <<ssl_ctx_, connVars, reconnect_delay_ms_, localVars, remaining,
                   running, sysVars, histVars>>

StateNotReset ==   \* faulty: the state still says Connected
    /\ ssl_live' = IF ssl_ THEN ssl_live - 1 ELSE ssl_live
    /\ ssl_' = FALSE
    /\ open_fds' = open_fds \ {sockfd_}
    /\ sockfd_' = NoFd
    /\ UNCHANGED state_
    /\ peer' = "none"

tlsDisconnect ==
    /\ ssl_live' = IF ssl_ THEN ssl_live - 1 ELSE ssl_live
    /\ ssl_' = FALSE
    /\ open_fds' = open_fds \ {sockfd_}
    /\ sockfd_' = NoFd
    /\ state_' = "Disconnected"
    /\ peer' = "none"

WriteFailsKeepsConnection ==   \* faulty: the next frame goes out on the same connection
    /\ net_pc \in {"header", "payload"}
    /\ peer \in {"gone", "reset"}
    /\ \E n \in 0 .. (remaining - 1) : wire' = wire \o Bytes(pkt, Written, n)
    /\ pkt' = NoFrame /\ remaining' = 0
    /\ net_pc' = "check"
    /\ UNCHANGED <<ssl_ctx_, connVars, reconnect_delay_ms_, statVars, localVars,
                   running, open_fds, ssl_live, peer, histVars>>

\* SSL_write() fails for good, maybe after part of its bytes went out: the
\* packet is freed, the connection closed, the frame lost.
WriteFails ==
    /\ net_pc \in {"header", "payload"}
    /\ peer \in {"gone", "reset"}
    /\ \E n \in 0 .. (remaining - 1) : wire' = wire \o Bytes(pkt, Written, n)
    /\ pkt' = NoFrame /\ remaining' = 0
    /\ tlsDisconnect
    /\ net_pc' = "check"
    /\ UNCHANGED <<ssl_ctx_, reconnect_delay_ms_, statVars, localVars, running, histVars>>

\* The end of networkLoop().
LoopExit ==
    /\ net_pc = "check" /\ ~running
    /\ tlsDisconnect
    /\ net_pc' = "exited"
    /\ UNCHANGED <<ssl_ctx_, reconnect_delay_ms_, statVars, localVars, frameVars, running,
                   wire, histVars>>

\* ~TlsClient().  It does not wait for the thread.
Destroy ==
    /\ tlsDisconnect
    /\ ssl_ctx_' = FALSE
    /\ net_pc' = IF net_pc = "exited" THEN "destroyed" ELSE net_pc
    /\ UNCHANGED <<reconnect_delay_ms_, statVars, localVars, frameVars, running, wire, histVars>>

\* Its caller, main(), has joined the thread before.
DestroyJoined == net_pc = "exited" /\ Destroy

-----------------------------------------------------------------------------
(* The far side.                                                           *)

\* The server closes the connection, or stops answering for good.
PeerGone ==
    /\ peer = "open"
    /\ peer' = "gone"
    /\ UNCHANGED <<ssl_ctx_, connVars, reconnect_delay_ms_, statVars, net_pc, localVars,
                   frameVars, running, open_fds, ssl_live, wire, histVars>>

\* The next write after the reset raises SIGPIPE, whose action nobody changes:
\* it ends the process.
Sigpipe ==
    /\ \/ net_pc \in {"header", "payload"}  \* SSL_write()
       \/ net_pc = "check" /\ ~running       \* SSL_shutdown() writes, too
    /\ peer = "reset"
    /\ net_pc' = "killed"
    /\ UNCHANGED <<ssl_ctx_, connVars, reconnect_delay_ms_, statVars, localVars, frameVars,
                   running, sysVars, histVars>>

-----------------------------------------------------------------------------
\* Steps that end by themselves, if need be by a timeout.
LocalStep ==
    \/ InitializeFails \/ Initialize \/ StartLoop
    \/ LoopConnected \/ LoopConnect \/ Resolve \/ ResolveFails
    \/ OpenSocket \/ OpenSocketFails \/ AddressesExhausted
    \/ Connect \/ ConnectFails \/ SslNew \/ SslSetup
    \/ Backoff \/ PopNothing \/ FrameSent \/ LoopExit \/ DestroyJoined

\* Calls without a timeout: they end when the far side does its part.
HandshakeStep == SslConnect \/ TlsConnectFails
WriteStep     == WriteSome \/ WriteRest \/ WriteFails

\* The queue hands out frames in capture order.
QueueStep == \E f \in Frame : f > last_frame /\ PopFrame(f)

Terminated == net_pc \in {"failed", "destroyed", "killed"} /\ UNCHANGED vars

Next ==
    \/ LocalStep \/ HandshakeStep \/ WriteStep \/ QueueStep
    \/ Stop \/ PeerGone \/ Sigpipe \/ Terminated

Spec == Init /\ [][Next]_vars

-----------------------------------------------------------------------------
(* Fairness.  The thread keeps running, and every call in LocalStep comes  *)
(* back: poll() and pop() have a timeout, sleepMs() a duration.  SSL_read, *)
(* SSL_write and SSL_connect have none, so that FairSpec assumes a server  *)
(* that answers or hangs up, and StalledSpec does not.                     *)

StalledSpec == Spec /\ WF_vars(LocalStep)

FairSpec == StalledSpec /\ WF_vars(HandshakeStep) /\ WF_vars(WriteStep)

\* The server can be reached again and again, and its name resolves.
Reachable ==
    /\ SF_vars(Resolve) /\ SF_vars(OpenSocket) /\ SF_vars(Connect)
    /\ SF_vars(SslNew) /\ SF_vars(SslSetup) /\ SF_vars(SslConnect)

-----------------------------------------------------------------------------
(* Properties.                                                             *)

NetPC == {"new", "failed", "ready", "check", "resolve", "socket", "connect", "ssl_new",
          "setup", "handshake", "backoff", "pop", "header", "payload", "sent",
          "exited", "destroyed", "killed"}

\* Every variable of the client, its thread and its connection has its type.
TypeOK ==
    /\ ssl_ctx_ \in BOOLEAN /\ ssl_ \in BOOLEAN /\ running \in BOOLEAN
    /\ sockfd_ \in Fds \cup {NoFd} /\ sockfd \in Fds \cup {NoFd}
    /\ state_ \in {"Disconnected", "Connecting", "Connected"}
    /\ reconnect_delay_ms_ \in reconnect_base_ms .. reconnect_max_ms
    /\ frames_sent_ \in Nat /\ bytes_sent_ \in Nat
    /\ net_pc \in NetPC
    /\ addrs \in 0 .. MaxAddrs
    /\ pkt \in Frame \cup {NoFrame} /\ last_frame \in Frame \cup {NoFrame}
    /\ remaining \in 0 .. FrameLen
    /\ open_fds \subseteq Fds
    /\ ssl_live \in Nat
    /\ peer \in {"none", "open", "gone", "reset"}
    /\ wire \in Seq([seq : Frame, off : 0 .. (FrameLen - 1)])
    /\ failures \in 0 .. MaxFailures /\ late_pops \in Nat

\* Nothing leaks over any number of failed attempts, lost connections and
\* restarts of the loop: every open descriptor is the one the client or
\* createTcpConnection() knows, no closed one is kept, there is an SSL object
\* exactly when ssl_ points to it, and the destructor leaves nothing.
ResourcesOwned ==
    /\ open_fds = {sockfd_, sockfd} \ {NoFd}
    /\ ssl_live = (IF ssl_ THEN 1 ELSE 0)
    /\ net_pc = "destroyed" => open_fds = {} /\ ssl_live = 0 /\ ~ssl_ctx_

\* A frame is popped, and given to SSL_write(), only on a connection whose
\* handshake is complete, and the state says Connected only for such a one.
ConnectedUsable ==
    /\ net_pc \in {"pop", "header", "payload", "sent"} => state_ = "Connected"
    /\ state_ = "Connected" => ssl_ /\ sockfd_ \in open_fds /\ peer # "none"

\* Whatever was cut short on an earlier connection, each connection carries
\* whole frames one after the other, header before payload, in capture order,
\* and at most the last one incomplete: a receiver that reads a header and then
\* as many bytes as it announces never loses its place.
WellFramed ==
    \A i \in 1 .. Len(wire) :
        /\ wire[i].off = (i - 1) % FrameLen
        /\ i > 1 => IF wire[i].off = 0 THEN wire[i].seq > wire[i - 1].seq
                                      ELSE wire[i].seq = wire[i - 1].seq

\* The wait before an attempt is the base delay multiplied once for each failed
\* attempt since the last connection, up to the maximum.
BackoffSchedule ==
    LET exact == ExactDelay[failures]
    IN  reconnect_delay_ms_ = IF exact > reconnect_max_ms THEN reconnect_max_ms ELSE exact

\* The flag is read once per turn of the loop: when it is cleared while the
\* thread is on its way to pop(), one more frame is sent, and never a second.
OneFrameAfterStop == late_pops <= 1

\* networkLoop() returns after the running flag is cleared, wherever it is,
\* so that main() can join the thread.
StopEndsLoop == ~running /\ net_pc # "new" ~> net_pc \in {"failed", "destroyed", "killed"}

\* Once the server stays up, and as long as it can be reached again and again, a
\* client without a connection gets one.
ReconnectsEventually ==
    Reachable /\ <>[](peer \in {"none", "open"}) =>
        (net_pc = "check" /\ state_ # "Connected"
            ~> state_ = "Connected" \/ ~running \/ net_pc = "killed")

\* The automatic reconnection of README.md: a connection that the server closes
\* is replaced by the next attempt, and the client goes on.
SurvivesLostConnection == net_pc # "killed"
=============================================================================
