-------------------------- MODULE TlsClientProofs --------------------------
(***************************************************************************)
(* Proofs about TlsClient: types, resources and the state of the           *)
(* connection over any number of attempts, addresses and frames.           *)
(***************************************************************************)
EXTENDS TlsClient, WellFoundedInduction, TLAPS

NoConnection == ~ssl_ /\ sockfd_ = NoFd /\ state_ # "Connected" /\ peer = "none"
Established  == ssl_ /\ sockfd_ # NoFd /\ peer # "none"

\* The pointer, the descriptor and the state of the connection at every place of
\* networkLoop() and of the functions it calls.
ConnInv ==
    /\ sockfd # NoFd <=> net_pc = "connect"
    /\ net_pc \in {"new", "failed", "ready", "resolve", "socket", "connect", "backoff",
                   "exited", "destroyed"} => NoConnection
    /\ net_pc = "ssl_new" => ~ssl_ /\ sockfd_ # NoFd /\ state_ # "Connected" /\ peer # "none"
    /\ net_pc \in {"setup", "handshake"} => Established /\ state_ # "Connected"
    /\ net_pc \in {"pop", "header", "payload", "sent"} => Established /\ state_ = "Connected"
    /\ net_pc \in {"check", "killed"} /\ state_ = "Connected" => Established
    /\ net_pc = "check" /\ state_ # "Connected" => NoConnection
    /\ net_pc \in {"new", "failed", "destroyed"} => ~ssl_ctx_

Resources ==
    /\ open_fds = {sockfd_, sockfd} \ {NoFd}
    /\ ssl_live = (IF ssl_ THEN 1 ELSE 0)

\* What sslWriteAll() has left.
FrameInv ==
    /\ net_pc = "header"  => pkt \in Frame /\ remaining \in 1 .. HeaderLen
    /\ net_pc = "payload" => pkt \in Frame /\ remaining \in 1 .. PayloadLen
    /\ net_pc = "connect" => addrs > 0

\* The one frame popped after the stop is on its way, or the loop is at its end.
LateInv ==
    /\ late_pops <= 1
    /\ running => late_pops = 0
    /\ late_pops = 1 => net_pc \in {"header", "payload", "sent", "check", "exited", "destroyed",
                                    "killed"}

IInv == TypeOK /\ ConnInv /\ Resources /\ FrameInv /\ LateInv

\* The bytes w are whole frames in capture order, but for the end of the last.
Framed(w) ==
    \A i \in 1 .. Len(w) :
        /\ w[i].off = (i - 1) % FrameLen
        /\ i > 1 => IF w[i].off = 0 THEN w[i].seq > w[i - 1].seq
                                   ELSE w[i].seq = w[i - 1].seq

\* The frames before frame f are on the wire whole, of f itself the first off bytes.
FrameBegun(w, f, off) ==
    /\ \E k \in Nat : Len(w) = k * FrameLen + off
    /\ off = 0 => \A i \in 1 .. Len(w) : w[i].seq < f
    /\ off > 0 => w[Len(w)].seq = f

WholeFrames(w) == \E k \in Nat : Len(w) = k * FrameLen

\* What is on the wire at every place of networkLoop(): nothing before the handshake, whole
\* frames between two frames, and as much of a frame as sslWriteAll() has written of it.
WireInv ==
    /\ Framed(wire)
    /\ \A i \in 1 .. Len(wire) : wire[i].seq <= last_frame
    /\ net_pc \in {"ssl_new", "setup", "handshake"} => wire = <<>>
    /\ net_pc \in {"pop", "sent"} => WholeFrames(wire)
    /\ net_pc = "check" /\ state_ = "Connected" => WholeFrames(wire)
    /\ net_pc \in {"header", "payload"} => pkt = last_frame /\ FrameBegun(wire, pkt, Written)

-----------------------------------------------------------------------------
\* The descriptor that stands for none is none of the kernel's.
LEMMA NoFdNotFd == NoFd \notin Fds
BY FdsAssumption DEF NoFd

\* The delay stays between its base and its maximum.
LEMMA NextDelayBounds ==
    ASSUME NEW ms \in reconnect_base_ms .. reconnect_max_ms
    PROVE  NextDelay(ms) \in reconnect_base_ms .. reconnect_max_ms
<1> DEFINE p == ms * reconnect_multiplier
<1>1. ms \in Nat /\ reconnect_multiplier \in Nat /\ reconnect_multiplier >= 1
  BY BackoffAssumption
<1>2. p \in Nat /\ p >= ms
  <2>1. PICK k \in Nat : reconnect_multiplier = k + 1
    <3>1. reconnect_multiplier - 1 \in Nat /\ reconnect_multiplier = (reconnect_multiplier - 1) + 1
      BY <1>1
    <3> QED BY <3>1
  <2>2. ms * (k + 1) = ms * k + ms /\ ms * k \in Nat
    BY <1>1, <2>1
  <2>3. p = ms * k + ms
    BY <2>1, <2>2 DEF p
  <2> HIDE DEF p
  <2> QED BY <1>1, <2>2, <2>3
<1> HIDE DEF p
<1>3. (IF p > reconnect_max_ms THEN reconnect_max_ms ELSE p)
         \in reconnect_base_ms .. reconnect_max_ms
  BY <1>1, <1>2, BackoffAssumption
<1> QED BY <1>3 DEF NextDelay, p

\* Bytes of a frame that are written extend the wire by bytes of a frame.
LEMMA WireTypes ==
    ASSUME NEW f \in Frame, NEW off \in Nat, NEW n \in Nat, off + n <= FrameLen,
           NEW w \in Seq([seq : Frame, off : 0 .. (FrameLen - 1)])
    PROVE  w \o Bytes(f, off, n) \in Seq([seq : Frame, off : 0 .. (FrameLen - 1)])
<1> DEFINE B == [seq : Frame, off : 0 .. (FrameLen - 1)]
<1>1. FrameLen \in Nat
  BY LengthAssumption DEF FrameLen
<1>2. \A i \in 1 .. n : off + i - 1 \in 0 .. (FrameLen - 1)
  BY <1>1
<1>3. \A i \in 1 .. n : [seq |-> f, off |-> off + i - 1] \in B
  BY <1>2
<1>4. Bytes(f, off, n) \in Seq(B)
  BY <1>3 DEF Bytes
<1> QED BY <1>4

-----------------------------------------------------------------------------
\* A client that was not initialised has nothing.
LEMMA InitIInv == Init => IInv
<1> SUFFICES ASSUME Init PROVE IInv
  OBVIOUS
<1>1. TypeOK
  <2>1. ssl_ctx_ \in BOOLEAN /\ ssl_ \in BOOLEAN /\ running \in BOOLEAN
    BY Zenon DEF Init
  <2>2. FrameLen \in Nat
    BY LengthAssumption DEF FrameLen
  <2> QED
    BY <2>1, <2>2, BackoffAssumption, BoundsAssumption
       DEF Init, TypeOK, NetPC, NoFd, NoFrame
<1>2. ConnInv /\ FrameInv /\ LateInv
  BY DEF Init, ConnInv, FrameInv, LateInv, NoConnection
<1>3. Resources
  BY DEF Init, Resources
<1> QED BY <1>1, <1>2, <1>3 DEF IInv

\* Every step of the network thread, of the kernel and of the far side keeps IInv.
LEMMA NextIInv == IInv /\ [Next]_vars => IInv'
<1> SUFFICES ASSUME IInv, [Next]_vars PROVE IInv'
  OBVIOUS
<1> USE DEF IInv
<1>a. TypeOK /\ ConnInv /\ Resources /\ FrameInv /\ LateInv
  OBVIOUS
<1>1. CASE InitializeFails
  <2>1. TypeOK'
    BY <1>a, <1>1
       DEF InitializeFails, TypeOK, NetPC, connVars, statVars, localVars, frameVars, sysVars,
           histVars
  <2>2. ConnInv'
    BY <1>a, <1>1
       DEF InitializeFails, ConnInv, NoConnection, Established, connVars, localVars,
           sysVars
  <2>3. Resources'
    BY <1>a, <1>1 DEF InitializeFails, Resources, connVars, localVars, sysVars
  <2>4. FrameInv' /\ LateInv'
    BY <1>a, <1>1 DEF InitializeFails, FrameInv, LateInv, frameVars, localVars, histVars
  <2> QED BY <2>1, <2>2, <2>3, <2>4
<1>2. CASE Initialize
  <2>1. TypeOK'
    BY <1>a, <1>2
       DEF Initialize, TypeOK, NetPC, connVars, statVars, localVars, frameVars, sysVars,
           histVars
  <2>2. ConnInv'
    BY <1>a, <1>2
       DEF Initialize, ConnInv, NoConnection, Established, connVars, localVars, sysVars
  <2>3. Resources'
    BY <1>a, <1>2 DEF Initialize, Resources, connVars, localVars, sysVars
  <2>4. FrameInv' /\ LateInv'
    BY <1>a, <1>2 DEF Initialize, FrameInv, LateInv, frameVars, localVars, histVars
  <2> QED BY <2>1, <2>2, <2>3, <2>4
<1>3. CASE StartLoop
  <2>1. TypeOK'
    BY <1>a, <1>3
       DEF StartLoop, TypeOK, NetPC, connVars, statVars, localVars, frameVars, sysVars, histVars
  <2>2. ConnInv'
    BY <1>a, <1>3
       DEF StartLoop, ConnInv, NoConnection, Established, connVars, localVars, sysVars
  <2>3. Resources'
    BY <1>a, <1>3 DEF StartLoop, Resources, connVars, localVars, sysVars
  <2>4. FrameInv' /\ LateInv'
    BY <1>a, <1>3 DEF StartLoop, FrameInv, LateInv, frameVars, localVars, histVars
  <2> QED BY <2>1, <2>2, <2>3, <2>4
<1>4. CASE Stop
  <2>a. ssl_ctx_' \in BOOLEAN /\ ssl_' \in BOOLEAN /\ running' \in BOOLEAN
    BY <1>a, <1>4, Zenon DEF Stop, TypeOK, connVars
  <2>b. ssl_live' \in Nat
    BY <1>a, <1>4 DEF Stop, TypeOK, Resources, sysVars
  <2>1. TypeOK'
    BY <1>a, <1>4, <2>a, <2>b
       DEF Stop, TypeOK, connVars, statVars, localVars, frameVars, sysVars, histVars
  <2>2. ConnInv'
    BY <1>a, <1>4
       DEF Stop, ConnInv, NoConnection, Established, connVars, localVars, sysVars
  <2>3. Resources'
    BY <1>a, <1>4 DEF Stop, Resources, connVars, localVars, sysVars
  <2>4. FrameInv' /\ LateInv'
    BY <1>a, <1>4 DEF Stop, FrameInv, LateInv, frameVars, localVars, histVars
  <2> QED BY <2>1, <2>2, <2>3, <2>4
<1>5. CASE LoopConnected
  <2>1. TypeOK'
    BY <1>a, <1>5
       DEF LoopConnected, TypeOK, NetPC, connVars, statVars, localVars, frameVars, sysVars,
           histVars
  <2>2. ConnInv'
    BY <1>a, <1>5
       DEF LoopConnected, ConnInv, NoConnection, Established, connVars, localVars,
           sysVars
  <2>3. Resources'
    BY <1>a, <1>5 DEF LoopConnected, Resources, connVars, localVars, sysVars
  <2>4. FrameInv' /\ LateInv'
    BY <1>a, <1>5 DEF LoopConnected, FrameInv, LateInv, frameVars, localVars, histVars
  <2> QED BY <2>1, <2>2, <2>3, <2>4
<1>6. CASE LoopConnect
  <2>1. TypeOK'
    BY <1>a, <1>6
       DEF LoopConnect, TypeOK, NetPC, statVars, localVars, frameVars, sysVars, histVars
  <2>2. ConnInv'
    BY <1>a, <1>6
       DEF LoopConnect, ConnInv, NoConnection, Established, localVars, sysVars
  <2>3. Resources'
    BY <1>a, <1>6 DEF LoopConnect, Resources, localVars, sysVars
  <2>4. FrameInv' /\ LateInv'
    BY <1>a, <1>6 DEF LoopConnect, FrameInv, LateInv, frameVars, localVars, histVars
  <2> QED BY <2>1, <2>2, <2>3, <2>4
<1>7. CASE Resolve
  <2>1. TypeOK'
    BY <1>a, <1>7, BoundsAssumption
       DEF Resolve, TypeOK, NetPC, connVars, statVars, frameVars, sysVars, histVars
  <2>2. ConnInv'
    BY <1>a, <1>7 DEF Resolve, ConnInv, NoConnection, Established, connVars, sysVars
  <2>3. Resources'
    BY <1>a, <1>7 DEF Resolve, Resources, connVars, sysVars
  <2>4. FrameInv' /\ LateInv'
    BY <1>a, <1>7 DEF Resolve, FrameInv, LateInv, frameVars, histVars
  <2> QED BY <2>1, <2>2, <2>3, <2>4
<1>8. CASE ResolveFails
  <2>1. TypeOK'
    BY <1>a, <1>8
       DEF ResolveFails, TypeOK, NetPC, statVars, localVars, frameVars, sysVars, histVars
  <2>2. ConnInv'
    BY <1>a, <1>8
       DEF ResolveFails, TypeOK, ConnInv, NoConnection, Established, localVars, sysVars
  <2>3. Resources'
    BY <1>a, <1>8
       DEF ResolveFails, ConnInv, NoConnection, Established, Resources, localVars, sysVars
  <2>4. FrameInv' /\ LateInv'
    BY <1>a, <1>8 DEF ResolveFails, FrameInv, LateInv, frameVars, localVars, histVars
  <2> QED BY <2>1, <2>2, <2>3, <2>4
<1>9. CASE OpenSocket
  <2>1. TypeOK'
    BY <1>a, <1>9 DEF OpenSocket, TypeOK, NetPC, connVars, statVars, frameVars, histVars
  <2>2. ConnInv'
    BY <1>a, <1>9, NoFdNotFd
       DEF OpenSocket, TypeOK, ConnInv, NoConnection, Established, connVars
  <2>3. Resources'
    BY <1>a, <1>9, NoFdNotFd
       DEF OpenSocket, TypeOK, ConnInv, NoConnection, Established, Resources, connVars
  <2>4. FrameInv' /\ LateInv'
    BY <1>a, <1>9 DEF OpenSocket, TypeOK, FrameInv, LateInv, frameVars, histVars
  <2> QED BY <2>1, <2>2, <2>3, <2>4
<1>10. CASE OpenSocketFails
  <2>1. TypeOK'
    BY <1>a, <1>10, BoundsAssumption
       DEF OpenSocketFails, TypeOK, connVars, statVars, frameVars, sysVars, histVars, FrameInv
  <2>2. ConnInv'
    BY <1>a, <1>10, NoFdNotFd
       DEF OpenSocketFails, TypeOK, ConnInv, NoConnection, Established, connVars, sysVars
  <2>3. Resources'
    BY <1>a, <1>10, NoFdNotFd
       DEF OpenSocketFails, ConnInv, NoConnection, Established, Resources, connVars, sysVars
  <2>4. FrameInv' /\ LateInv'
    BY <1>a, <1>10 DEF OpenSocketFails, FrameInv, LateInv, frameVars, histVars
  <2> QED BY <2>1, <2>2, <2>3, <2>4
<1>11. CASE ConnectFails
  <2>1. TypeOK'
    BY <1>a, <1>11, BoundsAssumption
       DEF ConnectFails, TypeOK, NetPC, connVars, statVars, frameVars, histVars, FrameInv
  <2>2. ConnInv'
    BY <1>a, <1>11, NoFdNotFd
       DEF ConnectFails, TypeOK, ConnInv, NoConnection, Established, connVars
  <2>3. Resources'
    BY <1>a, <1>11, NoFdNotFd
       DEF ConnectFails, TypeOK, ConnInv, NoConnection, Established, Resources, connVars
  <2>4. FrameInv' /\ LateInv'
    BY <1>a, <1>11 DEF ConnectFails, TypeOK, FrameInv, LateInv, frameVars, histVars
  <2> QED BY <2>1, <2>2, <2>3, <2>4
<1>12. CASE AddressesExhausted
  <2>1. TypeOK'
    BY <1>a, <1>12
       DEF AddressesExhausted, TypeOK, NetPC, statVars, localVars, frameVars, sysVars, histVars
  <2>2. ConnInv'
    BY <1>a, <1>12, NoFdNotFd
       DEF AddressesExhausted, TypeOK, ConnInv, NoConnection, Established, localVars, sysVars
  <2>3. Resources'
    BY <1>a, <1>12, NoFdNotFd
       DEF AddressesExhausted, ConnInv, NoConnection, Established, Resources, localVars, sysVars
  <2>4. FrameInv' /\ LateInv'
    BY <1>a, <1>12 DEF AddressesExhausted, FrameInv, LateInv, frameVars, localVars, histVars
  <2> QED BY <2>1, <2>2, <2>3, <2>4
<1>13. CASE Connect
  <2>1. TypeOK'
    BY <1>a, <1>13, BoundsAssumption DEF Connect, TypeOK, NetPC, statVars, frameVars, histVars
  <2>2. ConnInv'
    BY <1>a, <1>13, NoFdNotFd DEF Connect, TypeOK, ConnInv, NoConnection, Established
  <2>3. Resources'
    BY <1>a, <1>13, NoFdNotFd DEF Connect, TypeOK, ConnInv, NoConnection, Established, Resources
  <2>4. FrameInv' /\ LateInv'
    BY <1>a, <1>13 DEF Connect, TypeOK, FrameInv, LateInv, frameVars, histVars
  <2> QED BY <2>1, <2>2, <2>3, <2>4
<1>14. CASE SslNew
  <2>1. TypeOK'
    BY <1>a, <1>14 DEF SslNew, TypeOK, NetPC, statVars, localVars, frameVars, histVars
  <2>2. ConnInv'
    BY <1>a, <1>14 DEF SslNew, TypeOK, ConnInv, NoConnection, Established, localVars
  <2>3. Resources'
    BY <1>a, <1>14 DEF SslNew, ConnInv, NoConnection, Established, Resources, localVars
  <2>4. FrameInv' /\ LateInv'
    BY <1>a, <1>14 DEF SslNew, FrameInv, LateInv, frameVars, localVars, histVars
  <2> QED BY <2>1, <2>2, <2>3, <2>4
<1>15. CASE SslSetup
  <2>1. TypeOK'
    BY <1>a, <1>15
       DEF SslSetup, TypeOK, NetPC, connVars, statVars, localVars, frameVars, sysVars, histVars
  <2>2. ConnInv'
    BY <1>a, <1>15
       DEF SslSetup, ConnInv, NoConnection, Established, connVars, localVars, sysVars
  <2>3. Resources'
    BY <1>a, <1>15 DEF SslSetup, Resources, connVars, localVars, sysVars
  <2>4. FrameInv' /\ LateInv'
    BY <1>a, <1>15 DEF SslSetup, FrameInv, LateInv, frameVars, localVars, histVars
  <2> QED BY <2>1, <2>2, <2>3, <2>4
<1>16. CASE TlsConnectFails
  <2>a. ssl_ctx_' \in BOOLEAN /\ ssl_' \in BOOLEAN /\ running' \in BOOLEAN
    BY <1>a, <1>16, Zenon DEF TlsConnectFails, TypeOK, connVars
  <2>b. ssl_live' \in Nat
    BY <1>a, <1>16 DEF TlsConnectFails, TypeOK, Resources
  <2>1. TypeOK'
    BY <1>a, <1>16, <2>a, <2>b
       DEF TlsConnectFails, TypeOK, NetPC, statVars, localVars, frameVars, histVars
  <2>2. ConnInv'
    BY <1>a, <1>16, NoFdNotFd
       DEF TlsConnectFails, TypeOK, ConnInv, NoConnection, Established, localVars
  <2>3. Resources'
    BY <1>a, <1>16, NoFdNotFd
       DEF TlsConnectFails, TypeOK, ConnInv, NoConnection, Established, Resources, localVars
  <2>4. FrameInv' /\ LateInv'
    BY <1>a, <1>16
       DEF TlsConnectFails, TypeOK, FrameInv, LateInv, frameVars, localVars, histVars
  <2> QED BY <2>1, <2>2, <2>3, <2>4
<1>17. CASE SslConnect
  <2>1. TypeOK'
    BY <1>a, <1>17, BackoffAssumption, BoundsAssumption
       DEF SslConnect, TypeOK, NetPC, statVars, localVars, frameVars, sysVars, ResetDelay
  <2>2. ConnInv'
    BY <1>a, <1>17
       DEF SslConnect, ConnInv, NoConnection, Established, localVars, sysVars
  <2>3. Resources'
    BY <1>a, <1>17 DEF SslConnect, Resources, localVars, sysVars
  <2>4. FrameInv' /\ LateInv'
    BY <1>a, <1>17 DEF SslConnect, FrameInv, LateInv, frameVars, localVars
  <2> QED BY <2>1, <2>2, <2>3, <2>4
<1>18. CASE Backoff
  <2>1. TypeOK'
    BY <1>a, <1>18, BoundsAssumption, NextDelayBounds
       DEF Backoff, TypeOK, NetPC, connVars, statVars, localVars, frameVars, sysVars
  <2>2. ConnInv'
    BY <1>a, <1>18
       DEF Backoff, ConnInv, NoConnection, Established, connVars, localVars, sysVars
  <2>3. Resources'
    BY <1>a, <1>18 DEF Backoff, Resources, connVars, localVars, sysVars
  <2>4. FrameInv' /\ LateInv'
    BY <1>a, <1>18 DEF Backoff, FrameInv, LateInv, frameVars, localVars
  <2> QED BY <2>1, <2>2, <2>3, <2>4
<1>19. CASE PopNothing
  <2>1. TypeOK'
    BY <1>a, <1>19
       DEF PopNothing, TypeOK, NetPC, connVars, statVars, localVars, frameVars, sysVars,
           histVars
  <2>2. ConnInv'
    BY <1>a, <1>19
       DEF PopNothing, ConnInv, NoConnection, Established, connVars, localVars, sysVars
  <2>3. Resources'
    BY <1>a, <1>19 DEF PopNothing, Resources, connVars, localVars, sysVars
  <2>4. FrameInv' /\ LateInv'
    BY <1>a, <1>19 DEF PopNothing, FrameInv, LateInv, frameVars, localVars, histVars
  <2> QED BY <2>1, <2>2, <2>3, <2>4
<1>20. CASE FrameSent
  <2>1. TypeOK'
    BY <1>a, <1>20, LengthAssumption
       DEF FrameSent, TypeOK, NetPC, connVars, localVars, sysVars, histVars, FrameLen
  <2>2. ConnInv'
    BY <1>a, <1>20
       DEF FrameSent, ConnInv, NoConnection, Established, connVars, localVars, sysVars
  <2>3. Resources'
    BY <1>a, <1>20 DEF FrameSent, Resources, connVars, localVars, sysVars
  <2>4. FrameInv' /\ LateInv'
    BY <1>a, <1>20 DEF FrameSent, FrameInv, LateInv, localVars, histVars
  <2> QED BY <2>1, <2>2, <2>3, <2>4
<1>21. CASE LoopExit
  <2>a. ssl_ctx_' \in BOOLEAN /\ ssl_' \in BOOLEAN /\ running' \in BOOLEAN
    BY <1>a, <1>21, Zenon DEF LoopExit, TypeOK, connVars, tlsDisconnect
  <2>b. ssl_live' \in Nat
    BY <1>a, <1>21 DEF LoopExit, TypeOK, Resources, tlsDisconnect
  <2>1. TypeOK'
    BY <1>a, <1>21, <2>a, <2>b
       DEF LoopExit, TypeOK, NetPC, statVars, localVars, frameVars, histVars, tlsDisconnect
  <2>2. ConnInv'
    BY <1>a, <1>21, NoFdNotFd
       DEF LoopExit, TypeOK, ConnInv, NoConnection, Established, localVars, tlsDisconnect
  <2>3. Resources'
    BY <1>a, <1>21, NoFdNotFd
       DEF LoopExit, TypeOK, ConnInv, NoConnection, Established, Resources, localVars,
           tlsDisconnect
  <2>4. FrameInv' /\ LateInv'
    BY <1>a, <1>21 DEF LoopExit, TypeOK, FrameInv, LateInv, frameVars, localVars, histVars
  <2> QED BY <2>1, <2>2, <2>3, <2>4
<1>22. CASE DestroyJoined
  <2>a. ssl_ctx_' \in BOOLEAN /\ ssl_' \in BOOLEAN /\ running' \in BOOLEAN
    BY <1>a, <1>22, Zenon DEF DestroyJoined, Destroy, TypeOK, connVars, tlsDisconnect
  <2>b. ssl_live' \in Nat
    BY <1>a, <1>22 DEF DestroyJoined, Destroy, TypeOK, Resources, tlsDisconnect
  <2>1. TypeOK'
    BY <1>a, <1>22, <2>a, <2>b
       DEF DestroyJoined, Destroy, TypeOK, NetPC, statVars, localVars, frameVars, histVars, tlsDisconnect
  <2>2. ConnInv'
    BY <1>a, <1>22, NoFdNotFd
       DEF DestroyJoined, Destroy, TypeOK, ConnInv, NoConnection, Established, localVars, tlsDisconnect
  <2>3. Resources'
    BY <1>a, <1>22, NoFdNotFd
       DEF DestroyJoined, Destroy, TypeOK, ConnInv, NoConnection, Established, Resources, localVars,
           tlsDisconnect
  <2>4. FrameInv' /\ LateInv'
    BY <1>a, <1>22 DEF DestroyJoined, Destroy, TypeOK, FrameInv, LateInv, frameVars, localVars, histVars
  <2> QED BY <2>1, <2>2, <2>3, <2>4
<1>23. CASE PeerGone
  <2>1. TypeOK'
    BY <1>a, <1>23 DEF PeerGone, TypeOK, connVars, statVars, localVars, frameVars, histVars
  <2>2. ConnInv'
    BY <1>a, <1>23 DEF PeerGone, ConnInv, NoConnection, Established, connVars, localVars
  <2>3. Resources'
    BY <1>a, <1>23 DEF PeerGone, Resources, connVars, localVars
  <2>4. FrameInv' /\ LateInv'
    BY <1>a, <1>23 DEF PeerGone, FrameInv, LateInv, frameVars, localVars, histVars
  <2> QED BY <2>1, <2>2, <2>3, <2>4
<1>24. CASE Sigpipe
  <2>1. TypeOK'
    BY <1>a, <1>24
       DEF Sigpipe, TypeOK, NetPC, connVars, statVars, localVars, frameVars, sysVars, histVars
  <2>2. ConnInv'
    BY <1>a, <1>24
       DEF Sigpipe, ConnInv, NoConnection, Established, connVars, localVars, sysVars
  <2>3. Resources'
    BY <1>a, <1>24 DEF Sigpipe, Resources, connVars, localVars, sysVars
  <2>4. FrameInv' /\ LateInv'
    BY <1>a, <1>24 DEF Sigpipe, FrameInv, LateInv, frameVars, localVars, histVars
  <2> QED BY <2>1, <2>2, <2>3, <2>4
<1>25. CASE WriteSome
  <2>1. PICK n \in 1 .. (remaining - 1) :
           /\ wire' = wire \o Bytes(pkt, Written, n)
           /\ remaining' = remaining - n
    BY <1>25 DEF WriteSome
  <2>2. pkt \in Frame /\ remaining \in Nat /\ n \in Nat /\ n < remaining
    BY <1>a, <1>25, <2>1, LengthAssumption DEF WriteSome, FrameInv
  <2>3. Written \in Nat /\ Written + n <= FrameLen
    BY <1>a, <1>25, <2>2, LengthAssumption DEF WriteSome, FrameInv, Written, FrameLen
  <2>4. wire' \in Seq([seq : Frame, off : 0 .. (FrameLen - 1)])
    BY <1>a, <2>1, <2>2, <2>3, WireTypes DEF TypeOK
  <2>5. TypeOK'
    BY <1>a, <1>25, <2>1, <2>2, <2>4, LengthAssumption
       DEF WriteSome, Answer, TypeOK, FrameLen, connVars, statVars, localVars, histVars
  <2>6. ConnInv' /\ Resources'
    BY <1>a, <1>25
       DEF WriteSome, Answer, ConnInv, NoConnection, Established, Resources, connVars, localVars
  <2>7. FrameInv'
    BY <1>a, <1>25, <2>1, <2>2, LengthAssumption DEF WriteSome, FrameInv, localVars
  <2>8. LateInv'
    BY <1>a, <1>25 DEF WriteSome, LateInv, histVars
  <2> QED BY <2>5, <2>6, <2>7, <2>8
<1>26. CASE WriteRest
  <2>1. pkt \in Frame /\ remaining \in Nat
    BY <1>a, <1>26, LengthAssumption DEF WriteRest, FrameInv
  <2>2. Written \in Nat /\ Written + remaining <= FrameLen
    BY <1>a, <1>26, <2>1, LengthAssumption DEF WriteRest, FrameInv, Written, FrameLen
  <2>3. wire' \in Seq([seq : Frame, off : 0 .. (FrameLen - 1)])
    BY <1>a, <1>26, <2>1, <2>2, WireTypes DEF TypeOK, WriteRest
  <2>4. remaining' \in 0 .. FrameLen
    BY <1>26, LengthAssumption DEF WriteRest, FrameLen
  <2>5. TypeOK'
    BY <1>a, <1>26, <2>3, <2>4
       DEF WriteRest, Answer, TypeOK, NetPC, connVars, statVars, localVars, histVars
  <2>6. ConnInv' /\ Resources'
    BY <1>a, <1>26
       DEF WriteRest, Answer, ConnInv, NoConnection, Established, Resources, connVars, localVars
  <2>7. FrameInv' /\ LateInv'
    BY <1>a, <1>26, <2>1, LengthAssumption DEF WriteRest, FrameInv, LateInv, localVars, histVars
  <2> QED BY <2>5, <2>6, <2>7
<1>27. CASE WriteFails
  <2>1. PICK n \in 0 .. (remaining - 1) : wire' = wire \o Bytes(pkt, Written, n)
    BY <1>27 DEF WriteFails
  <2>2. pkt \in Frame /\ remaining \in Nat /\ n \in Nat /\ n < remaining
    BY <1>a, <1>27, <2>1, LengthAssumption DEF WriteFails, FrameInv
  <2>3. Written \in Nat /\ Written + n <= FrameLen
    BY <1>a, <1>27, <2>2, LengthAssumption DEF WriteFails, FrameInv, Written, FrameLen
  <2>4. wire' \in Seq([seq : Frame, off : 0 .. (FrameLen - 1)])
    BY <1>a, <2>1, <2>2, <2>3, WireTypes DEF TypeOK
  <2>5. remaining' \in 0 .. FrameLen /\ pkt' \in Frame \cup {NoFrame}
    BY <1>27, LengthAssumption DEF WriteFails, FrameLen
  <2>6. ssl_ctx_' \in BOOLEAN /\ ssl_' \in BOOLEAN /\ running' \in BOOLEAN
    BY <1>a, <1>27, Zenon DEF WriteFails, TypeOK, tlsDisconnect
  <2>7. ssl_live' \in Nat
    BY <1>a, <1>27 DEF WriteFails, TypeOK, Resources, tlsDisconnect
  <2>8. TypeOK'
    BY <1>a, <1>27, <2>4, <2>5, <2>6, <2>7
       DEF WriteFails, TypeOK, NetPC, statVars, localVars, histVars, tlsDisconnect
  <2>9. ConnInv'
    BY <1>a, <1>27 DEF WriteFails, ConnInv, NoConnection, localVars, tlsDisconnect
  <2>10. Resources'
    BY <1>a, <1>27, NoFdNotFd
       DEF WriteFails, TypeOK, ConnInv, Established, Resources, localVars, tlsDisconnect
  <2>11. FrameInv' /\ LateInv'
    BY <1>a, <1>27 DEF WriteFails, FrameInv, LateInv, histVars
  <2> QED BY <2>8, <2>9, <2>10, <2>11
<1>28. CASE QueueStep
  <2>1. PICK f \in Frame : PopFrame(f)
    BY <1>28 DEF QueueStep
  <2>2. net_pc = "pop" /\ late_pops = 0 /\ late_pops' \in {0, 1}
    BY <1>a, <2>1 DEF PopFrame, LateInv, TypeOK
  <2>3. remaining' \in 0 .. FrameLen
    BY <2>1, LengthAssumption DEF PopFrame, FrameLen
  <2>4. TypeOK'
    BY <1>a, <2>1, <2>2, <2>3
       DEF PopFrame, TypeOK, NetPC, connVars, statVars, localVars, sysVars
  <2>5. ConnInv' /\ Resources'
    BY <1>a, <2>1
       DEF PopFrame, ConnInv, NoConnection, Established, Resources, connVars, localVars, sysVars
  <2>6. FrameInv' /\ LateInv'
    BY <1>a, <2>1, <2>2, LengthAssumption DEF PopFrame, FrameInv, LateInv
  <2> QED BY <2>4, <2>5, <2>6
<1>29. CASE UNCHANGED vars
  BY <1>a, <1>29
     DEF vars, TypeOK, ConnInv, NoConnection, Established, Resources, FrameInv, LateInv, connVars,
         statVars, localVars, frameVars, sysVars, histVars
<1> QED
  BY <1>1, <1>2, <1>3, <1>4, <1>5, <1>6, <1>7, <1>8, <1>9, <1>10, <1>11, <1>12, <1>13, <1>14,
     <1>15, <1>16, <1>17, <1>18, <1>19, <1>20, <1>21, <1>22, <1>23, <1>24, <1>25, <1>26, <1>27,
     <1>28, <1>29
     DEF Next, LocalStep, HandshakeStep, WriteStep, Terminated

-----------------------------------------------------------------------------
\* The conjunction of types, connection, resources, frame in hand and late frames holds
\* in every state of networkLoop(), whatever the kernel and the server answer.
THEOREM ClientInvariant == Spec => []IInv
<1>1. Init => IInv
  BY InitIInv
<1>2. IInv /\ [Next]_vars => IInv'
  BY NextIInv
<1> QED BY <1>1, <1>2, PTL DEF Spec

\* The client's variables keep their types, the delay between its base and its maximum,
\* the bytes on the wire bytes of a frame.
THEOREM ClientTypes == Spec => []TypeOK
<1>1. IInv => TypeOK
  BY DEF IInv
<1> QED BY <1>1, ClientInvariant, PTL

\* No attempt, refused address, failed handshake, lost connection or destructor leaves a
\* descriptor or an SSL object without an owner, or closes one twice.
THEOREM NothingLeaks == Spec => []ResourcesOwned
<1>1. IInv => ResourcesOwned
  <2> SUFFICES ASSUME IInv PROVE ResourcesOwned
    OBVIOUS
  <2>1. open_fds = {sockfd_, sockfd} \ {NoFd} /\ ssl_live = (IF ssl_ THEN 1 ELSE 0)
    BY DEF IInv, Resources
  <2>2. net_pc = "destroyed" => sockfd_ = NoFd /\ sockfd = NoFd /\ ~ssl_ /\ ~ssl_ctx_
    BY DEF IInv, ConnInv, NoConnection
  <2> QED BY <2>1, <2>2 DEF ResourcesOwned
<1> QED BY <1>1, ClientInvariant, PTL

\* Frames are popped and written on an established connection only, and state_ says
\* Connected for no other: the check at the top of networkLoop() is enough.
THEOREM SendsOnlyConnected == Spec => []ConnectedUsable
<1>1. IInv => ConnectedUsable
  <2> SUFFICES ASSUME IInv PROVE ConnectedUsable
    OBVIOUS
  <2>1. net_pc \in {"pop", "header", "payload", "sent"} => state_ = "Connected"
    BY DEF IInv, ConnInv
  <2>2. state_ = "Connected" => Established
    BY DEF IInv, ConnInv, TypeOK, NetPC, NoConnection
  <2>3. sockfd_ # NoFd => sockfd_ \in open_fds
    BY DEF IInv, Resources
  <2> QED BY <2>1, <2>2, <2>3 DEF ConnectedUsable, Established
<1> QED BY <1>1, ClientInvariant, PTL

\* After the running flag is cleared the network thread takes at most one more frame from
\* the queue, whatever it was doing at that moment.
THEOREM OneMoreFrame == Spec => []OneFrameAfterStop
<1>1. IInv => OneFrameAfterStop
  BY DEF IInv, LateInv, OneFrameAfterStop
<1> QED BY <1>1, ClientInvariant, PTL

-----------------------------------------------------------------------------
(* The stream of a connection.                                             *)

\* A remainder is known by the multiple it leaves.
LEMMA RemainderUnique ==
    ASSUME NEW n \in Nat \ {0}, NEW a \in Int, NEW k \in Int, NEW r \in 0 .. (n - 1),
           a = k * n + r
    PROVE  a % n = r
<1> DEFINE d == a \div n
           m == a % n
<1>1. d \in Int /\ m \in 0 .. (n - 1) /\ a = d * n + m
  OBVIOUS
<1> HIDE DEF d, m
<1>2. (k - d) * n = m - r
  BY <1>1
<1>3. (k - d >= 1 => (k - d) * n >= n) /\ (k - d <= -1 => (k - d) * n <= -n)
  BY <1>1
<1>4. k - d = 0
  BY <1>1, <1>2, <1>3
<1>5. m = r
  BY <1>1, <1>2, <1>4
<1> QED BY <1>5 DEF m

\* What is written is the bytes before it and then the new ones.
LEMMA ConcatFacts ==
    ASSUME NEW S, NEW T, NEW s \in Seq(S), NEW t \in Seq(T)
    PROVE  /\ Len(s) \in Nat /\ Len(s \o t) = Len(s) + Len(t)
           /\ \A i \in 1 .. Len(s) : (s \o t)[i] = s[i]
           /\ \A j \in 1 .. Len(t) : (s \o t)[Len(s) + j] = t[j]
OBVIOUS

\* SSL_write() takes the next n bytes of frame f: the stream stays framed, and so much
\* more of f is on it.
LEMMA WriteFrames ==
    ASSUME NEW w \in Seq([seq : Frame, off : 0 .. (FrameLen - 1)]),
           NEW f \in Frame, NEW off \in Nat, NEW n \in Nat, off + n <= FrameLen,
           Framed(w), FrameBegun(w, f, off)
    PROVE  /\ Framed(w \o Bytes(f, off, n))
           /\ FrameBegun(w \o Bytes(f, off, n), f, off + n)
           /\ \A i \in 1 .. Len(w \o Bytes(f, off, n)) :
                 \/ i \in 1 .. Len(w) /\ (w \o Bytes(f, off, n))[i] = w[i]
                 \/ (w \o Bytes(f, off, n))[i].seq = f
<1> DEFINE b == Bytes(f, off, n)
           v == w \o b
           l == Len(w)
           L == FrameLen
           Byte == [seq : Frame, off : 0 .. (FrameLen - 1)]
           Piece == [seq : Frame, off : Nat]
<1>1. L \in Nat \ {0}
  BY LengthAssumption DEF FrameLen
<1>2. w \in Seq(Byte)
  OBVIOUS
<1>3. b \in Seq(Piece) /\ Len(b) = n
  BY DEF Bytes
<1>4. \A j \in 1 .. n : b[j] = [seq |-> f, off |-> off + j - 1]
  BY DEF Bytes
<1> HIDE DEF b, Byte, Piece
<1>5. l \in Nat /\ Len(v) = l + n
  <2>1. b \in Seq(Piece)
    BY <1>3
  <2>2. Len(w) \in Nat /\ Len(w \o b) = Len(w) + Len(b)
    BY <1>2, <2>1, ConcatFacts
  <2> QED BY <1>3, <2>2
<1>6. \A i \in 1 .. l : v[i] = w[i]
  BY <1>2, <1>3, ConcatFacts
<1>7. \A j \in 1 .. n : v[l + j] = b[j]
  BY <1>2, <1>3, ConcatFacts
<1>8. PICK k \in Nat : l = k * L + off
  BY DEF FrameBegun
<1> HIDE DEF v, L
<1>9. \A j \in 1 .. n : v[l + j].seq = f /\ v[l + j].off = off + j - 1
  <2> SUFFICES ASSUME NEW j \in 1 .. n
               PROVE  v[l + j].seq = f /\ v[l + j].off = off + j - 1
    OBVIOUS
  <2>1. v[l + j] = [seq |-> f, off |-> off + j - 1]
    BY <1>4, <1>7
  <2> QED BY <2>1
<1>10. \A i \in 1 .. l : w[i].seq \in Int
  <2> SUFFICES ASSUME NEW i \in 1 .. l PROVE w[i].seq \in Int
    OBVIOUS
  <2>1. w[i] \in Byte
    BY <1>2, <1>5
  <2>2. w[i].seq \in Frame
    BY <2>1 DEF Byte
  <2> QED BY <2>2, BoundsAssumption DEF Frame
<1>11. ASSUME NEW j \in 1 .. n
       PROVE  v[l + j].off = (l + j - 1) % L
  <2>1. off + j - 1 \in 0 .. (L - 1)
    BY <1>1 DEF L
  <2>2. l + j - 1 = k * L + (off + j - 1) /\ l + j - 1 \in Int
    BY <1>1, <1>5, <1>8
  <2>3. (l + j - 1) % L = off + j - 1
    <3> DEFINE a == l + j - 1
               r == off + j - 1
    <3>1. a \in Int /\ r \in 0 .. (L - 1) /\ a = k * L + r /\ k \in Int
      BY <2>1, <2>2
    <3> HIDE DEF a, r
    <3>2. a % L = r
      BY <1>1, <3>1, RemainderUnique
    <3> QED BY <3>2 DEF a, r
  <2> QED BY <1>9, <2>3
<1>12. ASSUME NEW j \in 1 .. n, l + j > 1
       PROVE  IF v[l + j].off = 0 THEN v[l + j].seq > v[l + j - 1].seq
                                  ELSE v[l + j].seq = v[l + j - 1].seq
  <2>1. CASE j > 1
    <3>1. j - 1 \in 1 .. n /\ l + (j - 1) = l + j - 1
      BY <1>5, <2>1
    <3>2. v[l + j - 1].seq = f
      BY <1>9, <3>1
    <3>3. v[l + j].seq = f /\ v[l + j].off = off + j - 1 /\ off + j - 1 # 0
      BY <1>9, <2>1
    <3> QED BY <3>2, <3>3
  <2>2. CASE j = 1
    <3>1. l \in 1 .. l /\ l + j - 1 = l /\ v[l] = w[l]
      BY <1>5, <1>6, <1>12, <2>2
    <3>2. v[l + j].off = off
      BY <1>9, <2>2
    <3>3. off = 0 => w[l].seq < f
      BY <3>1 DEF FrameBegun
    <3>4. off # 0 => w[l].seq = f
      BY DEF FrameBegun
    <3> QED BY <1>9, <1>10, <3>1, <3>2, <3>3, <3>4 DEF Frame
  <2> QED BY <2>1, <2>2
<1>13. ASSUME NEW i \in 1 .. Len(v), i > l
       PROVE  i - l \in 1 .. n /\ i = l + (i - l)
  BY <1>5, <1>13
<1>14. Framed(v)
  <2> SUFFICES ASSUME NEW i \in 1 .. Len(v)
               PROVE  /\ v[i].off = (i - 1) % L
                      /\ i > 1 => IF v[i].off = 0 THEN v[i].seq > v[i - 1].seq
                                                 ELSE v[i].seq = v[i - 1].seq
    BY DEF Framed, L
  <2>1. CASE i <= l
    <3>1. i \in 1 .. l /\ (i > 1 => i - 1 \in 1 .. l)
      BY <1>5, <2>1
    <3>2. v[i] = w[i] /\ (i > 1 => v[i - 1] = w[i - 1])
      BY <1>6, <3>1
    <3> QED BY <3>1, <3>2 DEF Framed, L
  <2>2. CASE i > l
    <3>1. i - l \in 1 .. n /\ i = l + (i - l)
      BY <1>13, <2>2
    <3> DEFINE j == i - l
    <3>2. j \in 1 .. n /\ i = l + j
      BY <3>1
    <3> HIDE DEF j
    <3>3. i - 1 = l + j - 1
      BY <1>5, <3>2
    <3>4. v[l + j].off = (l + j - 1) % L
      BY <3>2, <1>11
    <3>5. l + j > 1 => IF v[l + j].off = 0 THEN v[l + j].seq > v[l + j - 1].seq
                                           ELSE v[l + j].seq = v[l + j - 1].seq
      BY <3>2, <1>12
    <3> QED BY <3>2, <3>3, <3>4, <3>5
  <2> QED BY <1>5, <2>1, <2>2
<1>15. FrameBegun(v, f, off + n)
  <2>1. Len(v) = k * L + (off + n)
    BY <1>1, <1>5, <1>8
  <2>2. off + n = 0 => \A i \in 1 .. Len(v) : v[i].seq < f
    <3> SUFFICES ASSUME off + n = 0, NEW i \in 1 .. Len(v)
                 PROVE  v[i].seq < f
      OBVIOUS
    <3>1. off = 0 /\ n = 0
      OBVIOUS
    <3>2. i \in 1 .. l
      BY <1>5, <3>1
    <3> QED BY <1>6, <3>1, <3>2 DEF FrameBegun
  <2>3. off + n > 0 => v[Len(v)].seq = f
    <3>1. CASE n > 0
      <4>1. n \in 1 .. n
        BY <3>1
      <4> QED BY <1>5, <1>9, <4>1
    <3>2. CASE n = 0 /\ off > 0
      <4>1. l > 0 /\ Len(v) = l
        <5>1. k * L \in Nat
          BY <1>1
        <5> QED BY <1>5, <1>8, <3>2, <5>1
      <4>2. l \in 1 .. l
        BY <1>5, <4>1
      <4> QED BY <1>6, <3>2, <4>1, <4>2 DEF FrameBegun
    <3> QED BY <3>1, <3>2
  <2> QED BY <2>1, <2>2, <2>3 DEF FrameBegun, L
<1>16. \A i \in 1 .. Len(v) : (i \in 1 .. l /\ v[i] = w[i]) \/ v[i].seq = f
  <2> SUFFICES ASSUME NEW i \in 1 .. Len(v)
               PROVE  (i \in 1 .. l /\ v[i] = w[i]) \/ v[i].seq = f
    OBVIOUS
  <2>1. CASE i <= l
    <3>1. i \in 1 .. l
      BY <1>5, <2>1
    <3> QED BY <1>6, <3>1
  <2>2. CASE i > l
    BY <1>9, <1>13, <2>2
  <2> QED BY <1>5, <2>1, <2>2
<1> QED BY <1>14, <1>15, <1>16 DEF v, b

\* The first byte of a connection is still to come.
LEMMA InitWireInv == Init => WireInv
BY DEF Init, WireInv, Framed, WholeFrames, FrameBegun, NoFrame

\* A step that writes nothing and takes no frame keeps what is on the wire where it was.
LEMMA QuietWireInv ==
    ASSUME WireInv, UNCHANGED <<wire, last_frame>>,
           net_pc' \in {"ssl_new", "setup", "handshake"} =>
               net_pc \in {"ssl_new", "setup", "handshake"},
           net_pc' \in {"pop", "sent"} \/ (net_pc' = "check" /\ state_' = "Connected") =>
               \/ net_pc \in {"pop", "sent", "handshake"}
               \/ net_pc = "check" /\ state_ = "Connected",
           net_pc' \in {"header", "payload"} =>
               net_pc' = net_pc /\ UNCHANGED <<pkt, remaining>>
    PROVE  WireInv'
<1>1. Framed(wire)' /\ (\A i \in 1 .. Len(wire) : wire[i].seq <= last_frame)'
  BY DEF WireInv, Framed
<1>2. net_pc = "handshake" => WholeFrames(wire)
  <2>1. FrameLen \in Nat /\ 0 = 0 * FrameLen /\ 0 \in Nat
    BY LengthAssumption DEF FrameLen
  <2>2. WholeFrames(<<>>)
    BY <2>1 DEF WholeFrames
  <2> QED BY <2>2 DEF WireInv
<1>3. (net_pc \in {"ssl_new", "setup", "handshake"} => wire = <<>>)'
  BY DEF WireInv
<1>4. WholeFrames(wire) => WholeFrames(wire)'
  BY DEF WholeFrames
<1>5. /\ (net_pc \in {"pop", "sent"} => WholeFrames(wire))'
      /\ (net_pc = "check" /\ state_ = "Connected" => WholeFrames(wire))'
  BY <1>2, <1>4 DEF WireInv
<1>6. (net_pc \in {"header", "payload"} => pkt = last_frame /\ FrameBegun(wire, pkt, Written))'
  <2>1. net_pc' = net_pc /\ UNCHANGED <<pkt, remaining>> => Written' = Written
    BY DEF Written
  <2>2. Written' = Written /\ pkt' = pkt =>
           (FrameBegun(wire, pkt, Written) => FrameBegun(wire, pkt, Written)')
    BY DEF FrameBegun
  <2> QED BY <2>1, <2>2 DEF WireInv
<1> QED BY <1>1, <1>3, <1>5, <1>6 DEF WireInv

\* Every step of the network thread, of the kernel and of the far side keeps WireInv.
LEMMA NextWireInv == IInv /\ WireInv /\ [Next]_vars => WireInv'
<1> SUFFICES ASSUME IInv, WireInv, [Next]_vars PROVE WireInv'
  OBVIOUS
<1>a. TypeOK /\ ConnInv /\ FrameInv
  BY DEF IInv
<1>b. FrameLen \in Nat \ {0} /\ HeaderLen \in Nat \ {0} /\ PayloadLen \in Nat \ {0}
  BY LengthAssumption DEF FrameLen
<1>1. CASE InitializeFails \/ Initialize \/ StartLoop \/ Stop \/ LoopConnected \/ LoopConnect
  <2>1. StartLoop => state_ # "Connected"
    BY <1>a DEF StartLoop, ConnInv, NoConnection
  <2> QED
    BY <1>1, <2>1, QuietWireInv
       DEF InitializeFails, Initialize, StartLoop, Stop, LoopConnected, LoopConnect,
           connVars, sysVars, histVars, frameVars
<1>2. CASE Resolve \/ ResolveFails \/ OpenSocket \/ OpenSocketFails \/ ConnectFails
           \/ AddressesExhausted
  BY <1>2, QuietWireInv
     DEF Resolve, ResolveFails, OpenSocket, OpenSocketFails, ConnectFails, AddressesExhausted,
         connVars, sysVars, histVars, frameVars
<1>3. CASE SslNew \/ SslSetup \/ TlsConnectFails \/ SslConnect
  BY <1>3, QuietWireInv
     DEF SslNew, SslSetup, TlsConnectFails, SslConnect, connVars, sysVars, histVars, frameVars
<1>4. CASE Backoff
  <2>1. state_ # "Connected"
    BY <1>a, <1>4 DEF Backoff, ConnInv, NoConnection
  <2> QED BY <1>4, <2>1, QuietWireInv DEF Backoff, connVars, sysVars, histVars, frameVars
<1>5. CASE PopNothing \/ FrameSent \/ LoopExit \/ DestroyJoined \/ PeerGone \/ Sigpipe
  BY <1>5, QuietWireInv
     DEF PopNothing, FrameSent, LoopExit, DestroyJoined, Destroy, PeerGone, Sigpipe, tlsDisconnect,
         connVars, sysVars, histVars, frameVars
<1>6. CASE Connect
  BY <1>6 DEF Connect, WireInv, Framed, WholeFrames, FrameBegun
<1>7. CASE QueueStep
  <2>1. PICK f \in Frame : f > last_frame /\ PopFrame(f)
    BY <1>7 DEF QueueStep
  <2>2. /\ net_pc' = "header" /\ pkt' = f /\ last_frame' = f /\ remaining' = HeaderLen
        /\ wire' = wire /\ net_pc = "pop"
    BY <2>1 DEF PopFrame, sysVars
  <2>3. Written' = 0
    BY <1>b, <2>2 DEF Written
  <2>4. f \in Int /\ last_frame \in Int
    BY <1>a DEF TypeOK, Frame, NoFrame
  <2>5. \A i \in 1 .. Len(wire) : wire[i].seq \in Int /\ wire[i].seq <= last_frame
    <3> SUFFICES ASSUME NEW i \in 1 .. Len(wire)
                 PROVE  wire[i].seq \in Int /\ wire[i].seq <= last_frame
      OBVIOUS
    <3> DEFINE Byte == [seq : Frame, off : 0 .. (FrameLen - 1)]
    <3>a. wire \in Seq(Byte)
      BY <1>a DEF TypeOK
    <3> HIDE DEF Byte
    <3>1. wire[i] \in Byte
      BY <3>a
    <3>2. wire[i].seq \in Frame
      BY <3>1 DEF Byte
    <3> QED BY <3>2 DEF Frame, WireInv
  <2>6. \A i \in 1 .. Len(wire) : wire[i].seq < f
    BY <2>1, <2>4, <2>5
  <2>7. PICK k \in Nat : Len(wire) = k * FrameLen
    BY <2>2 DEF WireInv, WholeFrames
  <2>8. Len(wire) = k * FrameLen + 0
    BY <1>b, <2>7
  <2>9. FrameBegun(wire, f, 0)
    BY <2>6, <2>8 DEF FrameBegun
  <2>10. FrameBegun(wire, pkt, Written)'
    BY <2>2, <2>3, <2>9 DEF FrameBegun
  <2>11. (\A i \in 1 .. Len(wire) : wire[i].seq <= last_frame)'
    BY <2>2, <2>4, <2>5, <2>6
  <2> QED BY <2>2, <2>10, <2>11 DEF WireInv, Framed
<1>8. ASSUME net_pc \in {"header", "payload"},
             NEW n \in 0 .. remaining, wire' = wire \o Bytes(pkt, Written, n),
             last_frame' = last_frame
      PROVE  /\ Framed(wire)' /\ (\A i \in 1 .. Len(wire) : wire[i].seq <= last_frame)'
             /\ FrameBegun(wire', pkt, Written + n)
             /\ pkt = last_frame /\ Written + n \in Nat /\ Written \in Nat /\ n \in Nat
  <2>1. pkt \in Frame /\ remaining \in Nat /\ n \in Nat
    BY <1>a, <1>8 DEF FrameInv
  <2>2. Written \in Nat /\ Written + n <= FrameLen
    BY <1>a, <1>b, <1>8, <2>1 DEF FrameInv, Written, FrameLen
  <2>3. Framed(wire) /\ FrameBegun(wire, pkt, Written) /\ pkt = last_frame
    BY <1>8 DEF WireInv
  <2>4. wire \in Seq([seq : Frame, off : 0 .. (FrameLen - 1)])
    BY <1>a DEF TypeOK
  <2>5. /\ Framed(wire') /\ FrameBegun(wire', pkt, Written + n)
        /\ \A i \in 1 .. Len(wire') :
              (i \in 1 .. Len(wire) /\ wire'[i] = wire[i]) \/ wire'[i].seq = pkt
    <3> DEFINE off == Written
               f == pkt
               w == wire
    <3>1. /\ w \in Seq([seq : Frame, off : 0 .. (FrameLen - 1)])
          /\ f \in Frame /\ off \in Nat /\ off + n <= FrameLen
          /\ Framed(w) /\ FrameBegun(w, f, off) /\ n \in Nat
      BY <2>1, <2>2, <2>3, <2>4
    <3>2. wire' = w \o Bytes(f, off, n)
      BY <1>8
    <3> HIDE DEF off, f, w
    <3>3. /\ Framed(w \o Bytes(f, off, n)) /\ FrameBegun(w \o Bytes(f, off, n), f, off + n)
          /\ \A i \in 1 .. Len(w \o Bytes(f, off, n)) :
                \/ i \in 1 .. Len(w) /\ (w \o Bytes(f, off, n))[i] = w[i]
                \/ (w \o Bytes(f, off, n))[i].seq = f
      BY <3>1, WriteFrames, Zenon
    <3> QED BY <3>2, <3>3, Zenon DEF off, f, w
  <2>6. \A i \in 1 .. Len(wire') : wire'[i].seq <= last_frame'
    BY <1>a, <1>8, <2>1, <2>3, <2>5 DEF WireInv, Frame
  <2> QED BY <2>1, <2>2, <2>3, <2>5, <2>6 DEF Framed
<1>9. CASE WriteSome
  <2>1. PICK n \in 1 .. (remaining - 1) :
           wire' = wire \o Bytes(pkt, Written, n) /\ remaining' = remaining - n
    BY <1>9 DEF WriteSome
  <2>2. net_pc \in {"header", "payload"} /\ UNCHANGED <<net_pc, pkt, state_, last_frame>>
    BY <1>9 DEF WriteSome, connVars, histVars
  <2>3. remaining \in Nat /\ n \in 0 .. remaining
    BY <1>a, <2>1 DEF TypeOK
  <2>4. /\ Framed(wire)' /\ (\A i \in 1 .. Len(wire) : wire[i].seq <= last_frame)'
        /\ FrameBegun(wire', pkt, Written + n) /\ pkt = last_frame
    BY <1>8, <2>1, <2>2, <2>3
  <2>5. Written' = Written + n
    BY <1>b, <2>1, <2>2, <2>3 DEF Written, FrameLen
  <2>6. FrameBegun(wire, pkt, Written)'
    BY <2>2, <2>4, <2>5 DEF FrameBegun
  <2> QED BY <2>2, <2>4, <2>6 DEF WireInv
<1>10. CASE WriteRest
  <2>1. /\ net_pc \in {"header", "payload"} /\ UNCHANGED <<pkt, state_, last_frame>>
        /\ wire' = wire \o Bytes(pkt, Written, remaining)
        /\ remaining' = IF net_pc = "header" THEN PayloadLen ELSE 0
        /\ net_pc' = IF net_pc = "header" THEN "payload" ELSE "sent"
    BY <1>10 DEF WriteRest, connVars, histVars
  <2>2. remaining \in Nat /\ remaining \in 0 .. remaining
    BY <1>a DEF TypeOK
  <2>3. /\ Framed(wire)' /\ (\A i \in 1 .. Len(wire) : wire[i].seq <= last_frame)'
        /\ FrameBegun(wire', pkt, Written + remaining) /\ pkt = last_frame
    BY <1>8, <2>1, <2>2
  <2>4. CASE net_pc = "header"
    <3>1. Written + remaining = HeaderLen /\ Written' = HeaderLen
      BY <1>b, <2>1, <2>2, <2>4 DEF Written, FrameLen
    <3>2. FrameBegun(wire, pkt, Written)'
      BY <2>1, <2>3, <3>1 DEF FrameBegun
    <3> QED BY <2>1, <2>3, <2>4, <3>2 DEF WireInv
  <2>5. CASE net_pc = "payload"
    <3>1. Written + remaining = FrameLen
      BY <1>b, <2>2, <2>5 DEF Written, FrameLen
    <3>2. PICK k \in Nat : Len(wire') = k * FrameLen + FrameLen
      BY <2>3, <3>1 DEF FrameBegun
    <3>3. k + 1 \in Nat /\ Len(wire') = (k + 1) * FrameLen
      BY <1>b, <3>2
    <3>4. WholeFrames(wire)'
      BY <3>3 DEF WholeFrames
    <3> QED BY <2>1, <2>3, <2>5, <3>4 DEF WireInv
  <2> QED BY <2>1, <2>4, <2>5
<1>11. CASE WriteFails
  <2>1. PICK n \in 0 .. (remaining - 1) : wire' = wire \o Bytes(pkt, Written, n)
    BY <1>11 DEF WriteFails
  <2>2. /\ net_pc \in {"header", "payload"} /\ last_frame' = last_frame
        /\ net_pc' = "check" /\ state_' = "Disconnected"
    BY <1>11 DEF WriteFails, tlsDisconnect, histVars
  <2>3. remaining \in Nat /\ n \in 0 .. remaining
    BY <1>a, <2>1 DEF TypeOK
  <2>4. Framed(wire)' /\ (\A i \in 1 .. Len(wire) : wire[i].seq <= last_frame)'
    BY <1>8, <2>1, <2>2, <2>3
  <2> QED BY <2>2, <2>4 DEF WireInv
<1>12. CASE UNCHANGED vars
  BY <1>12, QuietWireInv DEF vars, connVars, sysVars, histVars, frameVars
<1> QED
  BY <1>1, <1>2, <1>3, <1>4, <1>5, <1>6, <1>7, <1>9, <1>10, <1>11, <1>12
     DEF Next, LocalStep, HandshakeStep, WriteStep, Terminated

\* Whatever was cut short before, a connection carries whole frames one after the other,
\* header before payload, in capture order, with at most the last one incomplete: for every
\* length of header and payload and every way SSL_write() splits them.
THEOREM FramesWhole == Spec => []WellFramed
<1>1. Init => WireInv
  BY InitWireInv
<1>2. IInv /\ WireInv /\ [Next]_vars => WireInv'
  BY NextWireInv
<1>3. WireInv => WellFramed
  BY DEF WireInv, Framed, WellFramed
<1> QED BY <1>1, <1>2, <1>3, ClientInvariant, PTL DEF Spec

-----------------------------------------------------------------------------
(* The delay between two attempts.                                         *)

\* A set of numbers that is not empty has a least one.  Inductions over numbers are
\* arguments about the least counterexample.
LEMMA LeastNumber ==
    ASSUME NEW T, T \subseteq Nat, T # {}
    PROVE  \E x \in T : \A y \in T : x <= y
<1>1. PICK x \in T : \A y \in T : <<y, x>> \notin OpToRel(<, Nat)
  BY NatLessThanWellFounded, WFMin
<1>2. \A y \in T : ~(y < x)
  BY <1>1 DEF OpToRel
<1> QED BY <1>2

\* The first n + 1 delays of the schedule, without the maximum.
Delays(n) ==
    {g \in [0 .. n -> Nat] :
        /\ g[0] = reconnect_base_ms
        /\ \A k \in 1 .. n : g[k] = g[k - 1] * reconnect_multiplier}

\* There are such delays for every number of failures: those for one failure less and
\* another product.
LEMMA DelaysExist == \A n \in Nat : Delays(n) # {}
<1> DEFINE T == {n \in Nat : Delays(n) = {}}
<1> SUFFICES ASSUME T # {} PROVE FALSE
  OBVIOUS
<1>1. PICK n \in T : \A y \in T : n <= y
  BY LeastNumber
<1>2. n \in Nat /\ Delays(n) = {}
  OBVIOUS
<1>3. reconnect_base_ms \in Nat /\ reconnect_multiplier \in Nat
  BY BackoffAssumption
<1>4. CASE n = 0
  <2> DEFINE g == [k \in 0 .. 0 |-> reconnect_base_ms]
  <2>1. g \in Delays(0)
    BY <1>3 DEF Delays
  <2> QED BY <1>2, <1>4, <2>1
<1>5. CASE n # 0
  <2>1. n - 1 \in Nat /\ n - 1 < n
    BY <1>2, <1>5
  <2>2. Delays(n - 1) # {}
    BY <1>1, <1>2, <2>1
  <2>3. PICK g \in Delays(n - 1) : TRUE
    BY <2>2
  <2>4. g \in [0 .. (n - 1) -> Nat] /\ g[0] = reconnect_base_ms
        /\ \A k \in 1 .. (n - 1) : g[k] = g[k - 1] * reconnect_multiplier
    BY <2>3 DEF Delays
  <2> DEFINE last == g[n - 1] * reconnect_multiplier
             h == [k \in 0 .. n |-> IF k = n THEN last ELSE g[k]]
  <2>5. last \in Nat
    BY <1>3, <2>1, <2>4
  <2> HIDE DEF last
  <2>6. h \in [0 .. n -> Nat] /\ h[0] = reconnect_base_ms
    BY <1>2, <1>5, <2>4, <2>5
  <2>7. ASSUME NEW k \in 1 .. n PROVE h[k] = h[k - 1] * reconnect_multiplier
    <3>1. k - 1 \in 0 .. n /\ k - 1 # n /\ k \in 0 .. n
      BY <1>2
    <3>2. CASE k = n
      BY <3>1, <3>2 DEF last
    <3>3. CASE k # n
      <4>1. k \in 1 .. (n - 1)
        BY <1>2, <3>3
      <4> QED BY <2>4, <3>1, <3>3, <4>1
    <3> QED BY <3>2, <3>3
  <2>8. h \in Delays(n)
    BY <2>6, <2>7 DEF Delays
  <2> QED BY <1>2, <2>8
<1> QED BY <1>4, <1>5

\* Two such sequences agree as far as both go.
LEMMA DelaysAgree ==
    ASSUME NEW m \in Nat, NEW n \in Nat, NEW g \in Delays(m), NEW h \in Delays(n)
    PROVE  \A k \in Nat : k <= m /\ k <= n => g[k] = h[k]
<1> DEFINE T == {k \in Nat : k <= m /\ k <= n /\ g[k] # h[k]}
<1> SUFFICES ASSUME T # {} PROVE FALSE
  OBVIOUS
<1>1. PICK k \in T : \A y \in T : k <= y
  BY LeastNumber
<1>2. k \in Nat /\ k <= m /\ k <= n /\ g[k] # h[k]
  OBVIOUS
<1>3. CASE k = 0
  BY <1>2, <1>3 DEF Delays
<1>4. CASE k # 0
  <2>1. k - 1 \in Nat /\ k - 1 < k /\ k - 1 <= m /\ k - 1 <= n /\ k \in 1 .. m /\ k \in 1 .. n
    BY <1>2, <1>4
  <2>2. g[k - 1] = h[k - 1]
    BY <1>1, <1>2, <2>1
  <2>3. g[k] = g[k - 1] * reconnect_multiplier /\ h[k] = h[k - 1] * reconnect_multiplier
    BY <2>1 DEF Delays
  <2> QED BY <1>2, <2>2, <2>3
<1> QED BY <1>3, <1>4

\* The recursion that defines ExactDelay has a solution, so that ExactDelay is one.
LEMMA ExactDelayEquation ==
    /\ ExactDelay \in [Nat -> Nat]
    /\ ExactDelay[0] = reconnect_base_ms
    /\ \A n \in Nat : ExactDelay[n + 1] = ExactDelay[n] * reconnect_multiplier
<1> DEFINE d(n) == CHOOSE g \in Delays(n) : TRUE
           f == [n \in Nat |-> d(n)[n]]
           Step(g) == [n \in Nat |-> IF n = 0 THEN reconnect_base_ms
                                              ELSE g[n - 1] * reconnect_multiplier]
<1>1. \A n \in Nat : d(n) \in Delays(n)
  BY DelaysExist
<1> HIDE DEF d
<1>2. f \in [Nat -> Nat]
  <2> SUFFICES ASSUME NEW n \in Nat PROVE d(n)[n] \in Nat
    OBVIOUS
  <2>1. d(n) \in [0 .. n -> Nat] /\ n \in 0 .. n
    BY <1>1 DEF Delays
  <2> QED BY <2>1
<1>3. \A n \in Nat : f[n] = IF n = 0 THEN reconnect_base_ms ELSE f[n - 1] * reconnect_multiplier
  <2> SUFFICES ASSUME NEW n \in Nat
               PROVE  d(n)[n] = IF n = 0 THEN reconnect_base_ms
                                         ELSE f[n - 1] * reconnect_multiplier
    OBVIOUS
  <2>1. CASE n = 0
    <3>1. d(0)[0] = reconnect_base_ms
      BY <1>1 DEF Delays
    <3> QED BY <2>1, <3>1
  <2>2. CASE n # 0
    <3>1. n - 1 \in Nat /\ n \in 1 .. n /\ n - 1 <= n /\ n - 1 <= n - 1
      BY <2>2
    <3>2. d(n)[n] = d(n)[n - 1] * reconnect_multiplier
      BY <1>1, <3>1 DEF Delays
    <3>3. d(n)[n - 1] = d(n - 1)[n - 1]
      BY <1>1, <3>1, DelaysAgree
    <3>4. f[n - 1] = d(n - 1)[n - 1]
      BY <3>1
    <3> QED BY <2>2, <3>2, <3>3, <3>4
  <2> QED BY <2>1, <2>2
<1> HIDE DEF f
<1>4. f = Step(f)
  BY <1>2, <1>3
<1>5. ExactDelay = CHOOSE g : g = Step(g)
  BY DEF ExactDelay
<1> HIDE DEF Step
<1>6. ExactDelay = Step(ExactDelay)
  BY <1>4, <1>5
<1>7. \A n \in Nat : ExactDelay[n] = IF n = 0 THEN reconnect_base_ms
                                     ELSE ExactDelay[n - 1] * reconnect_multiplier
  BY <1>6 DEF Step
<1>8. \A n \in Nat : ExactDelay[n] = f[n]
  <2> DEFINE T == {n \in Nat : ExactDelay[n] # f[n]}
  <2> SUFFICES ASSUME T # {} PROVE FALSE
    OBVIOUS
  <2>1. PICK n \in T : \A y \in T : n <= y
    BY LeastNumber
  <2>2. CASE n = 0
    BY <1>3, <1>7, <2>2
  <2>3. CASE n # 0
    <3>1. n \in Nat /\ n - 1 \in Nat /\ n - 1 < n
      BY <2>3
    <3>2. ExactDelay[n - 1] = f[n - 1]
      BY <2>1, <3>1
    <3> QED BY <1>3, <1>7, <2>3, <3>1, <3>2
  <2> QED BY <2>2, <2>3
<1>9. ExactDelay = [n \in Nat |-> ExactDelay[n]]
  BY <1>6 DEF Step
<1>10. ExactDelay \in [Nat -> Nat]
  BY <1>2, <1>8, <1>9
<1>11. ASSUME NEW n \in Nat
       PROVE  ExactDelay[n + 1] = ExactDelay[n] * reconnect_multiplier
  <2>1. n + 1 \in Nat /\ n + 1 # 0 /\ (n + 1) - 1 = n
    OBVIOUS
  <2> QED BY <1>7, <2>1
<1> QED BY <1>7, <1>10, <1>11

\* A delay below the maximum is the exact one, and grows with it; one at the maximum
\* stays there.  So it makes no difference that the code cuts the delay off each time.
LEMMA NextDelayExact ==
    ASSUME NEW exact \in Nat, NEW ms, reconnect_base_ms <= exact,
           ms = IF exact > reconnect_max_ms THEN reconnect_max_ms ELSE exact
    PROVE  LET next == exact * reconnect_multiplier
           IN  /\ NextDelay(ms) = IF next > reconnect_max_ms THEN reconnect_max_ms ELSE next
               /\ next \in Nat /\ exact <= next
<1> DEFINE next == exact * reconnect_multiplier
           p == ms * reconnect_multiplier
<1>1. reconnect_max_ms \in Nat /\ reconnect_multiplier \in Nat /\ reconnect_multiplier >= 1
  BY BackoffAssumption
<1>2. PICK k \in Nat : reconnect_multiplier = k + 1
  <2>1. reconnect_multiplier - 1 \in Nat /\ reconnect_multiplier = (reconnect_multiplier - 1) + 1
    BY <1>1
  <2> QED BY <2>1
<1>3. ASSUME NEW x \in Nat
      PROVE  x * reconnect_multiplier \in Nat /\ x <= x * reconnect_multiplier
  <2>1. x * (k + 1) = x * k + x /\ x * k \in Nat
    OBVIOUS
  <2> QED BY <1>2, <2>1
<1>4. next \in Nat /\ exact <= next
  BY <1>3
<1>5. ms \in Nat /\ p \in Nat /\ ms <= p
  BY <1>1, <1>3
<1>6. ms = exact => p = next
  OBVIOUS
<1> HIDE DEF next, p
<1>7. (IF p > reconnect_max_ms THEN reconnect_max_ms ELSE p)
         = IF next > reconnect_max_ms THEN reconnect_max_ms ELSE next
  <2>1. CASE exact > reconnect_max_ms
    BY <1>1, <1>4, <1>5, <2>1
  <2>2. CASE ~(exact > reconnect_max_ms)
    BY <1>6, <2>2
  <2> QED BY <2>1, <2>2
<1> QED BY <1>4, <1>7 DEF NextDelay, next, p

\* The schedule is never below the base delay.
LEMMA ExactDelayBase == \A n \in Nat : reconnect_base_ms <= ExactDelay[n]
<1> DEFINE T == {n \in Nat : ~(reconnect_base_ms <= ExactDelay[n])}
<1> SUFFICES ASSUME T # {} PROVE FALSE
  OBVIOUS
<1>a. reconnect_base_ms \in Nat
  BY BackoffAssumption
<1>1. PICK n \in T : \A y \in T : n <= y
  BY LeastNumber
<1>2. CASE n = 0
  BY <1>a, <1>2, ExactDelayEquation
<1>3. CASE n # 0
  <2>1. n \in Nat /\ n - 1 \in Nat /\ n - 1 < n /\ (n - 1) + 1 = n
    BY <1>3
  <2>2. reconnect_base_ms <= ExactDelay[n - 1]
    BY <1>1, <2>1
  <2>3. ExactDelay[n - 1] \in Nat /\ ExactDelay[n] \in Nat
        /\ ExactDelay[n] = ExactDelay[n - 1] * reconnect_multiplier
    BY <2>1, ExactDelayEquation
  <2> DEFINE e == ExactDelay[n - 1]
             ms == IF e > reconnect_max_ms THEN reconnect_max_ms ELSE e
  <2>4. e <= e * reconnect_multiplier
    BY <2>2, <2>3, NextDelayExact
  <2> QED BY <1>a, <2>2, <2>3, <2>4
<1> QED BY <1>2, <1>3

\* Every step keeps the delay on its schedule.
LEMMA NextBackoff == TypeOK /\ BackoffSchedule /\ [Next]_vars => BackoffSchedule'
<1> SUFFICES ASSUME TypeOK, BackoffSchedule, [Next]_vars PROVE BackoffSchedule'
  OBVIOUS
<1>1. failures \in 0 .. MaxFailures /\ MaxFailures \in Nat
  BY BoundsAssumption DEF TypeOK
<1>2. CASE Backoff
  <2> DEFINE e == ExactDelay[failures]
             next == e * reconnect_multiplier
             Cut(x) == IF x > reconnect_max_ms THEN reconnect_max_ms ELSE x
  <2>1. e \in Nat /\ reconnect_base_ms <= e /\ reconnect_delay_ms_ = Cut(e)
    BY <1>1, ExactDelayEquation, ExactDelayBase DEF BackoffSchedule
  <2>2. NextDelay(reconnect_delay_ms_) = Cut(next) /\ next \in Nat /\ e <= next
    BY <2>1, NextDelayExact
  <2>3. reconnect_delay_ms_' = Cut(next)
    BY <1>2, <2>2 DEF Backoff
  <2>4. CASE failures < MaxFailures
    <3>1. failures' = failures + 1 /\ failures \in Nat
      BY <1>1, <1>2, <2>4 DEF Backoff
    <3>2. ExactDelay[failures'] = next
      BY <3>1, ExactDelayEquation
    <3> QED BY <2>3, <3>2 DEF BackoffSchedule
  <2>5. CASE failures = MaxFailures
    <3>1. failures' = failures
      BY <1>1, <1>2, <2>5 DEF Backoff
    <3>2. e >= reconnect_max_ms /\ reconnect_max_ms \in Nat
      BY <2>5, DelayAssumption, BackoffAssumption
    <3> HIDE DEF e, next
    <3>3. Cut(next) = Cut(e)
      BY <2>1, <2>2, <3>2
    <3> QED BY <2>3, <3>1, <3>3 DEF BackoffSchedule, e
  <2> QED BY <1>1, <2>4, <2>5
<1>3. CASE SslConnect
  <2>1. reconnect_delay_ms_' = reconnect_base_ms /\ failures' = 0
    BY <1>3 DEF SslConnect, ResetDelay
  <2>2. ExactDelay[0] = reconnect_base_ms /\ ~(reconnect_base_ms > reconnect_max_ms)
    BY ExactDelayEquation, BackoffAssumption
  <2> QED BY <2>1, <2>2 DEF BackoffSchedule
<1>4. UNCHANGED <<reconnect_delay_ms_, failures>> => BackoffSchedule'
  BY DEF BackoffSchedule
<1>5. CASE InitializeFails \/ Initialize \/ StartLoop \/ LoopConnected \/ LoopConnect
           \/ Resolve \/ ResolveFails \/ OpenSocket \/ OpenSocketFails \/ AddressesExhausted
  BY <1>4, <1>5
     DEF InitializeFails, Initialize, StartLoop, LoopConnected, LoopConnect, Resolve,
         ResolveFails, OpenSocket, OpenSocketFails, AddressesExhausted, histVars
<1>6. CASE Connect \/ ConnectFails \/ SslNew \/ SslSetup \/ TlsConnectFails \/ PopNothing
           \/ FrameSent \/ LoopExit \/ DestroyJoined
  BY <1>4, <1>6
     DEF Connect, ConnectFails, SslNew, SslSetup, TlsConnectFails, PopNothing, FrameSent,
         LoopExit, DestroyJoined, Destroy, histVars
<1>7. CASE WriteStep \/ QueueStep \/ Stop \/ PeerGone \/ Sigpipe \/ Terminated \/ UNCHANGED vars
  BY <1>4, <1>7
     DEF WriteStep, WriteSome, WriteRest, WriteFails, QueueStep, PopFrame, Stop, PeerGone,
         Sigpipe, Terminated, vars, histVars
<1> QED
  BY <1>2, <1>3, <1>5, <1>6, <1>7 DEF Next, LocalStep, HandshakeStep

\* The wait before an attempt depends on nothing but the number of attempts that failed
\* since the last connection: the base delay multiplied once for each, up to the maximum.
THEOREM DelayOnSchedule == Spec => []BackoffSchedule
<1>1. Init => BackoffSchedule
  <2>1. ExactDelay[0] = reconnect_base_ms /\ ~(reconnect_base_ms > reconnect_max_ms)
    BY ExactDelayEquation, BackoffAssumption
  <2> QED BY <2>1 DEF Init, BackoffSchedule
<1>2. TypeOK /\ BackoffSchedule /\ [Next]_vars => BackoffSchedule'
  BY NextBackoff
<1> QED BY <1>1, <1>2, ClientTypes, PTL DEF Spec
=============================================================================
