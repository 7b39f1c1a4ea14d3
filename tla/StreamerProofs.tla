--------------------------- MODULE StreamerProofs ---------------------------
(***************************************************************************)
(* Proofs about Streamer: the three threads of the client program, the     *)
(* objects they share, the packet on its way from the queue to the wire,   *)
(* and the order of the frames.  The module extends the proofs about the   *)
(* network thread, whose variables the program shares, and shows that the  *)
(* program implements it.                                                  *)
(***************************************************************************)
EXTENDS Streamer, TlsClientProofs, SequenceTheorems

MainPC == {"queue", "camera", "tls", "start", "start_capture", "start_network", "abort",
           "abort_join", "stats", "shutdown", "join_capture", "join_network", "delete_tls",
           "delete_capture", "delete_queue", "exit"}

\* The places of networkLoop().
InLoop == {"check", "resolve", "socket", "connect", "ssl_new", "setup", "handshake", "backoff",
           "pop", "header", "payload", "sent"}

\* Where the capture and the network thread are, and which objects exist, at every place
\* of main().
ThreadInv ==
    /\ main_pc \in {"queue", "camera", "tls", "start"} => cap_pc = "new"
    /\ main_pc = "start_capture" => cap_pc = "ready"
    /\ main_pc \in {"start_network", "abort", "abort_join", "stats", "shutdown",
                    "join_capture"} => cap_pc \in {"loop", "read", "push", "exited"}
    /\ main_pc \in {"join_network", "delete_tls", "delete_capture", "delete_queue"} =>
          cap_pc = "exited"
    /\ main_pc = "exit" => cap_pc \in {"new", "ready", "exited"}
    /\ main_pc \in {"queue", "camera", "tls"} => net_pc = "new"
    /\ main_pc \in {"start", "start_capture", "start_network", "abort", "abort_join"} =>
          net_pc = "ready"
    /\ main_pc \in {"stats", "shutdown", "join_capture", "join_network"} =>
          net_pc \in InLoop \cup {"exited", "killed"}
    /\ main_pc = "delete_tls" => net_pc = "exited"
    /\ main_pc \in {"delete_capture", "delete_queue"} => net_pc = "destroyed"
    /\ main_pc = "exit" => net_pc \in {"new", "failed", "ready", "destroyed"}

ObjectInv ==
    /\ main_pc \in MainPC
    /\ main_pc \notin {"queue", "exit"} => queue_alive
    /\ main_pc \notin {"queue", "camera", "delete_queue", "exit"} => capture_alive
    /\ main_pc \notin {"queue", "camera", "tls", "delete_capture", "delete_queue", "exit"} =>
          tls_alive
    /\ cap_pc # "new" /\ main_pc \notin {"delete_queue", "exit"} => streaming_

\* A packet the queue counts as held is in the hands of the network thread.
PacketInv ==
    /\ pkt # NoFrame => held["network"] = pkt /\ net_pc \in {"header", "payload", "sent", "killed"}
    /\ held["network"] # NoFrame => net_pc \in {"pop", "header", "payload", "sent", "killed"}
    /\ net_pc \in {"header", "payload", "sent"} => pkt # NoFrame
    /\ net_pc = "killed" /\ held["network"] # NoFrame => pkt = held["network"]

ChannelTypes ==
    /\ running \in BOOLEAN /\ queue \in Seq(Frame)
    /\ offer \in Frame \cup {NoFrame}
    /\ frame_seq_ \in 0 .. MaxFrames
    /\ held \in [{"network"} -> Frame \cup {NoFrame}]
    /\ delivered \in Frame \cup {NoFrame} /\ last_frame \in Frame \cup {NoFrame}

\* Frames leave the queue in the order they were numbered in, and the network thread
\* has seen none later than the one taken last.
OrderInv ==
    /\ \A i, j \in 1 .. Len(queue) : i < j => queue[i] < queue[j]
    /\ \A i \in 1 .. Len(queue) : delivered < queue[i] /\ queue[i] < frame_seq_
    /\ offer # NoFrame => offer < frame_seq_ /\ delivered < offer
                          /\ \A i \in 1 .. Len(queue) : queue[i] < offer
    /\ last_frame <= delivered /\ delivered < frame_seq_
    /\ held["network"] # NoFrame => held["network"] = delivered
    /\ net_pc = "pop" /\ held["network"] # NoFrame => last_frame < delivered
    /\ cap_pc \in {"new", "ready"} => queue = <<>> /\ offer = NoFrame /\ delivered = NoFrame

SInv == ThreadInv /\ ObjectInv /\ PacketInv /\ ChannelTypes /\ OrderInv

-----------------------------------------------------------------------------
(* The steps of the network thread that do not touch the queue.            *)

\* They leave the frame in hand alone, stay in the loop or end it, and neither enter nor
\* leave the part of it that has a packet, except by SIGPIPE.
LEMMA NetworkQuiet ==
    ASSUME NetworkLocal \/ NetworkHandshake \/ NetworkWrite \/ Environment
    PROVE  /\ UNCHANGED <<pkt, last_frame, running>>
           /\ net_pc' # net_pc =>
                 net_pc \in InLoop /\ net_pc' \in InLoop \cup {"exited", "killed"}
           /\ net_pc' \in {"header", "payload", "sent"} => net_pc \in {"header", "payload", "sent"}
           /\ net_pc = "pop" => net_pc' = "pop"
           /\ net_pc' = "pop" => net_pc \in {"pop", "check", "handshake"}
           /\ net_pc \in {"header", "payload", "sent"} =>
                 net_pc' \in {"header", "payload", "sent", "killed"}
           /\ Next
<1> DEFINE Quiet ==
           /\ UNCHANGED <<pkt, last_frame, running>>
           /\ net_pc' # net_pc =>
                 net_pc \in InLoop /\ net_pc' \in InLoop \cup {"exited", "killed"}
           /\ net_pc' \in {"header", "payload", "sent"} => net_pc \in {"header", "payload", "sent"}
           /\ net_pc = "pop" => net_pc' = "pop"
           /\ net_pc' = "pop" => net_pc \in {"pop", "check", "handshake"}
           /\ net_pc \in {"header", "payload", "sent"} =>
                 net_pc' \in {"header", "payload", "sent", "killed"}
<1>1. LoopConnected \/ LoopConnect \/ Resolve \/ ResolveFails \/ OpenSocket => Quiet
  BY DEF LoopConnected, LoopConnect, Resolve, ResolveFails, OpenSocket, frameVars, histVars,
         InLoop
<1>2. OpenSocketFails \/ ConnectFails \/ AddressesExhausted \/ Connect => Quiet
  BY DEF OpenSocketFails, ConnectFails, AddressesExhausted, Connect, frameVars, histVars,
         InLoop
<1>3. SslNew \/ SslSetup \/ TlsConnectFails \/ SslConnect \/ Backoff \/ LoopExit => Quiet
  BY DEF SslNew, SslSetup, TlsConnectFails, SslConnect, Backoff, LoopExit, frameVars,
         histVars, InLoop
<1>4. WriteSome \/ WriteRest \/ PeerGone \/ Sigpipe => Quiet
  BY DEF WriteSome, WriteRest, PeerGone, Sigpipe, frameVars, histVars, InLoop
<1>5. CASE NetworkLocal
  <2>1. \/ LoopConnected \/ LoopConnect \/ Resolve \/ ResolveFails \/ OpenSocket
        \/ OpenSocketFails \/ ConnectFails \/ AddressesExhausted \/ Connect
        \/ SslNew \/ SslSetup \/ Backoff \/ LoopExit
    BY <1>5 DEF NetworkLocal
  <2> QED BY <2>1, <1>1, <1>2, <1>3 DEF Next, LocalStep
<1>6. CASE NetworkHandshake
  <2>1. SslConnect \/ TlsConnectFails
    BY <1>6 DEF NetworkHandshake, HandshakeStep
  <2> QED BY <2>1, <1>3 DEF Next, HandshakeStep
<1>7. CASE NetworkWrite
  <2>1. WriteSome \/ WriteRest
    BY <1>7 DEF NetworkWrite
  <2> QED BY <2>1, <1>4 DEF Next, WriteStep
<1>8. CASE Environment
  <2>1. PeerGone \/ Sigpipe
    BY <1>8 DEF Environment
  <2> QED BY <2>1, <1>4 DEF Next
<1> QED BY <1>5, <1>6, <1>7, <1>8

-----------------------------------------------------------------------------
(* SInv is inductive.                                                      *)

\* Before main() has created anything, both threads are new and the queue is empty.
LEMMA InitSInv == ProgInit => SInv
<1> SUFFICES ASSUME ProgInit PROVE SInv
  OBVIOUS
<1>1. Init /\ last_frame = -1 /\ net_pc = "new" /\ pkt = -1 /\ running = TRUE
  BY DEF ProgInit, Init, NoFd, NoFrame
<1>2. /\ queue = <<>> /\ offer = -1 /\ frame_seq_ = 0 /\ delivered = -1
      /\ held = [c \in {"network"} |-> -1] /\ cap_pc = "new" /\ main_pc = "queue"
  BY DEF ProgInit, Q!Init, Cap!Init, Q!NoFrame, Consumers, network
<1>3. ThreadInv /\ ObjectInv
  BY <1>1, <1>2 DEF ThreadInv, ObjectInv, MainPC
<1>4. held["network"] = -1
  BY <1>2
<1>5. PacketInv
  BY <1>1, <1>4 DEF PacketInv, NoFrame
<1>6. ChannelTypes
  <2>1. held \in [{"network"} -> Frame \cup {NoFrame}]
    BY <1>2 DEF NoFrame
  <2> QED BY <1>1, <1>2, <2>1, BoundsAssumption DEF ChannelTypes, NoFrame
<1>7. OrderInv
  BY <1>1, <1>2, <1>4 DEF OrderInv, NoFrame
<1> QED BY <1>3, <1>5, <1>6, <1>7 DEF SInv

\* A step of main() that leaves the threads, the packet and the queue where they are.
LEMMA ChannelStays ==
    ASSUME PacketInv, ChannelTypes, OrderInv,
           UNCHANGED <<queue, offer, held, delivered, frame_seq_, last_frame, pkt>>,
           running' \in BOOLEAN,
           cap_pc' \in {"new", "ready"} => cap_pc \in {"new", "ready"},
           net_pc' = net_pc \/ {net_pc, net_pc'} \subseteq {"new", "failed", "ready", "check",
                                                            "exited", "destroyed"}
    PROVE  PacketInv' /\ ChannelTypes' /\ OrderInv'
<1>1. PacketInv'
  BY DEF PacketInv
<1>2. ChannelTypes'
  BY DEF ChannelTypes
<1>3. OrderInv'
  BY DEF OrderInv
<1> QED BY <1>1, <1>2, <1>3

\* Steps of main() keep SInv: the objects are created before the threads that use them
\* and deleted after the threads were joined.
LEMMA MainSInv == SInv /\ Alive /\ Main => SInv'
<1> SUFFICES ASSUME SInv, Alive, Main PROVE SInv'
  OBVIOUS
<1>a. ThreadInv /\ ObjectInv /\ PacketInv /\ ChannelTypes /\ OrderInv /\ net_pc # "killed"
  BY DEF SInv, Alive
<1>b. running \in BOOLEAN
  BY <1>a DEF ChannelTypes
<1>1. CASE MainFails \/ NewQueue
  <2>1. ThreadInv' /\ ObjectInv'
    BY <1>a, <1>1
       DEF MainFails, NewQueue, ThreadInv, ObjectInv, MainPC, capVars, netVars, vars,
           frameVars, histVars
  <2>2. PacketInv' /\ ChannelTypes' /\ OrderInv'
    BY <1>a, <1>b, <1>1, ChannelStays
       DEF MainFails, NewQueue, capVars, netVars, vars, frameVars, histVars, queueVars
  <2> QED BY <2>1, <2>2 DEF SInv
<1>2. CASE NewCapture
  <2>1. ThreadInv' /\ ObjectInv'
    BY <1>a, <1>2 DEF NewCapture, Cap!Open, ThreadInv, ObjectInv, MainPC, netVars, vars,
                      frameVars, histVars
  <2>2. PacketInv' /\ ChannelTypes' /\ OrderInv'
    BY <1>a, <1>b, <1>2, ChannelStays
       DEF NewCapture, Cap!Open, netVars, vars, frameVars, histVars, queueVars
  <2> QED BY <2>1, <2>2 DEF SInv
<1>3. CASE NewTls
  <2>1. /\ net_pc = "new" /\ net_pc' \in {"ready", "failed"}
        /\ (net_pc' = "ready" <=> main_pc' = "start") /\ (net_pc' = "failed" <=> main_pc' = "exit")
        /\ UNCHANGED <<pkt, last_frame, running>>
    BY <1>3
       DEF NewTls, Initialize, InitializeFails, frameVars, histVars
  <2>2. ThreadInv' /\ ObjectInv'
    BY <1>a, <1>3, <2>1 DEF NewTls, ThreadInv, ObjectInv, MainPC, capVars
  <2>3. PacketInv' /\ ChannelTypes' /\ OrderInv'
    BY <1>a, <1>b, <1>3, <2>1, ChannelStays
       DEF NewTls, capVars, queueVars
  <2> QED BY <2>2, <2>3 DEF SInv
<1>4. CASE StartCapture
  <2>1. ThreadInv' /\ ObjectInv'
    BY <1>a, <1>4 DEF StartCapture, Cap!Start, ThreadInv, ObjectInv, MainPC, netVars, vars,
                      frameVars, histVars
  <2>2. UNCHANGED <<queue, offer, held, delivered, last_frame, pkt, net_pc, running>>
    BY <1>4 DEF StartCapture, netVars, vars, frameVars, histVars, queueVars
  <2>3. cap_pc = "new" /\ cap_pc' = "ready" /\ frame_seq_' = 0
    BY <1>4 DEF StartCapture, Cap!Start
  <2>4. queue = <<>> /\ offer = NoFrame /\ delivered = NoFrame
    BY <1>a, <2>3 DEF OrderInv
  <2>5. PacketInv' /\ ChannelTypes'
    BY <1>a, <2>2, <2>3, BoundsAssumption DEF PacketInv, ChannelTypes
  <2>6. OrderInv'
    BY <1>a, <2>2, <2>3, <2>4 DEF OrderInv, NoFrame
  <2> QED BY <2>1, <2>5, <2>6 DEF SInv
<1>5. CASE CreateCaptureThread
  <2>1. ThreadInv' /\ ObjectInv'
    BY <1>a, <1>5
       DEF CreateCaptureThread, Cap!StartLoop, ThreadInv, ObjectInv, MainPC, netVars, vars,
           frameVars, histVars
  <2>2. PacketInv' /\ ChannelTypes' /\ OrderInv'
    BY <1>a, <1>b, <1>5, ChannelStays
       DEF CreateCaptureThread, Cap!StartLoop, netVars, vars, frameVars, histVars, queueVars
  <2> QED BY <2>1, <2>2 DEF SInv
<1>6. CASE CreateNetworkThread
  <2>1. net_pc = "ready" /\ net_pc' = "check" /\ UNCHANGED <<pkt, last_frame, running>>
    BY <1>6 DEF CreateNetworkThread, StartLoop, frameVars, histVars
  <2>2. ThreadInv' /\ ObjectInv'
    BY <1>a, <1>6, <2>1
       DEF CreateNetworkThread, ThreadInv, ObjectInv, MainPC, capVars, InLoop
  <2>3. PacketInv' /\ ChannelTypes' /\ OrderInv'
    BY <1>a, <1>b, <1>6, <2>1, ChannelStays
       DEF CreateNetworkThread, capVars, queueVars
  <2> QED BY <2>2, <2>3 DEF SInv
<1>7. CASE CreateNetworkThreadFails
  <2>1. ThreadInv' /\ ObjectInv'
    BY <1>a, <1>7 DEF CreateNetworkThreadFails, ThreadInv, ObjectInv, MainPC, capVars
  <2>2. running' \in BOOLEAN
    BY <1>7 DEF CreateNetworkThreadFails
  <2>3. PacketInv' /\ ChannelTypes' /\ OrderInv'
    BY <1>a, <2>2, <1>7, ChannelStays
       DEF CreateNetworkThreadFails, capVars, queueVars
  <2> QED BY <2>1, <2>3 DEF SInv
<1>8. CASE AbortShutdown \/ ShutdownQueue
  <2>1. ThreadInv' /\ ObjectInv'
    BY <1>a, <1>8
       DEF AbortShutdown, ShutdownQueue, ThreadInv, ObjectInv, MainPC, capVars, netVars, vars,
           frameVars, histVars
  <2>2. PacketInv' /\ ChannelTypes' /\ OrderInv'
    BY <1>a, <1>b, <1>8, ChannelStays
       DEF AbortShutdown, ShutdownQueue, Q!Close, capVars, netVars, vars, frameVars, histVars
  <2> QED BY <2>1, <2>2 DEF SInv
<1>9. CASE AbortJoin \/ LeaveStatsLoop \/ JoinCapture \/ JoinNetwork
  <2>1. ThreadInv' /\ ObjectInv'
    BY <1>a, <1>9
       DEF AbortJoin, LeaveStatsLoop, JoinCapture, JoinNetwork, ThreadInv, ObjectInv, MainPC,
           capVars, netVars, vars, frameVars, histVars
  <2>2. PacketInv' /\ ChannelTypes' /\ OrderInv'
    BY <1>a, <1>b, <1>9, ChannelStays
       DEF AbortJoin, LeaveStatsLoop, JoinCapture, JoinNetwork, capVars, netVars, vars,
           frameVars, histVars, queueVars
  <2> QED BY <2>1, <2>2 DEF SInv
<1>10. CASE DeleteTls
  <2>1. net_pc = "exited" /\ net_pc' = "destroyed" /\ UNCHANGED <<pkt, last_frame, running>>
    BY <1>a, <1>10 DEF DeleteTls, Destroy, ThreadInv, frameVars, histVars
  <2>2. ThreadInv' /\ ObjectInv'
    BY <1>a, <1>10, <2>1 DEF DeleteTls, ThreadInv, ObjectInv, MainPC, capVars
  <2>3. PacketInv' /\ ChannelTypes' /\ OrderInv'
    BY <1>a, <1>b, <1>10, <2>1, ChannelStays DEF DeleteTls, capVars, queueVars
  <2> QED BY <2>2, <2>3 DEF SInv
<1>11. CASE DeleteCapture \/ DeleteQueue
  <2>1. ThreadInv' /\ ObjectInv'
    BY <1>a, <1>11
       DEF DeleteCapture, DeleteQueue, Cap!Destroy, ThreadInv, ObjectInv, MainPC, capVars,
           netVars, vars, frameVars, histVars
  <2>2. PacketInv' /\ ChannelTypes' /\ OrderInv'
    BY <1>a, <1>b, <1>11, ChannelStays
       DEF DeleteCapture, DeleteQueue, Cap!Destroy, capVars, netVars, vars, frameVars,
           histVars, queueVars
  <2> QED BY <2>1, <2>2 DEF SInv
<1> QED
  BY <1>1, <1>2, <1>3, <1>4, <1>5, <1>6, <1>7, <1>8, <1>9, <1>10, <1>11 DEF Main

\* The steps of the capture thread and of push() keep SInv: what is accepted is newer
\* than all that is queued, and the frame that is evicted is the oldest.
LEMMA CaptureSInv == SInv /\ Capture => SInv'
<1> SUFFICES ASSUME SInv, Capture PROVE SInv'
  OBVIOUS
<1>a. ThreadInv /\ ObjectInv /\ PacketInv /\ ChannelTypes /\ OrderInv
  BY DEF SInv
<1>b. /\ queue \in Seq(Frame) /\ Len(queue) \in Nat /\ MaxFrames \in Nat
      /\ frame_seq_ \in 0 .. MaxFrames /\ delivered \in Int /\ NoFrame = -1
      /\ \A i \in 1 .. Len(queue) : queue[i] \in Frame
  BY <1>a, BoundsAssumption DEF ChannelTypes, Frame, NoFrame
<1>c. /\ UNCHANGED <<main_pc, queue_alive, capture_alive, tls_alive>>
      /\ UNCHANGED <<net_pc, pkt, last_frame, running>>
  BY DEF Capture, CaptureLocal, PushBegins, PushTooLarge, PushEvicts, PushEnds, mainVars,
         netVars, vars, frameVars, histVars
<1>d. /\ cap_pc \in {"loop", "read", "push"} /\ cap_pc' \in {"loop", "read", "push", "exited"}
      /\ streaming_' = streaming_ /\ held' = held
  BY DEF Capture, CaptureLocal, PushBegins, PushTooLarge, PushEvicts, PushEnds, Cap!LoopTurn,
         Cap!ReadNothing, Cap!LoopExit, Cap!CaptureFrame, Cap!PushReturns, Q!Offer, Q!Skip,
         Q!Evict, Q!Accept, Q!Refuse, capVars, queueVars
<1>e. ThreadInv' /\ ObjectInv'
  BY <1>a, <1>c, <1>d DEF ThreadInv, ObjectInv, MainPC
<1>f. PacketInv'
  BY <1>a, <1>c, <1>d DEF PacketInv
<1>1. CASE CaptureLocal
  <2>1. UNCHANGED <<queue, offer, delivered, closed, frame_seq_>>
    BY <1>1 DEF CaptureLocal, queueVars, Cap!LoopTurn, Cap!ReadNothing, Cap!LoopExit
  <2> QED
    BY <1>a, <1>c, <1>d, <1>e, <1>f, <2>1 DEF SInv, ChannelTypes, OrderInv
<1>2. CASE PushBegins
  <2>1. /\ offer' = frame_seq_ /\ frame_seq_' = frame_seq_ + 1 /\ frame_seq_ < MaxFrames
        /\ UNCHANGED <<queue, delivered>>
    BY <1>2 DEF PushBegins, Q!Offer
  <2>2. ChannelTypes'
    BY <1>a, <1>b, <1>c, <1>d, <2>1 DEF ChannelTypes, Frame
  <2>3. \A i \in 1 .. Len(queue) : queue[i] < frame_seq_ /\ queue[i] < frame_seq_ + 1
    BY <1>a, <1>b DEF OrderInv, Frame
  <2>4. delivered < frame_seq_ /\ delivered < frame_seq_ + 1
    BY <1>a, <1>b DEF OrderInv
  <2>5. OrderInv'
    BY <1>a, <1>b, <1>c, <1>d, <2>1, <2>3, <2>4 DEF OrderInv
  <2> QED BY <1>e, <1>f, <2>2, <2>5 DEF SInv
<1>3. CASE PushTooLarge
  <2>1. /\ offer = -1 /\ frame_seq_' = frame_seq_ + 1 /\ frame_seq_ < MaxFrames
        /\ UNCHANGED <<queue, delivered, offer>>
    BY <1>3 DEF PushTooLarge, Q!Skip, Q!NoFrame
  <2>2. ChannelTypes'
    BY <1>a, <1>b, <1>c, <1>d, <2>1 DEF ChannelTypes, Frame
  <2>3. \A i \in 1 .. Len(queue) : queue[i] < frame_seq_ + 1
    BY <1>a, <1>b DEF OrderInv, Frame
  <2>4. delivered < frame_seq_ + 1
    BY <1>a, <1>b DEF OrderInv
  <2>5. OrderInv'
    BY <1>a, <1>b, <1>c, <1>d, <2>1, <2>3, <2>4 DEF OrderInv
  <2> QED BY <1>e, <1>f, <2>2, <2>5 DEF SInv
<1>4. CASE PushEvicts
  <2>1. /\ Len(queue) = capacity /\ queue' = Tail(queue)
        /\ UNCHANGED <<offer, delivered, frame_seq_>>
    BY <1>4 DEF PushEvicts, Q!Evict
  <2>2. queue # <<>>
    BY <2>1, QueueSizeAssumption
  <2>3. /\ Tail(queue) \in Seq(Frame) /\ Len(Tail(queue)) = Len(queue) - 1
        /\ \A i \in 1 .. Len(Tail(queue)) : Tail(queue)[i] = queue[i + 1]
    BY <1>b, <2>2
  <2>4. \A i \in 1 .. Len(queue') : i + 1 \in 1 .. Len(queue) /\ queue'[i] = queue[i + 1]
    BY <1>b, <2>1, <2>3
  <2>5. ChannelTypes'
    BY <1>a, <1>c, <1>d, <2>1, <2>3 DEF ChannelTypes
  <2>6. (\A i, j \in 1 .. Len(queue) : i < j => queue[i] < queue[j])'
    BY <1>a, <2>4 DEF OrderInv
  <2>7. OrderInv'
    BY <1>a, <1>c, <1>d, <2>1, <2>4, <2>6 DEF OrderInv
  <2> QED BY <1>e, <1>f, <2>5, <2>7 DEF SInv
<1>5. CASE PushEnds /\ Q!Accept
  <2>1. /\ offer # -1 /\ queue' = Append(queue, offer) /\ offer' = -1
        /\ UNCHANGED <<delivered, frame_seq_>>
    BY <1>5 DEF Q!Accept, Q!NoFrame
  <2>2. offer \in Frame
    BY <1>a, <1>b, <2>1 DEF ChannelTypes
  <2>3. /\ queue' \in Seq(Frame) /\ Len(queue') = Len(queue) + 1
        /\ \A i \in 1 .. Len(queue) : queue'[i] = queue[i]
        /\ queue'[Len(queue) + 1] = offer
    BY <1>b, <2>1, <2>2
  <2>4. ChannelTypes'
    BY <1>a, <1>b, <1>c, <1>d, <2>1, <2>3 DEF ChannelTypes
  <2>5. \A i \in 1 .. Len(queue') : i \in 1 .. Len(queue) \/ i = Len(queue) + 1
    BY <1>b, <2>3
  <2>6. \A i \in 1 .. Len(queue) : queue[i] < offer
    BY <1>a, <1>b, <2>1 DEF OrderInv
  <2>7. (\A i, j \in 1 .. Len(queue) : i < j => queue[i] < queue[j])'
    <3> SUFFICES ASSUME NEW i \in 1 .. Len(queue'), NEW j \in 1 .. Len(queue'), i < j
                 PROVE  queue'[i] < queue'[j]
      OBVIOUS
    <3>1. i \in 1 .. Len(queue)
      BY <1>b, <2>3
    <3>2. CASE j \in 1 .. Len(queue)
      BY <1>a, <2>3, <3>1, <3>2 DEF OrderInv
    <3>3. CASE j = Len(queue) + 1
      BY <2>3, <2>6, <3>1, <3>3
    <3> QED BY <2>5, <3>2, <3>3
  <2>8. (\A i \in 1 .. Len(queue) : delivered < queue[i] /\ queue[i] < frame_seq_)'
    BY <1>a, <1>b, <2>1, <2>3, <2>5 DEF OrderInv
  <2>9. OrderInv'
    BY <1>a, <1>b, <1>c, <1>d, <2>1, <2>7, <2>8 DEF OrderInv
  <2> QED BY <1>e, <1>f, <2>4, <2>9 DEF SInv
<1>6. CASE PushEnds /\ ~Q!Accept
  <2>1. UNCHANGED <<queue, delivered, frame_seq_>> /\ (offer' = offer \/ offer' = -1)
    BY <1>6 DEF PushEnds, Cap!PushReturns, Q!Refuse, Q!NoFrame
  <2>2. ChannelTypes'
    BY <1>a, <1>b, <1>c, <1>d, <2>1 DEF ChannelTypes
  <2>3. OrderInv'
    BY <1>a, <1>b, <1>c, <1>d, <2>1 DEF OrderInv
  <2> QED BY <1>e, <1>f, <2>2, <2>3 DEF SInv
<1> QED BY <1>1, <1>2, <1>3, <1>4, <1>5, <1>6 DEF Capture

\* The steps of the network thread, of the kernel and of a signal keep SInv: a packet is
\* taken, sent and released by the one thread, and is newer than the one before it.
LEMMA NetworkSInv == SInv /\ (Network \/ SignalHandler \/ Environment) => SInv'
<1> SUFFICES ASSUME SInv, Network \/ SignalHandler \/ Environment PROVE SInv'
  OBVIOUS
<1>a. ThreadInv /\ ObjectInv /\ PacketInv /\ ChannelTypes /\ OrderInv
  BY DEF SInv
<1>b. /\ queue \in Seq(Frame) /\ Len(queue) \in Nat /\ MaxFrames \in Nat
      /\ held \in [{"network"} -> Frame \cup {NoFrame}]
      /\ delivered \in Int /\ last_frame \in Int /\ NoFrame = -1
      /\ \A i \in 1 .. Len(queue) : queue[i] \in Frame
  BY <1>a, BoundsAssumption DEF ChannelTypes, Frame, NoFrame
<1>c. /\ UNCHANGED <<main_pc, queue_alive, capture_alive, tls_alive>>
      /\ UNCHANGED <<cap_pc, frame_seq_, streaming_>>
  BY DEF Network, NetworkLocal, NetworkQueue, NetworkHandshake, NetworkWrite, SendFails,
         PopTakes, PopReturns, PopBuildFails, PopTimesOut, FrameDone, SignalHandler,
         Environment, mainVars, capVars
<1>1. ASSUME net_pc' # net_pc =>
                net_pc \in InLoop /\ net_pc' \in InLoop \cup {"exited", "killed"}
      PROVE  ThreadInv' /\ ObjectInv'
  BY <1>a, <1>c, <1>1 DEF ThreadInv, ObjectInv, MainPC, InLoop
<1>2. CASE NetworkLocal \/ NetworkHandshake \/ NetworkWrite \/ Environment
  <2>1. UNCHANGED <<queue, offer, held, delivered, closed>>
    BY <1>2 DEF NetworkLocal, NetworkHandshake, NetworkWrite, Environment, queueVars
  <2>2. ThreadInv' /\ ObjectInv'
    BY <1>1, <1>2, NetworkQuiet
  <2>3. PacketInv'
    BY <1>a, <1>2, <2>1, NetworkQuiet DEF PacketInv, InLoop
  <2>4. ChannelTypes'
    BY <1>a, <1>c, <1>2, <2>1, NetworkQuiet DEF ChannelTypes
  <2>5. OrderInv'
    BY <1>a, <1>c, <1>2, <2>1, NetworkQuiet DEF OrderInv, PacketInv
  <2> QED BY <2>2, <2>3, <2>4, <2>5 DEF SInv
<1>3. CASE SignalHandler
  <2>1. UNCHANGED <<net_pc, pkt, last_frame>> /\ running' = FALSE
    BY <1>3 DEF SignalHandler, Stop, frameVars, histVars
  <2>2. UNCHANGED <<queue, offer, held, delivered>>
    BY <1>3 DEF SignalHandler, queueVars
  <2>3. running' \in BOOLEAN
    BY <2>1
  <2>4. PacketInv' /\ ChannelTypes' /\ OrderInv'
    BY <1>a, <1>c, <2>1, <2>2, <2>3, ChannelStays
  <2> QED BY <1>1, <2>1, <2>4 DEF SInv
<1>4. CASE PopTakes
  <2>1. /\ net_pc = "pop" /\ queue # <<>> /\ held["network"] = -1
        /\ held' = [held EXCEPT !["network"] = Head(queue)]
        /\ delivered' = Head(queue) /\ queue' = Tail(queue) /\ offer' = offer
        /\ UNCHANGED <<net_pc, pkt, last_frame, running>>
    BY <1>4 DEF PopTakes, Q!Take, network, Q!NoFrame, netVars, vars, frameVars, histVars
  <2>2. Head(queue) = queue[1] /\ 1 \in 1 .. Len(queue) /\ Head(queue) \in Frame
    BY <1>b, <2>1
  <2>3. held'["network"] = queue[1] /\ held' \in [{"network"} -> Frame \cup {NoFrame}]
    BY <1>b, <2>1, <2>2
  <2>4. /\ Tail(queue) \in Seq(Frame) /\ Len(Tail(queue)) = Len(queue) - 1
        /\ \A i \in 1 .. Len(Tail(queue)) : Tail(queue)[i] = queue[i + 1]
    BY <1>b, <2>1
  <2>5. \A i \in 1 .. Len(queue') : i + 1 \in 1 .. Len(queue) /\ queue'[i] = queue[i + 1]
                                    /\ 1 < i + 1
    BY <1>b, <2>1, <2>4
  <2>6. ChannelTypes'
    BY <1>a, <1>c, <2>1, <2>2, <2>3, <2>4 DEF ChannelTypes
  <2>7. PacketInv'
    BY <1>a, <2>1 DEF PacketInv
  <2>8. (\A i, j \in 1 .. Len(queue) : i < j => queue[i] < queue[j])'
    BY <1>a, <2>5 DEF OrderInv
  <2>9. (\A i \in 1 .. Len(queue) : delivered < queue[i] /\ queue[i] < frame_seq_)'
    BY <1>a, <1>c, <2>1, <2>2, <2>5 DEF OrderInv
  <2>10. (offer # NoFrame => offer < frame_seq_ /\ delivered < offer
                             /\ \A i \in 1 .. Len(queue) : queue[i] < offer)'
    BY <1>a, <1>c, <2>1, <2>2, <2>5 DEF OrderInv
  <2>11. delivered < queue[1] /\ queue[1] < frame_seq_ /\ last_frame < queue[1]
    BY <1>a, <1>b, <2>2 DEF OrderInv, Frame
  <2>12. (last_frame <= delivered /\ delivered < frame_seq_ /\ last_frame < delivered)'
    BY <1>b, <1>c, <2>1, <2>2, <2>11 DEF Frame
  <2>13. cap_pc \notin {"new", "ready"}
    BY <1>a, <2>1 DEF OrderInv
  <2>14. OrderInv'
    BY <1>c, <2>1, <2>2, <2>3, <2>8, <2>9, <2>10, <2>12, <2>13 DEF OrderInv
  <2> QED BY <1>1, <2>1, <2>6, <2>7, <2>14 DEF SInv
<1>5. CASE PopReturns
  <2>1. /\ held["network"] # -1 /\ net_pc = "pop" /\ net_pc' = "header"
        /\ pkt' = held["network"] /\ last_frame' = held["network"]
        /\ UNCHANGED <<queue, offer, held, delivered, running>>
    BY <1>5
       DEF PopReturns, PopFrame, network, NoFrame, queueVars
  <2>2. ThreadInv' /\ ObjectInv'
    BY <1>1, <2>1 DEF InLoop
  <2>3. PacketInv'
    BY <1>a, <1>b, <2>1 DEF PacketInv
  <2>4. ChannelTypes'
    BY <1>a, <1>b, <1>c, <2>1 DEF ChannelTypes
  <2>5. OrderInv'
    BY <1>a, <1>b, <1>c, <2>1 DEF OrderInv
  <2> QED BY <2>2, <2>3, <2>4, <2>5 DEF SInv
<1>6. CASE PopBuildFails \/ FrameDone \/ SendFails
  <2>1. /\ net_pc \in {"pop", "header", "payload", "sent"} /\ net_pc' = "check"
        /\ UNCHANGED <<queue, offer, delivered, last_frame, running>>
        /\ held' = [held EXCEPT !["network"] = -1] /\ pkt' \in {pkt, -1}
        /\ (net_pc # "pop" => pkt' = -1)
    BY <1>6
       DEF PopBuildFails, FrameDone, SendFails, PopNothing, FrameSent, WriteFails, Q!Release,
           network, Q!NoFrame, frameVars, histVars, NoFrame
  <2>2. ThreadInv' /\ ObjectInv'
    BY <1>1, <2>1 DEF InLoop
  <2>3. held' \in [{"network"} -> Frame \cup {NoFrame}] /\ held'["network"] = -1
    BY <1>b, <2>1
  <2>4. net_pc = "pop" => pkt = -1
    BY <1>a, <1>b DEF PacketInv
  <2>5. PacketInv'
    BY <1>b, <2>1, <2>3, <2>4 DEF PacketInv, NoFrame
  <2>6. ChannelTypes'
    BY <1>a, <1>c, <2>1, <2>3 DEF ChannelTypes
  <2>7. OrderInv'
    BY <1>a, <1>b, <1>c, <2>1, <2>3 DEF OrderInv, NoFrame
  <2> QED BY <2>2, <2>5, <2>6, <2>7 DEF SInv
<1>7. CASE PopTimesOut
  <2>1. /\ held["network"] = -1 /\ net_pc = "pop" /\ net_pc' = "check"
        /\ UNCHANGED <<queue, offer, held, delivered, pkt, last_frame, running>>
    BY <1>7
       DEF PopTimesOut, PopNothing, network, NoFrame, queueVars, frameVars, histVars
  <2>2. ThreadInv' /\ ObjectInv'
    BY <1>1, <2>1 DEF InLoop
  <2>3. PacketInv'
    BY <1>a, <1>b, <2>1 DEF PacketInv
  <2>4. ChannelTypes'
    BY <1>a, <1>c, <2>1 DEF ChannelTypes
  <2>5. OrderInv'
    BY <1>a, <1>c, <2>1 DEF OrderInv
  <2> QED BY <2>2, <2>3, <2>4, <2>5 DEF SInv
<1> QED
  BY <1>2, <1>3, <1>4, <1>5, <1>6, <1>7 DEF Network, NetworkQueue

-----------------------------------------------------------------------------
(* The theorems.                                                           *)

\* Every step of the program keeps SInv.
LEMMA NextSInv == SInv /\ [ProgNext]_progVars => SInv'
<1> SUFFICES ASSUME SInv, [ProgNext]_progVars PROVE SInv'
  OBVIOUS
<1>1. CASE UNCHANGED progVars
  <2>1. UNCHANGED <<main_pc, queue_alive, capture_alive, tls_alive, cap_pc, streaming_,
                    frame_seq_, queue, offer, held, delivered, net_pc, pkt, last_frame, running>>
    BY <1>1 DEF progVars, mainVars, capVars, netVars, vars, frameVars, histVars, queueVars
  <2>2. ThreadInv' /\ ObjectInv'
    BY <2>1 DEF SInv, ThreadInv, ObjectInv
  <2>3. PacketInv' /\ ChannelTypes' /\ OrderInv'
    BY <2>1, ChannelStays DEF SInv, ChannelTypes
  <2> QED BY <2>2, <2>3 DEF SInv
<1> QED
  BY <1>1, MainSInv, CaptureSInv, NetworkSInv DEF ProgNext, ProgTerminated

\* Threads, objects, packet and queue are in step in every state of the program.
THEOREM StreamerInvariant == ProgSpec => []SInv
<1>1. ProgInit => SInv
  BY InitSInv
<1>2. SInv /\ [ProgNext]_progVars => SInv'
  BY NextSInv
<1> QED BY <1>1, <1>2, PTL DEF ProgSpec

\* main() deletes no object, and clears no flag, that the capture or the network thread
\* still uses, on any path of start-up, failure and shutdown.
THEOREM NothingUsedAfterDelete == ProgSpec => []NoUseAfterDelete
<1>1. SInv => NoUseAfterDelete
  <2> SUFFICES ASSUME SInv PROVE NoUseAfterDelete
    OBVIOUS
  <2>1. ThreadInv /\ ObjectInv
    BY DEF SInv
  <2>2. CaptureRuns => main_pc \in {"start_network", "abort", "abort_join", "stats",
                                      "shutdown", "join_capture"}
    BY <2>1 DEF CaptureRuns, ThreadInv, ObjectInv, MainPC
  <2>3. NetworkRuns => main_pc \in {"stats", "shutdown", "join_capture", "join_network"}
    BY <2>1 DEF NetworkRuns, ThreadInv, ObjectInv, MainPC
  <2>4. CaptureRuns => cap_pc # "new"
    BY DEF CaptureRuns
  <2> QED BY <2>1, <2>2, <2>3, <2>4 DEF NoUseAfterDelete, ObjectInv
<1> QED BY <1>1, StreamerInvariant, PTL

\* A popped packet is in the hands of the network thread until it is freed, once, on
\* every path of networkLoop().
THEOREM PacketsFreed == ProgSpec => []PacketFreed
<1>1. SInv => PacketFreed
  BY DEF SInv, PacketInv, ThreadInv, PacketFreed, network, NoFrame
<1> QED BY <1>1, StreamerInvariant, PTL

\* Every step of the program is a step of the network thread as TlsClient specifies it,
\* or none: what it pops is newer than all it has popped before.
LEMMA StepImplements == SInv /\ [ProgNext]_progVars => [Next]_vars
<1> SUFFICES ASSUME SInv, [ProgNext]_progVars PROVE [Next]_vars
  OBVIOUS
<1> DEFINE Same == UNCHANGED netVars
<1>a. Same => UNCHANGED vars
  BY DEF netVars
<1>1. CASE UNCHANGED progVars
  BY <1>1, <1>a DEF progVars
<1>2. CASE ProgTerminated
  BY <1>2, <1>a DEF ProgTerminated, progVars
<1>3. CASE Main
  <2>1. NewTls => Next
    BY DEF NewTls, Next, LocalStep
  <2>2. CreateNetworkThread => Next
    BY DEF CreateNetworkThread, Next, LocalStep
  <2>3. DeleteTls => Next
    BY DEF DeleteTls, Next, LocalStep, DestroyJoined, SInv, ThreadInv
  <2>4. CreateNetworkThreadFails => [Next]_vars
    <3> SUFFICES ASSUME CreateNetworkThreadFails PROVE [Next]_vars
      OBVIOUS
    <3>1. running \in BOOLEAN
      BY DEF SInv, ChannelTypes
    <3>2. CASE running = TRUE
      <4>1. Stop
        BY <3>2 DEF CreateNetworkThreadFails, Stop, connVars, statVars, localVars, frameVars,
                    sysVars, histVars
      <4> QED BY <4>1 DEF Next
    <3>3. CASE running = FALSE
      BY <3>3 DEF CreateNetworkThreadFails, vars, connVars, statVars, localVars, frameVars,
                  sysVars, histVars
    <3> QED BY <3>1, <3>2, <3>3
  <2>5. ASSUME \/ MainFails \/ NewQueue \/ NewCapture \/ StartCapture
               \/ CreateCaptureThread \/ AbortShutdown \/ AbortJoin
               \/ LeaveStatsLoop \/ ShutdownQueue \/ JoinCapture
               \/ JoinNetwork \/ DeleteCapture \/ DeleteQueue
        PROVE  Same
    BY <2>5
       DEF MainFails, NewQueue, NewCapture, StartCapture, CreateCaptureThread, AbortShutdown,
           AbortJoin, LeaveStatsLoop, ShutdownQueue, JoinCapture, JoinNetwork, DeleteCapture,
           DeleteQueue
  <2> HIDE DEF Same
  <2> QED BY <1>3, <1>a, <2>1, <2>2, <2>3, <2>4, <2>5 DEF Main
<1>4. CASE Capture
  BY <1>4, <1>a DEF Capture, CaptureLocal, PushBegins, PushTooLarge, PushEvicts, PushEnds
<1>5. CASE SignalHandler
  BY <1>5 DEF SignalHandler, Next
<1>6. CASE NetworkLocal \/ NetworkHandshake \/ NetworkWrite \/ Environment
  BY <1>6, NetworkQuiet
<1>7. CASE PopTakes
  BY <1>7, <1>a DEF PopTakes
<1>8. CASE PopReturns
  <2>1. PopFrame(held["network"]) /\ held["network"] # -1
    BY <1>8 DEF PopReturns, network, NoFrame
  <2>2. held["network"] \in Frame
    BY <2>1 DEF SInv, ChannelTypes, NoFrame
  <2>3. held["network"] > last_frame
    <3>1. net_pc = "pop"
      BY <2>1 DEF PopFrame
    <3>2. held["network"] = delivered /\ last_frame < delivered
      BY <2>1, <3>1 DEF SInv, OrderInv, NoFrame
    <3> QED BY <3>2, BoundsAssumption DEF SInv, ChannelTypes, Frame, NoFrame
  <2> QED BY <2>1, <2>2, <2>3 DEF Next, QueueStep
<1>9. CASE PopBuildFails \/ PopTimesOut \/ FrameDone
  BY <1>9 DEF PopBuildFails, PopTimesOut, FrameDone, Next, LocalStep
<1>10. CASE SendFails
  BY <1>10 DEF SendFails, Next, WriteStep
<1> QED
  BY <1>1, <1>2, <1>3, <1>4, <1>5, <1>6, <1>7, <1>8, <1>9, <1>10
     DEF ProgNext, Network, NetworkQueue

\* The network thread of the program, with the queue that feeds it and main() that starts
\* and stops it, behaves as TlsClient says: all that is proved of TlsClient holds there.
THEOREM StreamerImplementsTlsClient == ProgSpec => Spec
<1>1. ProgInit => Init
  BY DEF ProgInit
<1>2. SInv /\ [ProgNext]_progVars => [Next]_vars
  BY StepImplements
<1>3. ProgSpec => []SInv
  BY StreamerInvariant
<1> QED BY <1>1, <1>2, <1>3, PTL DEF ProgSpec, Spec

\* From camera to wire, whatever the queue evicted and whichever connections were lost,
\* each connection carries whole frames in capture order.
THEOREM WholeStreamInOrder == ProgSpec => []StreamInOrder
<1>1. WellFramed => StreamInOrder
  BY DEF StreamInOrder
<1> QED BY <1>1, StreamerImplementsTlsClient, FramesWhole, PTL
=============================================================================
