------------------------------ MODULE Streamer ------------------------------
(***************************************************************************)
(* The client program, src/main.cpp: the main thread creates the queue,    *)
(* the camera and the TLS client, starts the capture and the network       *)
(* thread, waits for a signal, shuts down, joins and deletes.  It extends  *)
(* TlsClient.tla, the network thread, and composes with it                 *)
(*                                                                         *)
(*   Cap   CameraCapture.tla, the capture thread, and                      *)
(*   Q     FrameChannel.tla, the queue between the two, which              *)
(*         RingQueue.tla implements.                                       *)
(*                                                                         *)
(* A call of push(), pop() or frame_packet_free() is a joint step of the   *)
(* queue and of the thread that makes it.                                  *)
(***************************************************************************)
EXTENDS TlsClient

CONSTANT capacity   \* slots of the queue

VARIABLES
    main_pc,
    queue_alive, capture_alive, tls_alive,   \* the objects main() has not deleted
    cap_, streaming_, frame_seq_, cap_pc,    \* of the capture thread
    queue, offer, held, delivered, closed    \* of the queue

network   == "network"
Consumers == {network}

Cap == INSTANCE CameraCapture
Q   == INSTANCE FrameChannel WITH next_seq <- frame_seq_

mainVars == <<main_pc, queue_alive, capture_alive, tls_alive>>
capVars  == <<cap_, streaming_, frame_seq_, cap_pc>>
netVars  == vars
queueVars == <<queue, offer, held, delivered, closed>>
progVars == <<mainVars, capVars, netVars, queueVars>>

\* parseArgs() refuses a queue of fewer than two slots.
ASSUME QueueSizeAssumption == capacity \in Nat /\ capacity >= 2

ProgInit ==
    /\ main_pc = "queue"
    /\ queue_alive = FALSE /\ capture_alive = FALSE /\ tls_alive = FALSE
    /\ Cap!Init /\ Init /\ Q!Init

-----------------------------------------------------------------------------
(* main(): construction.  A failure returns EXIT_FAILURE on the spot.      *)

MainFails ==
    /\ main_pc \in {"queue", "camera", "start_capture"}
    /\ main_pc' = "exit"
    /\ UNCHANGED <<queue_alive, capture_alive, tls_alive, capVars, netVars, queueVars>>

NewQueue ==
    /\ main_pc = "queue"
    /\ queue_alive' = TRUE
    /\ main_pc' = "camera"
    /\ UNCHANGED <<capture_alive, tls_alive, capVars, netVars, queueVars>>

NewCapture ==
    /\ main_pc = "camera"
    /\ capture_alive' = TRUE
    /\ Cap!Open
    /\ main_pc' = "tls"
    /\ UNCHANGED <<queue_alive, tls_alive, netVars, queueVars>>

NewTls ==
    /\ main_pc = "tls"
    /\ tls_alive' = TRUE
    /\ \/ Initialize /\ main_pc' = "start"
       \/ InitializeFails /\ main_pc' = "exit"
    /\ UNCHANGED <<queue_alive, capture_alive, capVars, queueVars>>

StartCapture ==
    /\ main_pc = "start"
    /\ Cap!Start
    /\ main_pc' = "start_capture"
    /\ UNCHANGED <<queue_alive, capture_alive, tls_alive, netVars, queueVars>>

CreateCaptureThread ==
    /\ main_pc = "start_capture"
    /\ Cap!StartLoop
    /\ main_pc' = "start_network"
    /\ UNCHANGED <<queue_alive, capture_alive, tls_alive, netVars, queueVars>>

CreateNetworkThread ==
    /\ main_pc = "start_network"
    /\ StartLoop
    /\ main_pc' = "stats"
    /\ UNCHANGED <<queue_alive, capture_alive, tls_alive, capVars, queueVars>>

\* Without a network thread: stop, and wait for the capture thread.
CreateNetworkThreadFails ==
    /\ main_pc = "start_network"
    /\ running' = FALSE
    /\ main_pc' = "abort"
    /\ UNCHANGED <<queue_alive, capture_alive, tls_alive, capVars, queueVars,
                   ssl_ctx_, ssl_, sockfd_, state_, reconnect_delay_ms_, frames_sent_,
                   bytes_sent_, net_pc, sockfd, addrs, pkt, remaining, open_fds, ssl_live,
                   peer, wire, failures, last_frame, late_pops>>

AbortShutdown ==
    /\ main_pc = "abort"
    /\ Q!Close
    /\ main_pc' = "abort_join"
    /\ UNCHANGED <<queue_alive, capture_alive, tls_alive, capVars, netVars>>

AbortJoin ==
    /\ main_pc = "abort_join"
    /\ cap_pc = "exited"
    /\ main_pc' = "exit"
    /\ UNCHANGED <<queue_alive, capture_alive, tls_alive, capVars, netVars, queueVars>>

-----------------------------------------------------------------------------
(* main(): the loop that logs statistics, which changes nothing, and the   *)
(* shutdown.                                                               *)

\* SIGINT or SIGTERM, at any time.
SignalHandler ==
    /\ main_pc # "exit"
    /\ Stop
    /\ UNCHANGED <<mainVars, capVars, queueVars>>

LeaveStatsLoop ==
    /\ main_pc = "stats"
    /\ ~running
    /\ main_pc' = "shutdown"
    /\ UNCHANGED <<queue_alive, capture_alive, tls_alive, capVars, netVars, queueVars>>

ShutdownQueue ==
    /\ main_pc = "shutdown"
    /\ Q!Close
    /\ main_pc' = "join_capture"
    /\ UNCHANGED <<queue_alive, capture_alive, tls_alive, capVars, netVars>>

JoinCapture ==
    /\ main_pc = "join_capture"
    /\ cap_pc = "exited"
    /\ main_pc' = "join_network"
    /\ UNCHANGED <<queue_alive, capture_alive, tls_alive, capVars, netVars, queueVars>>

JoinNetworkSkipped ==   \* faulty: the network thread is not waited for
    /\ main_pc = "join_network"
    /\ main_pc' = "delete_tls"
    /\ UNCHANGED <<queue_alive, capture_alive, tls_alive, capVars, netVars, queueVars>>

JoinNetwork ==
    /\ main_pc = "join_network"
    /\ net_pc = "exited"
    /\ main_pc' = "delete_tls"
    /\ UNCHANGED <<queue_alive, capture_alive, tls_alive, capVars, netVars, queueVars>>

DeleteTls ==
    /\ main_pc = "delete_tls"
    /\ Destroy
    /\ tls_alive' = FALSE
    /\ main_pc' = "delete_capture"
    /\ UNCHANGED <<queue_alive, capture_alive, capVars, queueVars>>

DeleteCapture ==
    /\ main_pc = "delete_capture"
    /\ Cap!Destroy
    /\ capture_alive' = FALSE
    /\ main_pc' = "delete_queue"
    /\ UNCHANGED <<queue_alive, tls_alive, netVars, queueVars>>

DeleteQueue ==
    /\ main_pc = "delete_queue"
    /\ queue_alive' = FALSE
    /\ main_pc' = "exit"
    /\ UNCHANGED <<capture_alive, tls_alive, capVars, netVars, queueVars>>

-----------------------------------------------------------------------------
(* The capture thread and push().                                          *)

CaptureLocal ==
    /\ Cap!LoopTurn \/ Cap!ReadNothing \/ Cap!LoopExit
    /\ UNCHANGED <<mainVars, netVars, queueVars>>

PushBegins ==
    /\ Cap!CaptureFrame
    /\ Q!Offer
    /\ UNCHANGED <<mainVars, netVars>>

\* A frame larger than a slot is numbered and not queued.
PushTooLarge ==
    /\ Cap!CaptureFrame
    /\ Q!Skip
    /\ UNCHANGED <<mainVars, netVars>>

PushEvicts ==
    /\ cap_pc = "push"
    /\ Q!Evict
    /\ UNCHANGED <<mainVars, capVars, netVars>>

PushEnds ==
    /\ Cap!PushReturns
    /\ \/ Q!Accept \/ Q!Refuse
       \/ offer = NoFrame /\ UNCHANGED <<queue, offer, held, delivered, closed>>
    /\ UNCHANGED <<mainVars, netVars>>

-----------------------------------------------------------------------------
(* The network thread, pop() and frame_packet_free().                      *)

PopTakes ==
    /\ net_pc = "pop"
    /\ Q!Take(network)
    /\ UNCHANGED <<mainVars, capVars, netVars>>

PopReturns ==
    /\ held[network] # NoFrame
    /\ PopFrame(held[network])
    /\ UNCHANGED <<mainVars, capVars, queueVars>>

\* malloc() fails in pop(): the frame is gone.
PopBuildFails ==
    /\ PopNothing
    /\ Q!Release(network)
    /\ UNCHANGED <<mainVars, capVars>>

PopTimesOut ==
    /\ held[network] = NoFrame
    /\ PopNothing
    /\ UNCHANGED <<mainVars, capVars, queueVars>>

FrameDone ==
    /\ FrameSent
    /\ Q!Release(network)
    /\ UNCHANGED <<mainVars, capVars>>

SendFailsKeepsPacket ==   \* faulty: the packet is not freed on this path
    /\ WriteFails
    /\ UNCHANGED <<mainVars, capVars, queueVars>>

SendFails ==
    /\ WriteFails
    /\ Q!Release(network)
    /\ UNCHANGED <<mainVars, capVars>>

NetworkLocal ==
    /\ \/ LoopConnected \/ LoopConnect \/ Resolve \/ ResolveFails
       \/ OpenSocket \/ OpenSocketFails \/ AddressesExhausted
       \/ Connect \/ ConnectFails \/ SslNew \/ SslSetup
       \/ Backoff \/ LoopExit
    /\ UNCHANGED <<mainVars, capVars, queueVars>>

NetworkHandshake ==
    /\ HandshakeStep
    /\ UNCHANGED <<mainVars, capVars, queueVars>>

NetworkWrite ==
    /\ WriteSome \/ WriteRest
    /\ UNCHANGED <<mainVars, capVars, queueVars>>

Environment ==
    /\ PeerGone \/ Sigpipe
    /\ UNCHANGED <<mainVars, capVars, queueVars>>

-----------------------------------------------------------------------------
Main ==
    \/ MainFails \/ NewQueue \/ NewCapture \/ NewTls \/ StartCapture
    \/ CreateCaptureThread \/ CreateNetworkThread \/ CreateNetworkThreadFails
    \/ AbortShutdown \/ AbortJoin
    \/ LeaveStatsLoop \/ ShutdownQueue \/ JoinCapture \/ JoinNetwork
    \/ DeleteTls \/ DeleteCapture \/ DeleteQueue

Capture == CaptureLocal \/ PushBegins \/ PushTooLarge \/ PushEvicts \/ PushEnds

NetworkQueue == PopTakes \/ PopReturns \/ PopBuildFails \/ PopTimesOut \/ FrameDone

Network ==
    \/ NetworkLocal \/ NetworkQueue \/ NetworkHandshake \/ NetworkWrite \/ SendFails

\* The process is there until main() returns or SIGPIPE ends it.
Alive == main_pc # "exit" /\ net_pc # "killed"

ProgTerminated == ~Alive /\ UNCHANGED progVars

ProgNext ==
    \/ Alive /\ (Main \/ Capture \/ Network \/ SignalHandler \/ Environment)
    \/ ProgTerminated

ProgSpec == ProgInit /\ [][ProgNext]_progVars

-----------------------------------------------------------------------------
(* Fairness.  Every thread keeps running: sleep(5), the camera, poll() and *)
(* pop() come back by themselves.  ProgFairSpec lets the server stop       *)
(* taking data, so that SSL_connect or SSL_write may never return;         *)
(* ServerAnswers says that it answers or hangs up.                         *)

ProgFairSpec ==
    /\ ProgSpec
    /\ WF_progVars(Alive /\ Main)
    /\ WF_progVars(Alive /\ Capture)
    /\ WF_progVars(Alive /\ (NetworkLocal \/ NetworkQueue))

ServerAnswers == WF_progVars(Alive /\ (NetworkHandshake \/ NetworkWrite \/ SendFails))

-----------------------------------------------------------------------------
(* Properties.                                                             *)

CaptureRuns == cap_pc \in {"loop", "read", "push"}
NetworkRuns == net_pc \notin {"new", "failed", "ready", "exited", "destroyed", "killed"}

\* main() deletes no object that a thread still uses, on the path of an orderly
\* shutdown and on the paths of every failure, and returns when both threads
\* are done; streaming_, which is not atomic, is written by no other thread
\* while the capture thread reads it.
NoUseAfterDelete ==
    /\ CaptureRuns => capture_alive /\ queue_alive /\ streaming_
    /\ NetworkRuns => tls_alive /\ queue_alive
    /\ main_pc = "exit" => ~CaptureRuns /\ ~NetworkRuns

\* On every path through networkLoop() a popped packet is freed, and freed once:
\* the queue counts a slot as held exactly while the network thread is in pop()
\* or sends the frame.
PacketFreed ==
    /\ pkt # NoFrame => held[network] = pkt
    /\ held[network] # NoFrame => pkt = held[network] \/ net_pc \in {"pop", "killed"}
    /\ main_pc \in {"delete_tls", "delete_queue"} => held[network] = NoFrame

\* From camera to server: whatever the queue dropped and whichever connections
\* were lost, what is written on a connection is whole frames in capture order.
StreamInOrder == WellFramed

\* "This ensures the capture thread never blocks": push() ends even when the
\* server takes no more data and the network thread is stuck with a packet.
CaptureNeverBlocks == cap_pc = "push" ~> cap_pc # "push" \/ ~Alive

\* After Ctrl+C the program ends, wherever its three threads are, if the server
\* answers or hangs up.
ShutdownCompletes == ServerAnswers => (~running ~> ~Alive)
=============================================================================
