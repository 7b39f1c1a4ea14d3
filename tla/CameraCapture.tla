--------------------------- MODULE CameraCapture ---------------------------
(***************************************************************************)
(* The capture thread: src/camera_capture.cpp, from open() through         *)
(* captureLoop() to the destructor.  OpenCV is the environment: a read may *)
(* fail, return an empty image, or return one that cannot be encoded.      *)
(* push() is a call of the queue, begun by CaptureFrame and ended by       *)
(* PushReturns; Streamer.tla joins both with the queue's own steps.        *)
(***************************************************************************)
EXTENDS Integers

CONSTANT MaxFrames   \* bound: frames the camera delivers

VARIABLES cap_,        \* cv::VideoCapture is opened
          streaming_,
          frame_seq_,
          cap_pc,      \* where the thread is
          running      \* the caller's flag, only read here

capVars == <<cap_, streaming_, frame_seq_, cap_pc>>

Init ==
    /\ cap_ = FALSE
    /\ streaming_ = FALSE
    /\ frame_seq_ = 0
    /\ cap_pc = "new"

\* By index or by path, with the V4L2 backend or without.
Open ==
    /\ cap_pc = "new" /\ ~cap_
    /\ cap_' = TRUE
    /\ UNCHANGED <<streaming_, frame_seq_, cap_pc>>

\* start(), on the thread that creates the capture thread.
Start ==
    /\ cap_pc = "new" /\ cap_
    /\ streaming_' = TRUE
    /\ frame_seq_' = 0
    /\ cap_pc' = "ready"
    /\ UNCHANGED cap_

StartLoop ==
    /\ cap_pc = "ready"
    /\ cap_pc' = "loop"
    /\ UNCHANGED <<cap_, streaming_, frame_seq_>>

\* The condition of the loop.
KeepStreaming == streaming_          \* faulty: the flag of main() is not read
KeepGoing     == running /\ streaming_

LoopTurn ==
    /\ cap_pc = "loop"
    /\ KeepGoing
    /\ cap_pc' = "read"
    /\ UNCHANGED <<cap_, streaming_, frame_seq_>>

\* No frame, an empty one, or one that is not encoded: no number is used up.
ReadNothing ==
    /\ cap_pc = "read"
    /\ cap_pc' = "loop"
    /\ UNCHANGED <<cap_, streaming_, frame_seq_>>

\* A frame gets the next number and push() is called.
CaptureFrame ==
    /\ cap_pc = "read"
    /\ frame_seq_ < MaxFrames
    /\ frame_seq_' = frame_seq_ + 1
    /\ cap_pc' = "push"
    /\ UNCHANGED <<cap_, streaming_>>

\* push() returned; a refused frame is only logged.
PushReturns ==
    /\ cap_pc = "push"
    /\ cap_pc' = "loop"
    /\ UNCHANGED <<cap_, streaming_, frame_seq_>>

LoopExit ==
    /\ cap_pc = "loop"
    /\ ~KeepGoing
    /\ cap_pc' = "exited"
    /\ UNCHANGED <<cap_, streaming_, frame_seq_>>

\* ~CameraCapture(): stop() and the release of the device.
Destroy ==
    /\ streaming_' = FALSE
    /\ cap_' = FALSE
    /\ UNCHANGED <<frame_seq_, cap_pc>>
=============================================================================
