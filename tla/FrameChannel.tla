---------------------------- MODULE FrameChannel ----------------------------
(***************************************************************************)
(* What the frame queue promises to the capture and the network thread,    *)
(* without slots, indices, flags or locks: a bounded, lossy, in-order      *)
(* channel.  The capture thread offers frames numbered 0, 1, 2, ...  An    *)
(* offered frame is accepted at the back of the channel, possibly after    *)
(* the oldest frame was evicted, or it is refused.  It may be refused only *)
(* once the channel is closed or while a consumer holds a frame.  A        *)
(* consumer takes the oldest frame, holds it, and releases it.             *)
(*                                                                         *)
(* RingQueue.tla is shown to implement this specification.                 *)
(***************************************************************************)
EXTENDS Integers, Sequences

CONSTANTS capacity,   \* RingQueue::capacity_
          Consumers,  \* threads that call RingQueue::pop
          MaxFrames   \* bound: number of frames the capture thread numbers

VARIABLES queue,      \* accepted frames, oldest first
          offer,      \* the frame being pushed, or NoFrame
          next_seq,   \* CameraCapture::frame_seq_
          held,       \* held[c]: the frame consumer c has taken, or NoFrame
          delivered,  \* the last frame taken by any consumer, or NoFrame
          closed      \* RingQueue::shutdown_

chanVars == <<queue, offer, next_seq, held, delivered, closed>>

NoFrame == -1
Frame   == 0 .. (MaxFrames - 1)

Init ==
    /\ queue = <<>>
    /\ offer = NoFrame
    /\ next_seq = 0
    /\ held = [c \in Consumers |-> NoFrame]
    /\ delivered = NoFrame
    /\ closed = FALSE

\* The capture thread numbers a frame and starts to push it.
Offer ==
    /\ offer = NoFrame
    /\ next_seq < MaxFrames
    /\ offer' = next_seq
    /\ next_seq' = next_seq + 1
    /\ UNCHANGED <<queue, held, delivered, closed>>

\* A frame of illegal length gets a number but is never offered.
Skip ==
    /\ offer = NoFrame
    /\ next_seq < MaxFrames
    /\ next_seq' = next_seq + 1
    /\ UNCHANGED <<queue, offer, held, delivered, closed>>

EvictMissing == FALSE   \* faulty: a full channel stays full

\* The channel is full: the oldest frame makes room for the offered one.
Evict ==
    /\ offer # NoFrame
    /\ ~closed
    /\ Len(queue) = capacity
    /\ queue' = Tail(queue)
    /\ UNCHANGED <<offer, next_seq, held, delivered, closed>>

AcceptInFront ==   \* faulty: the new frame is taken before older ones
    /\ offer # NoFrame
    /\ ~closed
    /\ Len(queue) < capacity
    /\ queue' = <<offer>> \o queue
    /\ offer' = NoFrame
    /\ UNCHANGED <<next_seq, held, delivered, closed>>

Accept ==
    /\ offer # NoFrame
    /\ ~closed
    /\ Len(queue) < capacity
    /\ queue' = Append(queue, offer)
    /\ offer' = NoFrame
    /\ UNCHANGED <<next_seq, held, delivered, closed>>

Refuse ==
    /\ offer # NoFrame
    /\ closed \/ \E c \in Consumers : held[c] # NoFrame
    /\ offer' = NoFrame
    /\ UNCHANGED <<queue, next_seq, held, delivered, closed>>

Take(c) ==
    /\ held[c] = NoFrame
    /\ queue # <<>>
    /\ held' = [held EXCEPT ![c] = Head(queue)]
    /\ delivered' = Head(queue)
    /\ queue' = Tail(queue)
    /\ UNCHANGED <<offer, next_seq, closed>>

Release(c) ==
    /\ held[c] # NoFrame
    /\ held' = [held EXCEPT ![c] = NoFrame]
    /\ UNCHANGED <<queue, offer, next_seq, delivered, closed>>

Close ==
    /\ closed' = TRUE
    /\ UNCHANGED <<queue, offer, next_seq, held, delivered>>

Next ==
    \/ Offer \/ Skip \/ Evict \/ Accept \/ Refuse \/ Close
    \/ \E c \in Consumers : Take(c) \/ Release(c)

Spec == Init /\ [][Next]_chanVars
=============================================================================
