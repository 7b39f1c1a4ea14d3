------------------------------ MODULE RingQueue ------------------------------
(***************************************************************************)
(* The mmap-backed ring of src/ring_queue.cpp at the level of its          *)
(* critical sections.  One producer (the capture thread) calls push, the   *)
(* threads in Consumers call pop and frame_packet_free, and one thread     *)
(* (main) calls shutdown.                                                  *)
(*                                                                         *)
(* A frame is its sequence number.  A slot holds the number written into   *)
(* its SlotHeader and the number of the frame whose bytes were copied      *)
(* behind it, so a torn or overwritten slot is a visible state.  push()    *)
(* keeps the mutex over several steps, because a consumer reads the slot   *)
(* it holds and clears slot_in_use_ without the mutex; the critical        *)
(* sections of pop() and shutdown() touch nothing that is shared without   *)
(* it, and are one step each.                                              *)
(***************************************************************************)
EXTENDS Integers, Sequences, FiniteSets

CONSTANTS capacity,        \* number of slots
          max_frame_size,  \* longest payload a slot can hold
          Consumers,       \* threads that call pop()
          TimeoutKinds,    \* the values of timeout_ms callers use, by kind
          MaxFrames        \* bound: number of frames the capture thread numbers

\* What timeout_ms asks for: < 0, = 0 and > 0.
Infinite == "infinite"
NoWait   == "nowait"
Timed    == "timed"

ASSUME CapacityAssumption == capacity \in Nat \ {0}
ASSUME SizeAssumption     == max_frame_size \in Nat \ {0}
ASSUME FramesAssumption   == MaxFrames \in Nat
ASSUME TimeoutAssumption  == TimeoutKinds \subseteq {Infinite, NoWait, Timed}
ASSUME ThreadsAssumption  == IsFiniteSet(Consumers)

VARIABLES
    head_, tail_, count_,  \* ring cursors, guarded by mutex_
    slot,                  \* the mmap region: header and payload of each slot
    slot_in_use_,          \* atomic flag per slot
    mutex_,                \* held by push() between its steps, or not
    shutdown_,
    frames_pushed_, frames_dropped_, frames_popped_,
    frame_seq_,            \* CameraCapture::frame_seq_, numbers the frames
    push_pc, frame,        \* where push() is, and the frame it carries
    pop_pc, timeout_ms,    \* where pop() is in each consumer, and its argument
    pkt,                   \* the FramePacket of each consumer: slot and header
    shutdown_pc,           \* where shutdown() is
    \* History variables: they record, and no guard reads them.
    evicted,               \* frames dropped from the tail to make room
    last_popped            \* the frame popped last

ringVars  == <<head_, tail_, count_, slot, slot_in_use_, mutex_, shutdown_>>
statVars  == <<frames_pushed_, frames_dropped_, frames_popped_>>
pushVars  == <<frame_seq_, push_pc, frame>>
popVars   == <<pop_pc, timeout_ms, pkt>>
histVars  == <<evicted, last_popped>>
vars == <<ringVars, statVars, pushVars, popVars, shutdown_pc, histVars>>

NoFrame == -1
Slots   == 0 .. (capacity - 1)
NoPacket == [slot_idx |-> 0, seq |-> NoFrame]

\* The index k places after i in the ring, and the next one, to which push()
\* and pop() advance head_ and tail_.
Plus(i, k) == (i + k) % capacity
Advance(i) == Plus(i, 1)

\* The slot of the k-th oldest queued frame, k = 0 .. count_ - 1.
SlotAt(k) == Plus(tail_, k)

\* The guard at the top of push(): a frame with no bytes, or too many.
LegalLength(len) == len # 0 /\ len <= max_frame_size

Init ==
    /\ head_ = 0 /\ tail_ = 0 /\ count_ = 0
    /\ slot = [i \in Slots |-> [hdr |-> NoFrame, data |-> NoFrame]]
    /\ slot_in_use_ = [i \in Slots |-> FALSE]
    /\ mutex_ = FALSE
    /\ shutdown_ = FALSE
    /\ frames_pushed_ = 0 /\ frames_dropped_ = 0 /\ frames_popped_ = 0
    /\ frame_seq_ = 0
    /\ push_pc = "idle"
    /\ frame = NoFrame
    /\ pop_pc = [c \in Consumers |-> "idle"]
    /\ timeout_ms = [c \in Consumers |-> Infinite]
    /\ pkt = [c \in Consumers |-> NoPacket]
    /\ shutdown_pc = "idle"
    /\ evicted = 0
    /\ last_popped = NoFrame

-----------------------------------------------------------------------------
(* push(), called by the capture thread with the next frame number.        *)

\* An illegal length returns before the mutex is taken.
PushReject ==
    /\ push_pc = "idle" /\ frame_seq_ < MaxFrames
    /\ \E len \in 0 .. (max_frame_size + 1) : ~LegalLength(len)
    /\ frame_seq_' = frame_seq_ + 1
    /\ UNCHANGED <<ringVars, statVars, push_pc, frame, popVars, shutdown_pc, histVars>>

PushCall ==
    /\ push_pc = "idle" /\ frame_seq_ < MaxFrames
    /\ \E len \in 0 .. (max_frame_size + 1) : LegalLength(len)
    /\ frame' = frame_seq_
    /\ frame_seq_' = frame_seq_ + 1
    /\ push_pc' = "lock"
    /\ UNCHANGED <<ringVars, statVars, popVars, shutdown_pc, histVars>>

\* The caller gets false, and nothing is counted.
PushAfterShutdown ==
    /\ push_pc = "lock" /\ ~mutex_
    /\ shutdown_
    /\ push_pc' = "idle"
    /\ UNCHANGED <<ringVars, statVars, frame_seq_, frame, popVars, shutdown_pc, histVars>>

PushLockUnchecked ==   \* faulty: push() does not look at shutdown_
    /\ push_pc = "lock" /\ ~mutex_
    /\ mutex_' = TRUE
    /\ push_pc' = "evict"
    /\ UNCHANGED <<head_, tail_, count_, slot, slot_in_use_, shutdown_, statVars,
                   frame_seq_, frame, popVars, shutdown_pc, histVars>>

PushLock ==
    /\ push_pc = "lock" /\ ~mutex_
    /\ ~shutdown_
    /\ mutex_' = TRUE
    /\ push_pc' = "evict"
    /\ UNCHANGED <<head_, tail_, count_, slot, slot_in_use_, shutdown_, statVars,
                   frame_seq_, frame, popVars, shutdown_pc, histVars>>

\* The condition of the eviction loop, and the guard behind it.
FullOffByOne == count_ > capacity   \* faulty: `>' for `>='
Full         == count_ >= capacity

HeadUnguarded == FALSE              \* faulty: the guard is missing
HeadHeld      == slot_in_use_[head_]

DropUncounted == UNCHANGED frames_dropped_   \* faulty: the increment is missing
CountDrop     == frames_dropped_' = frames_dropped_ + 1

RefuseWaits ==   \* faulty: waits until the slot is freed
    UNCHANGED <<mutex_, push_pc>>

\* Unlock and leave; the drop is counted after the mutex is released.
RefuseFrame ==
    /\ mutex_' = FALSE
    /\ push_pc' = "refused"

\* One turn of the while loop: the tail slot is dropped unless it is held.
PushEvict ==
    /\ push_pc = "evict"
    /\ Full
    /\ IF slot_in_use_[tail_]
       THEN /\ RefuseFrame
            /\ UNCHANGED <<tail_, count_, frames_dropped_, evicted>>
       ELSE /\ tail_' = Advance(tail_)
            /\ count_' = count_ - 1
            /\ CountDrop
            /\ evicted' = evicted + 1
            /\ UNCHANGED <<mutex_, push_pc>>
    /\ UNCHANGED <<head_, slot, slot_in_use_, shutdown_, frames_pushed_, frames_popped_,
                   frame_seq_, frame, popVars, shutdown_pc, last_popped>>

\* There is room, but the slot under head_ may still be held by a consumer.
PushGuardHead ==
    /\ push_pc = "evict"
    /\ ~Full
    /\ IF HeadHeld
       THEN RefuseFrame
       ELSE push_pc' = "header" /\ UNCHANGED mutex_
    /\ UNCHANGED <<head_, tail_, count_, slot, slot_in_use_, shutdown_, statVars,
                   frame_seq_, frame, popVars, shutdown_pc, histVars>>

PushCountDrop ==
    /\ push_pc = "refused"
    /\ CountDrop
    /\ push_pc' = "idle"
    /\ UNCHANGED <<ringVars, frames_pushed_, frames_popped_, frame_seq_, frame,
                   popVars, shutdown_pc, histVars>>

PushWriteHeader ==
    /\ push_pc = "header"
    /\ slot' = [slot EXCEPT ![head_].hdr = frame]
    /\ push_pc' = "memcpy"
    /\ UNCHANGED <<head_, tail_, count_, slot_in_use_, mutex_, shutdown_, statVars,
                   frame_seq_, frame, popVars, shutdown_pc, histVars>>

PushCopyData ==
    /\ push_pc = "memcpy"
    /\ slot' = [slot EXCEPT ![head_].data = frame]
    /\ push_pc' = "publish"
    /\ UNCHANGED <<head_, tail_, count_, slot_in_use_, mutex_, shutdown_, statVars,
                   frame_seq_, frame, popVars, shutdown_pc, histVars>>

Waiters == {c \in Consumers : pop_pc[c] = "waiting"}

SignalWhenEmpty ==                 \* faulty: a signal only for the first frame
    IF Waiters = {} \/ count_ > 0
    THEN UNCHANGED pop_pc
    ELSE \E c \in Waiters : pop_pc' = [pop_pc EXCEPT ![c] = "woken"]

\* pthread_cond_signal: one waiter, if there is one, must take the mutex again.
CondSignal ==
    IF Waiters = {}
    THEN UNCHANGED pop_pc
    ELSE \E c \in Waiters : pop_pc' = [pop_pc EXCEPT ![c] = "woken"]

PushPublish ==
    /\ push_pc = "publish"
    /\ head_' = Advance(head_)
    /\ count_' = count_ + 1
    /\ frames_pushed_' = frames_pushed_ + 1
    /\ CondSignal
    /\ mutex_' = FALSE
    /\ push_pc' = "idle"
    /\ UNCHANGED <<tail_, slot, slot_in_use_, shutdown_, frames_dropped_, frames_popped_,
                   frame_seq_, frame, timeout_ms, pkt, shutdown_pc, histVars>>

-----------------------------------------------------------------------------
(* pop() and frame_packet_free(), called by consumer c.                    *)

PopCall(c) ==
    /\ pop_pc[c] = "idle"
    /\ \E k \in TimeoutKinds : timeout_ms' = [timeout_ms EXCEPT ![c] = k]
    /\ pop_pc' = [pop_pc EXCEPT ![c] = "lock"]
    /\ UNCHANGED <<ringVars, statVars, pushVars, pkt, shutdown_pc, histVars>>

\* c owns the mutex: it has just called pop(), or was woken inside it.
InPop(c) == pop_pc[c] \in {"lock", "woken"} /\ ~mutex_

\* The condition of both while loops.
PopWait(c) ==
    /\ InPop(c)
    /\ count_ = 0 /\ ~shutdown_ /\ timeout_ms[c] # NoWait
    /\ pop_pc' = [pop_pc EXCEPT ![c] = "waiting"]
    /\ UNCHANGED <<ringVars, statVars, pushVars, timeout_ms, pkt, shutdown_pc, histVars>>

\* Nothing queued, or a non-blocking pop() after shutdown().
PopEmpty(c) ==
    /\ InPop(c)
    /\ IF timeout_ms[c] = NoWait
       THEN count_ = 0 \/ shutdown_
       ELSE count_ = 0 /\ shutdown_
    /\ pop_pc' = [pop_pc EXCEPT ![c] = "idle"]
    /\ UNCHANGED <<ringVars, statVars, pushVars, timeout_ms, pkt, shutdown_pc, histVars>>

PopTakeTwice(c) ==   \* faulty: tail_ is not moved past the popped slot
    /\ InPop(c)
    /\ count_ > 0
    /\ timeout_ms[c] = NoWait => ~shutdown_
    /\ pkt' = [pkt EXCEPT ![c] = [slot_idx |-> tail_, seq |-> slot[tail_].hdr]]
    /\ slot_in_use_' = [slot_in_use_ EXCEPT ![tail_] = TRUE]
    /\ count_' = count_ - 1
    /\ frames_popped_' = frames_popped_ + 1
    /\ last_popped' = slot[tail_].hdr
    /\ pop_pc' = [pop_pc EXCEPT ![c] = "malloc"]
    /\ UNCHANGED <<head_, tail_, slot, mutex_, shutdown_, frames_pushed_, frames_dropped_,
                   pushVars, timeout_ms, shutdown_pc, evicted>>

\* The tail slot is marked as held before the mutex is released.
PopTake(c) ==
    /\ InPop(c)
    /\ count_ > 0
    /\ timeout_ms[c] = NoWait => ~shutdown_
    /\ pkt' = [pkt EXCEPT ![c] = [slot_idx |-> tail_, seq |-> slot[tail_].hdr]]
    /\ slot_in_use_' = [slot_in_use_ EXCEPT ![tail_] = TRUE]
    /\ tail_' = Advance(tail_)
    /\ count_' = count_ - 1
    /\ frames_popped_' = frames_popped_ + 1
    /\ last_popped' = slot[tail_].hdr
    /\ pop_pc' = [pop_pc EXCEPT ![c] = "malloc"]
    /\ UNCHANGED <<head_, slot, mutex_, shutdown_, frames_pushed_, frames_dropped_,
                   pushVars, timeout_ms, shutdown_pc, evicted>>

\* pthread_cond_timedwait returns ETIMEDOUT once it has the mutex again,
\* whatever was queued in the meantime.
PopTimeout(c) ==
    /\ pop_pc[c] = "waiting" /\ timeout_ms[c] = Timed
    /\ pop_pc' = [pop_pc EXCEPT ![c] = "timedout"]
    /\ UNCHANGED <<ringVars, statVars, pushVars, timeout_ms, pkt, shutdown_pc, histVars>>

PopTimedOutRetries(c) ==   \* faulty: ETIMEDOUT is not told from a wake-up
    /\ pop_pc[c] = "timedout" /\ ~mutex_
    /\ pop_pc' = [pop_pc EXCEPT ![c] = "woken"]
    /\ UNCHANGED <<ringVars, statVars, pushVars, timeout_ms, pkt, shutdown_pc, histVars>>

PopTimedOut(c) ==
    /\ pop_pc[c] = "timedout" /\ ~mutex_
    /\ pop_pc' = [pop_pc EXCEPT ![c] = "idle"]
    /\ UNCHANGED <<ringVars, statVars, pushVars, timeout_ms, pkt, shutdown_pc, histVars>>

\* A condition wait may return without a signal.
SpuriousWakeup(c) ==
    /\ pop_pc[c] = "waiting"
    /\ pop_pc' = [pop_pc EXCEPT ![c] = "woken"]
    /\ UNCHANGED <<ringVars, statVars, pushVars, timeout_ms, pkt, shutdown_pc, histVars>>

\* The packet is allocated outside the critical section.
PopBuild(c) ==
    /\ pop_pc[c] = "malloc"
    /\ pop_pc' = [pop_pc EXCEPT ![c] = "holding"]
    /\ UNCHANGED <<ringVars, statVars, pushVars, timeout_ms, pkt, shutdown_pc, histVars>>

\* releaseSlot(): the flag is cleared without the mutex.
ReleaseSlot(c) ==
    /\ slot_in_use_' = [slot_in_use_ EXCEPT ![pkt[c].slot_idx] = FALSE]
    /\ pkt' = [pkt EXCEPT ![c] = NoPacket]
    /\ pop_pc' = [pop_pc EXCEPT ![c] = "idle"]
    /\ UNCHANGED <<head_, tail_, count_, slot, mutex_, shutdown_, statVars, pushVars,
                   timeout_ms, shutdown_pc, histVars>>

\* malloc failed: the frame is lost although it was counted as popped.
PopBuildFails(c) == pop_pc[c] = "malloc" /\ ReleaseSlot(c)

\* frame_packet_free() and ~FramePacket().
FreePacket(c) == pop_pc[c] = "holding" /\ ReleaseSlot(c)

-----------------------------------------------------------------------------
(* shutdown(), called by the main thread: the flag is set under the mutex  *)
(* and the waiters are woken after it is released.                         *)

ShutdownSetFlag ==
    /\ shutdown_pc = "idle" /\ ~mutex_
    /\ shutdown_' = TRUE
    /\ shutdown_pc' = "broadcast"
    /\ UNCHANGED <<head_, tail_, count_, slot, slot_in_use_, mutex_, statVars,
                   pushVars, popVars, histVars>>

BroadcastMissing == UNCHANGED pop_pc   \* faulty: nobody is woken

\* pthread_cond_broadcast: every waiter must take the mutex again.
CondBroadcast ==
    pop_pc' = [c \in Consumers |-> IF c \in Waiters THEN "woken" ELSE pop_pc[c]]

ShutdownBroadcast ==
    /\ shutdown_pc = "broadcast"
    /\ CondBroadcast
    /\ shutdown_pc' = "done"
    /\ UNCHANGED <<ringVars, statVars, pushVars, timeout_ms, pkt, histVars>>

-----------------------------------------------------------------------------
Push ==
    \/ PushReject \/ PushCall \/ PushAfterShutdown \/ PushLock
    \/ PushEvict \/ PushGuardHead \/ PushCountDrop
    \/ PushWriteHeader \/ PushCopyData \/ PushPublish

Pop(c) ==
    \/ PopCall(c) \/ PopWait(c) \/ PopEmpty(c) \/ PopTake(c)
    \/ PopTimeout(c) \/ PopTimedOut(c) \/ SpuriousWakeup(c)
    \/ PopBuild(c) \/ PopBuildFails(c) \/ FreePacket(c)

Shutdown == ShutdownSetFlag \/ ShutdownBroadcast

Next ==
    \/ Push
    \/ \E c \in Consumers : Pop(c)
    \/ Shutdown

Spec == Init /\ [][Next]_vars

-----------------------------------------------------------------------------
(* Fairness.  A thread inside push(), pop() or shutdown() keeps running,   *)
(* and gets the mutex, whose critical sections are short.  No thread has   *)
(* to call the queue again, and no consumer has to free its packet.  The   *)
(* deadline of a timed wait is computed once, before the loop, so that it  *)
(* expires even if the wait is woken over and over: strong fairness.       *)

PushStep ==
    \/ PushAfterShutdown \/ PushLock \/ PushEvict \/ PushGuardHead \/ PushCountDrop
    \/ PushWriteHeader \/ PushCopyData \/ PushPublish

PopStep(c) ==
    \/ PopWait(c) \/ PopEmpty(c) \/ PopTake(c) \/ PopTimedOut(c)
    \/ PopBuild(c) \/ PopBuildFails(c)

Fairness ==
    /\ WF_vars(PushStep)
    /\ WF_vars(ShutdownBroadcast)
    /\ \A c \in Consumers : WF_vars(PopStep(c)) /\ SF_vars(PopTimeout(c))

FairSpec == Spec /\ Fairness

-----------------------------------------------------------------------------
(* Properties.                                                             *)

PushPC == {"idle", "lock", "evict", "refused", "header", "memcpy", "publish"}
PopPC  == {"idle", "lock", "waiting", "woken", "timedout", "malloc", "holding"}
Packet == [slot_idx : Slots, seq : Int]

\* Every variable of the queue, of push(), pop() and shutdown() has its type.
TypeOK ==
    /\ head_ \in Slots /\ tail_ \in Slots
    /\ count_ \in 0 .. capacity
    /\ slot \in [Slots -> [hdr : Int, data : Int]]
    /\ slot_in_use_ \in [Slots -> BOOLEAN]
    /\ mutex_ \in BOOLEAN
    /\ shutdown_ \in BOOLEAN
    /\ frames_pushed_ \in Nat /\ frames_dropped_ \in Nat /\ frames_popped_ \in Nat
    /\ frame_seq_ \in 0 .. MaxFrames
    /\ push_pc \in PushPC
    /\ frame \in Int
    /\ pop_pc \in [Consumers -> PopPC]
    /\ timeout_ms \in [Consumers -> {Infinite, NoWait, Timed}]
    /\ pkt \in [Consumers -> Packet]
    /\ shutdown_pc \in {"idle", "broadcast", "done"}
    /\ evicted \in Nat
    /\ last_popped \in Int

\* Consumer c has popped a frame that it has not freed yet.
Holds(c) == pop_pc[c] \in {"malloc", "holding"}

\* The zero-copy promise of pop(): as long as a consumer has not freed its
\* packet, the slot behind it holds the header it was given and the bytes of
\* that same frame, whatever push() does; and no two packets share a slot.
HeldFramesIntact ==
    \A c \in Consumers : Holds(c) =>
        /\ slot[pkt[c].slot_idx] = [hdr |-> pkt[c].seq, data |-> pkt[c].seq]
        /\ \A d \in Consumers :
              Holds(d) /\ pkt[d].slot_idx = pkt[c].slot_idx => d = c

\* What pop() will hand out next: every queued slot has a header and a payload
\* of the same frame, is held by nobody, and the frames are in capture order
\* from tail_ to head_, all newer than the frame popped last.
QueueInOrder ==
    \A k \in 0 .. (count_ - 1) :
        /\ slot[SlotAt(k)].hdr = slot[SlotAt(k)].data
        /\ ~slot_in_use_[SlotAt(k)]
        /\ slot[SlotAt(k)].hdr > last_popped
        /\ \A j \in 0 .. (k - 1) : slot[SlotAt(j)].hdr < slot[SlotAt(k)].hdr

\* No frame vanishes between the counters of getStats(): a pushed frame was
\* popped, is queued, or was evicted and counted as dropped; and no frame number
\* is counted both as pushed and as refused.
FramesAccounted ==
    /\ frames_pushed_ = frames_popped_ + count_ + evicted
    /\ evicted <= frames_dropped_
    /\ frames_pushed_ + (frames_dropped_ - evicted) <= frame_seq_

\* Queued and held frames together fit the ring: when all slots are queued no
\* slot is held, so push() never finds its tail slot in use.
SlotsBound ==
    count_ + Cardinality({c \in Consumers : Holds(c)}) <= capacity

\* While a consumer sleeps in pop(), there are at least as many woken consumers
\* as queued frames: signalling one waiter per push() loses no wake-up.
NoLostWakeup ==
    (\E c \in Consumers : pop_pc[c] = "waiting")
        => count_ <= Cardinality({c \in Consumers : pop_pc[c] = "woken"})

\* Each time pop() hands out a frame, to whichever consumer, it is newer than
\* the one handed out before it, and so not the same one again: the network thread can never send a frame twice or an older one
\* after a newer one.
InOrderDelivery ==
    [][frames_popped_' # frames_popped_ => last_popped' > last_popped]_vars

\* shutdown() ends every wait, including one with timeout_ms < 0 that started
\* while shutdown() was running.
ShutdownEndsWaits ==
    \A c \in Consumers :
        shutdown_ /\ pop_pc[c] = "waiting" ~> pop_pc[c] \in {"idle", "malloc"}

\* pop() with timeout_ms > 0, which the network thread uses to look at the
\* running flag once a second, returns.
TimedPopReturns ==
    \A c \in Consumers :
        pop_pc[c] = "lock" /\ timeout_ms[c] = Timed ~> pop_pc[c] \in {"idle", "holding"}

\* push() comes back, whether the ring is full, held or shut down: the capture
\* thread never blocks.
PushReturns == push_pc # "idle" ~> push_pc = "idle"

\* The policy of ring_queue.hpp: a frame of legal length that is pushed before
\* shutdown is queued, at the cost of the oldest one when the ring is full.
NewestFrameKept == push_pc # "refused"

-----------------------------------------------------------------------------
(* The inductive invariant behind these properties.                        *)

\* push() owns the mutex from the shutdown check to the publication, the frame
\* it carries is the newest one, and the slot under head_ is free from the
\* moment it was found so, and filled step by step.
PushInv ==
    /\ mutex_ <=> push_pc \in {"evict", "header", "memcpy", "publish"}
    /\ push_pc \notin {"idle", "refused"} =>
          /\ frame = frame_seq_ - 1 /\ frame > last_popped
          /\ \A k \in 0 .. (count_ - 1) : slot[SlotAt(k)].hdr < frame
    /\ push_pc = "refused" => frame_seq_ > 0
    /\ push_pc \in {"header", "memcpy", "publish"} =>
          count_ < capacity /\ ~slot_in_use_[head_]
    /\ push_pc \in {"memcpy", "publish"} => slot[head_].hdr = frame
    /\ push_pc = "publish" => slot[head_].data = frame

\* The cursors agree with the count, and no frame is numbered past frame_seq_.
CursorInv ==
    /\ head_ = SlotAt(count_)
    /\ last_popped < frame_seq_ /\ last_popped >= NoFrame
    /\ \A k \in 0 .. (count_ - 1) : slot[SlotAt(k)].hdr < frame_seq_

\* The in-use flag of a slot is set exactly while some consumer holds it.
InUseInv ==
    /\ \A c \in Consumers : Holds(c) => slot_in_use_[pkt[c].slot_idx] /\ pkt[c].seq >= 0
    /\ \A i \in Slots : slot_in_use_[i] =>
          \E c \in Consumers : Holds(c) /\ pkt[c].slot_idx = i

\* FramesAccounted, with the frame that push() has not counted yet.
CountInv ==
    /\ frames_pushed_ = frames_popped_ + count_ + evicted
    /\ evicted <= frames_dropped_
    /\ frames_pushed_ + (frames_dropped_ - evicted) + (IF push_pc = "idle" THEN 0 ELSE 1)
          <= frame_seq_

IInv ==
    /\ TypeOK /\ PushInv /\ CursorInv /\ InUseInv /\ CountInv
    /\ QueueInOrder /\ HeldFramesIntact

\* What NoLostWakeup and the refinement add: shutdown() waits for push() to leave its
\* critical section, and only a pop() that may wait was ever woken.
WakeInv ==
    /\ mutex_ => ~shutdown_
    /\ \A c \in Consumers : pop_pc[c] \in {"waiting", "woken"} => timeout_ms[c] # NoWait
    /\ NoLostWakeup

-----------------------------------------------------------------------------
(* The ring implements the channel of FrameChannel.tla.                    *)

\* The queued frames, the frame being pushed, and what each consumer holds.
queueBar == [i \in 1 .. count_ |-> slot[SlotAt(i - 1)].hdr]
offerBar == IF push_pc \in {"idle", "refused"} THEN NoFrame ELSE frame
heldBar  == [c \in Consumers |-> IF Holds(c) THEN pkt[c].seq ELSE NoFrame]

Channel == INSTANCE FrameChannel WITH
    queue     <- queueBar,
    offer     <- offerBar,
    next_seq  <- frame_seq_,
    held      <- heldBar,
    delivered <- last_popped,
    closed    <- shutdown_

\* Every behaviour of the ring, with its slots, flags and mutex, is one of the
\* bounded in-order channel: it refuses a frame only when closed or while a
\* consumer holds one, and drops only the oldest.
ImplementsChannel == Channel!Spec
=============================================================================
