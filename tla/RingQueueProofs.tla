--------------------------- MODULE RingQueueProofs ---------------------------
(***************************************************************************)
(* Proofs about RingQueue.tla, for every capacity, number of consumers and *)
(* number of frames.  IInv is shown to be inductive, one step per action.  *)
(* The facts about the ring's index arithmetic are proved once, and Plus   *)
(* stays unexpanded in the invariance proof.                               *)
(***************************************************************************)
EXTENDS RingQueue, FiniteSetTheorems, SequenceTheorems, TLAPS

-----------------------------------------------------------------------------
(* Index arithmetic modulo capacity.                                       *)

\* push() and pop() keep head_ and tail_ inside slot_in_use_[0 .. capacity_-1].
LEMMA PlusInSlots ==
    ASSUME NEW t \in Slots, NEW k \in 0 .. capacity
    PROVE  Plus(t, k) \in Slots
BY CapacityAssumption, SMT DEF Plus, Slots

\* Zero places after t is t: the oldest frame is in the slot tail_.
LEMMA PlusZero ==
    ASSUME NEW t \in Slots
    PROVE  Plus(t, 0) = t
BY CapacityAssumption, SMT DEF Plus, Slots

\* When pop() or the eviction loop advances tail_, the k-th oldest frame is
\* the one that was the (k+1)-th.
LEMMA PlusShift ==
    ASSUME NEW t \in Slots, NEW k \in 0 .. (capacity - 1)
    PROVE  Plus(Advance(t), k) = Plus(t, k + 1)
<1>1. Advance(t) = IF t + 1 < capacity THEN t + 1 ELSE 0
  BY CapacityAssumption, SMT DEF Advance, Plus, Slots
<1> QED
  BY <1>1, CapacityAssumption, SMT DEF Plus, Slots

\* push() writes behind the newest frame.
LEMMA AdvancePlus ==
    ASSUME NEW t \in Slots, NEW k \in 0 .. (capacity - 1)
    PROVE  Advance(Plus(t, k)) = Plus(t, k + 1)
<1>1. Plus(t, k) = IF t + k < capacity THEN t + k ELSE t + k - capacity
  BY CapacityAssumption, SMT DEF Plus, Slots
<1>2. Plus(t, k + 1) = IF t + k + 1 < capacity THEN t + k + 1 ELSE t + k + 1 - capacity
  BY CapacityAssumption, SMT DEF Plus, Slots
<1> QED
  BY <1>1, <1>2, CapacityAssumption, SMT DEF Advance, Plus, Slots

\* Distinct queue positions are distinct slots as long as the ring is not full.
LEMMA PlusInjective ==
    ASSUME NEW t \in Slots, NEW j \in 0 .. (capacity - 1), NEW k \in 0 .. (capacity - 1),
           Plus(t, j) = Plus(t, k)
    PROVE  j = k
<1>1. Plus(t, k) = IF t + k < capacity THEN t + k ELSE t + k - capacity
  BY CapacityAssumption, SMT DEF Plus, Slots
<1>2. Plus(t, j) = IF t + j < capacity THEN t + j ELSE t + j - capacity
  BY CapacityAssumption, SMT DEF Plus, Slots
<1> QED
  BY <1>1, <1>2, CapacityAssumption, SMT DEF Slots

\* No queued frame lies in the slot under head_ while there is room.
LEMMA HeadNotQueued ==
    ASSUME TypeOK, CursorInv, count_ < capacity, NEW k \in 0 .. (count_ - 1)
    PROVE  /\ SlotAt(k) \in Slots
           /\ SlotAt(k) # head_
<1>1. /\ tail_ \in Slots /\ count_ \in 0 .. capacity
      /\ head_ = Plus(tail_, count_)
  BY DEF TypeOK, CursorInv, SlotAt
<1>2. k \in 0 .. (capacity - 1) /\ count_ \in 0 .. (capacity - 1) /\ k # count_
  BY <1>1, CapacityAssumption
<1>3. Plus(tail_, k) # Plus(tail_, count_)
  BY <1>1, <1>2, PlusInjective
<1>4. k \in 0 .. capacity
  BY <1>2, CapacityAssumption
<1> QED
  BY <1>1, <1>3, <1>4, PlusInSlots DEF SlotAt

\* The slots of queued frames are slots of the ring, with a number in them.
LEMMA QueuedHeaders ==
    ASSUME TypeOK
    PROVE  \A k \in 0 .. (count_ - 1) : SlotAt(k) \in Slots /\ slot[SlotAt(k)].hdr \in Int
<1>1. \A k \in 0 .. (count_ - 1) : SlotAt(k) \in Slots
  BY CapacityAssumption, PlusInSlots DEF SlotAt, TypeOK
<1> QED
  BY <1>1 DEF TypeOK

-----------------------------------------------------------------------------
(* Init and the steps that leave the ring alone.                           *)

\* The constructed queue satisfies the inductive invariant.
LEMMA InitIInv == Init => IInv
<1> SUFFICES ASSUME Init PROVE IInv
  OBVIOUS
<1>0. 0 \in Slots /\ NoFrame \in Int
  BY CapacityAssumption DEF Slots, NoFrame
<1>1. TypeOK
  <2>1. /\ head_ \in Slots /\ tail_ \in Slots /\ count_ \in 0 .. capacity
        /\ frame_seq_ \in 0 .. MaxFrames /\ frame \in Int
        /\ frames_pushed_ \in Nat /\ frames_dropped_ \in Nat /\ frames_popped_ \in Nat
        /\ evicted \in Nat /\ last_popped \in Int
    BY <1>0, CapacityAssumption, FramesAssumption DEF Init
  <2>2. /\ slot \in [Slots -> [hdr : Int, data : Int]]
        /\ slot_in_use_ \in [Slots -> BOOLEAN]
    BY <1>0 DEF Init
  <2>3. mutex_ \in BOOLEAN /\ shutdown_ \in BOOLEAN
    BY DEF Init
  <2>4. /\ push_pc \in PushPC /\ shutdown_pc \in {"idle", "broadcast", "done"}
        /\ pop_pc \in [Consumers -> PopPC]
        /\ timeout_ms \in [Consumers -> {Infinite, NoWait, Timed}]
    BY DEF Init, PushPC, PopPC
  <2>5. pkt \in [Consumers -> Packet]
    BY <1>0 DEF Init, NoPacket, Packet
  <2> QED
    BY <2>1, <2>2, <2>3, <2>4, <2>5 DEF TypeOK
<1>2. head_ = SlotAt(count_)
  BY PlusZero, <1>1 DEF Init, SlotAt, TypeOK
<1>3. PushInv /\ CursorInv /\ CountInv /\ QueueInOrder
  BY <1>2 DEF Init, PushInv, CursorInv, CountInv, QueueInOrder, NoFrame
<1>4. InUseInv /\ HeldFramesIntact
  BY DEF Init, InUseInv, HeldFramesIntact, Holds
<1> QED
  BY <1>1, <1>3, <1>4 DEF IInv

\* A step that moves consumers between states in which they hold nothing, or
\* the main thread through shutdown(), keeps the invariant.
LEMMA WaitingIInv ==
    ASSUME IInv,
           UNCHANGED <<head_, tail_, count_, slot, slot_in_use_, mutex_>>,
           shutdown_' \in BOOLEAN,
           UNCHANGED <<statVars, pushVars, pkt, histVars>>,
           pop_pc' \in [Consumers -> PopPC],
           timeout_ms' \in [Consumers -> {Infinite, NoWait, Timed}],
           shutdown_pc' \in {"idle", "broadcast", "done"},
           \A c \in Consumers : Holds(c)' <=> Holds(c)
    PROVE  IInv'
<1> USE DEF IInv, statVars, pushVars, histVars
<1>1. TypeOK'
  BY DEF TypeOK
<1>2. PushInv' /\ CursorInv' /\ CountInv' /\ QueueInOrder'
  BY DEF PushInv, CursorInv, CountInv, QueueInOrder, SlotAt
<1>3. InUseInv'
  BY DEF InUseInv
<1>4. HeldFramesIntact'
  BY DEF HeldFramesIntact
<1> QED
  BY <1>1, <1>2, <1>3, <1>4

-----------------------------------------------------------------------------
(* push().                                                                 *)

\* A step of push() that changes neither the cursors nor the slots leaves what
\* is said of queued and held frames as it is.
LEMMA RingUntouched ==
    ASSUME IInv,
           UNCHANGED <<tail_, count_, slot, slot_in_use_, last_popped, popVars>>
    PROVE  QueueInOrder' /\ HeldFramesIntact' /\ InUseInv'
<1> USE DEF IInv, popVars
<1>1. QueueInOrder'
  BY DEF QueueInOrder, SlotAt
<1>2. HeldFramesIntact' /\ InUseInv'
  BY DEF HeldFramesIntact, InUseInv, Holds
<1> QED
  BY <1>1, <1>2

\* Every step of push(), taken by the capture thread.
LEMMA PushIInv == IInv /\ Push => IInv'
<1> SUFFICES ASSUME IInv, Push PROVE IInv'
  OBVIOUS
<1> USE DEF Full, HeadHeld, CountDrop, ringVars, statVars, pushVars, popVars, histVars
<1>a. TypeOK /\ PushInv /\ CursorInv /\ InUseInv /\ CountInv /\ QueueInOrder /\ HeldFramesIntact
  BY DEF IInv
<1>b. SUFFICES /\ TypeOK' /\ PushInv' /\ CursorInv' /\ CountInv'
               /\ QueueInOrder' /\ HeldFramesIntact' /\ InUseInv'
  BY DEF IInv
<1>c. frame_seq_ \in Nat /\ frame \in Int /\ last_popped \in Int
  BY <1>a, FramesAssumption DEF TypeOK
<1>d. \A k \in 0 .. (count_ - 1) : SlotAt(k) \in Slots /\ slot[SlotAt(k)].hdr \in Int
  BY <1>a, QueuedHeaders
<1>1. CASE PushReject
  <2>1. TypeOK'
    BY <1>1, <1>a, FramesAssumption DEF PushReject, TypeOK
  <2>2. PushInv' /\ CountInv'
    BY <1>1, <1>a DEF PushReject, PushInv, CountInv, TypeOK
  <2>3. CursorInv'
    BY <1>1, <1>a, <1>c, <1>d DEF PushReject, CursorInv, SlotAt
  <2> QED
    BY <1>1, <2>1, <2>2, <2>3, RingUntouched DEF PushReject
<1>2. CASE PushCall
  <2>1. TypeOK'
    BY <1>2, <1>a, FramesAssumption DEF PushCall, TypeOK, PushPC
  <2>2. PushInv'
    BY <1>2, <1>a, <1>c DEF PushCall, PushInv, CursorInv, SlotAt, TypeOK
  <2>3. CursorInv' /\ CountInv'
    BY <1>2, <1>a, <1>c, <1>d DEF PushCall, CursorInv, CountInv, SlotAt, TypeOK
  <2> QED
    BY <1>2, <2>1, <2>2, <2>3, RingUntouched DEF PushCall
<1>3. CASE PushAfterShutdown
  <2>1. TypeOK'
    BY <1>3, <1>a DEF PushAfterShutdown, TypeOK, PushPC
  <2>2. PushInv'
    BY <1>3, <1>a DEF PushAfterShutdown, PushInv
  <2>3. CursorInv' /\ CountInv'
    BY <1>3, <1>a, <1>c DEF PushAfterShutdown, CursorInv, CountInv, SlotAt, TypeOK
  <2> QED
    BY <1>3, <2>1, <2>2, <2>3, RingUntouched DEF PushAfterShutdown
<1>4. CASE PushLock
  <2>1. TypeOK'
    BY <1>4, <1>a DEF PushLock, TypeOK, PushPC
  <2>2. PushInv'
    BY <1>4, <1>a DEF PushLock, PushInv, SlotAt
  <2>3. CursorInv' /\ CountInv'
    BY <1>4, <1>a DEF PushLock, CursorInv, CountInv, SlotAt
  <2> QED
    BY <1>4, <2>1, <2>2, <2>3, RingUntouched DEF PushLock
<1>6. CASE PushGuardHead
  <2>1. TypeOK'
    BY <1>6, <1>a DEF PushGuardHead, RefuseFrame, TypeOK, PushPC
  <2>2. PushInv'
    <3>1. CASE slot_in_use_[head_]
      BY <1>6, <1>a, <1>c, <3>1 DEF PushGuardHead, RefuseFrame, PushInv, CursorInv, NoFrame
    <3>2. CASE ~slot_in_use_[head_]
      BY <1>6, <1>a, <3>2, CapacityAssumption DEF PushGuardHead, PushInv, SlotAt, TypeOK
    <3> QED
      BY <3>1, <3>2
  <2>3. CursorInv' /\ CountInv'
    BY <1>6, <1>a DEF PushGuardHead, RefuseFrame, CursorInv, CountInv, SlotAt
  <2> QED
    BY <1>6, <2>1, <2>2, <2>3, RingUntouched DEF PushGuardHead
<1>7. CASE PushCountDrop
  <2>1. TypeOK'
    BY <1>7, <1>a DEF PushCountDrop, TypeOK, PushPC
  <2>2. PushInv'
    BY <1>7, <1>a DEF PushCountDrop, PushInv
  <2>3. CursorInv' /\ CountInv'
    BY <1>7, <1>a DEF PushCountDrop, CursorInv, CountInv, SlotAt, TypeOK
  <2> QED
    BY <1>7, <2>1, <2>2, <2>3, RingUntouched DEF PushCountDrop
<1>8. CASE PushWriteHeader
  <2>1. TypeOK'
    BY <1>8, <1>a DEF PushWriteHeader, TypeOK, PushPC
  <2>2. \A k \in 0 .. (count_ - 1) : SlotAt(k)' = SlotAt(k) /\ slot'[SlotAt(k)] = slot[SlotAt(k)]
    BY <1>8, <1>a, HeadNotQueued DEF PushWriteHeader, PushInv, TypeOK, SlotAt
  <2>3. \A i \in Slots : slot_in_use_[i] => slot'[i] = slot[i]
    BY <1>8, <1>a DEF PushWriteHeader, PushInv, TypeOK
  <2>4. PushInv'
    BY <1>8, <1>a, <2>2 DEF PushWriteHeader, PushInv, TypeOK
  <2>5. CursorInv' /\ CountInv'
    BY <1>8, <1>a, <2>2 DEF PushWriteHeader, CursorInv, CountInv, SlotAt
  <2>6. QueueInOrder'
    BY <1>8, <1>a, <2>2 DEF PushWriteHeader, QueueInOrder, TypeOK
  <2>7. HeldFramesIntact' /\ InUseInv'
    BY <1>8, <1>a, <2>3 DEF PushWriteHeader, HeldFramesIntact, InUseInv, Holds, TypeOK, Packet
  <2> QED
    BY <2>1, <2>4, <2>5, <2>6, <2>7
<1>9. CASE PushCopyData
  <2>1. TypeOK'
    BY <1>9, <1>a DEF PushCopyData, TypeOK, PushPC
  <2>2. \A k \in 0 .. (count_ - 1) : SlotAt(k)' = SlotAt(k) /\ slot'[SlotAt(k)] = slot[SlotAt(k)]
    BY <1>9, <1>a, HeadNotQueued DEF PushCopyData, PushInv, TypeOK, SlotAt
  <2>3. \A i \in Slots : slot_in_use_[i] => slot'[i] = slot[i]
    BY <1>9, <1>a DEF PushCopyData, PushInv, TypeOK
  <2>4. PushInv'
    BY <1>9, <1>a, <2>2 DEF PushCopyData, PushInv, TypeOK
  <2>5. CursorInv' /\ CountInv'
    BY <1>9, <1>a, <2>2 DEF PushCopyData, CursorInv, CountInv, SlotAt
  <2>6. QueueInOrder'
    BY <1>9, <1>a, <2>2 DEF PushCopyData, QueueInOrder, TypeOK
  <2>7. HeldFramesIntact' /\ InUseInv'
    BY <1>9, <1>a, <2>3 DEF PushCopyData, HeldFramesIntact, InUseInv, Holds, TypeOK, Packet
  <2> QED
    BY <2>1, <2>4, <2>5, <2>6, <2>7
<1>5. CASE PushEvict
  \* A full ring has no held slot, so the tail slot is always given up.
  <2>1. count_ = capacity /\ count_ \in Nat /\ count_ > 0 /\ tail_ \in Slots
    BY <1>5, <1>a, CapacityAssumption DEF PushEvict, TypeOK
  <2>2. SlotAt(0) = tail_
    BY <2>1, PlusZero DEF SlotAt
  <2>3. ~slot_in_use_[tail_]
    BY <1>a, <2>1, <2>2 DEF QueueInOrder
  <2>4. /\ tail_' = Advance(tail_) /\ count_' = count_ - 1
        /\ frames_dropped_' = frames_dropped_ + 1 /\ evicted' = evicted + 1
        /\ UNCHANGED <<mutex_, push_pc>>
    BY <1>5, <2>3 DEF PushEvict
  <2>5. /\ tail_' \in Slots
        /\ \A k \in 0 .. (count_ - 1) : Plus(tail_', k) = SlotAt(k + 1)
    BY <2>1, <2>4, CapacityAssumption, PlusInSlots, PlusShift DEF SlotAt, Advance
  <2>6. \A k \in 0 .. (count_' - 1) : k + 1 \in 0 .. (count_ - 1) /\ SlotAt(k)' = SlotAt(k + 1)
    BY <2>1, <2>4, <2>5 DEF SlotAt
  <2>7. TypeOK'
    BY <1>5, <1>a, <2>1, <2>4, <2>5 DEF PushEvict, TypeOK
  <2>8. PushInv'
    BY <1>5, <1>a, <2>4, <2>6 DEF PushEvict, PushInv
  <2>9. CursorInv' /\ CountInv'
    <3>1. Plus(tail_', count_ - 1) = SlotAt(count_)
      BY <2>1, <2>5
    <3>2. (head_ = SlotAt(count_))'
      BY <1>5, <1>a, <2>4, <3>1 DEF PushEvict, CursorInv, SlotAt
    <3>3. \A k \in 0 .. (count_' - 1) : (slot[SlotAt(k)].hdr < frame_seq_)'
      BY <1>5, <1>a, <2>6 DEF PushEvict, CursorInv
    <3>4. CursorInv'
      BY <1>5, <1>a, <3>2, <3>3 DEF PushEvict, CursorInv
    <3>5. CountInv'
      BY <1>5, <1>a, <2>4 DEF PushEvict, CountInv, TypeOK
    <3> QED
      BY <3>4, <3>5
  <2>10. QueueInOrder'
    <3> SUFFICES ASSUME NEW k \in 0 .. (count_' - 1)
                 PROVE  /\ slot'[SlotAt(k)'].hdr = slot'[SlotAt(k)'].data
                        /\ ~slot_in_use_'[SlotAt(k)']
                        /\ slot'[SlotAt(k)'].hdr > last_popped'
                        /\ \A j \in 0 .. (k - 1) : slot'[SlotAt(j)'].hdr < slot'[SlotAt(k)'].hdr
      BY DEF QueueInOrder
    <3>1. \A j \in 0 .. (k - 1) : j \in 0 .. (count_' - 1) /\ j + 1 \in 0 .. ((k + 1) - 1)
      BY <2>1, <2>4
    <3> QED
      BY <1>5, <1>a, <2>6, <3>1 DEF PushEvict, QueueInOrder
  <2>11. HeldFramesIntact' /\ InUseInv'
    BY <1>5, <1>a DEF PushEvict, HeldFramesIntact, InUseInv, Holds
  <2> QED
    BY <2>7, <2>8, <2>9, <2>10, <2>11
<1>10. CASE PushPublish
  <2>1. /\ count_ \in Nat /\ count_ < capacity /\ tail_ \in Slots /\ head_ \in Slots
        /\ head_ = SlotAt(count_)
    BY <1>10, <1>a, CapacityAssumption DEF PushPublish, PushInv, CursorInv, TypeOK
  <2>2. \A k \in 0 .. count_ : SlotAt(k)' = SlotAt(k)
    BY <1>10 DEF PushPublish, SlotAt
  <2>3. head_' \in Slots /\ (head_ = SlotAt(count_))'
    <3>1. Advance(SlotAt(count_)) = Plus(tail_, count_ + 1)
      BY <2>1, CapacityAssumption, AdvancePlus DEF SlotAt
    <3>2. Advance(head_) \in Slots
      BY <2>1, PlusInSlots, CapacityAssumption DEF Advance
    <3> QED
      BY <1>10, <2>1, <3>1, <3>2 DEF PushPublish, SlotAt
  <2>4. /\ pop_pc' \in [Consumers -> PopPC]
        /\ \A c \in Consumers : Holds(c)' <=> Holds(c)
    BY <1>10, <1>a DEF PushPublish, CondSignal, Waiters, TypeOK, PopPC, Holds
  <2>5. TypeOK'
    <3>1. count_' \in 0 .. capacity
      BY <1>10, <2>1, CapacityAssumption DEF PushPublish
    <3>2. frames_pushed_' \in Nat
      BY <1>10, <1>a DEF PushPublish, TypeOK
    <3>3. mutex_' \in BOOLEAN /\ push_pc' \in PushPC
      BY <1>10 DEF PushPublish, PushPC
    <3> QED
      BY <1>10, <1>a, <2>3, <2>4, <3>1, <3>2, <3>3 DEF PushPublish, TypeOK
  <2>6. PushInv'
    BY <1>10, <1>a DEF PushPublish, PushInv
  <2>7. slot[head_] \in [hdr : Int, data : Int] /\ slot[head_].hdr = frame /\ slot[head_].data = frame
    BY <1>10, <1>a, <2>1 DEF PushPublish, PushInv, TypeOK
  <2>8. CursorInv'
    <3>1. \A k \in 0 .. (count_' - 1) : slot'[SlotAt(k)'].hdr < frame_seq_'
      BY <1>10, <1>a, <1>c, <2>1, <2>2, <2>7 DEF PushPublish, PushInv, CursorInv
    <3> QED
      BY <1>10, <1>a, <2>3, <3>1 DEF PushPublish, CursorInv
  <2>9. CountInv'
    BY <1>10, <1>a DEF PushPublish, CountInv, TypeOK
  <2>10. QueueInOrder'
    <3> SUFFICES ASSUME NEW k \in 0 .. count_
                 PROVE  /\ slot[SlotAt(k)].hdr = slot[SlotAt(k)].data
                        /\ ~slot_in_use_[SlotAt(k)]
                        /\ slot[SlotAt(k)].hdr > last_popped
                        /\ \A j \in 0 .. (k - 1) : slot[SlotAt(j)].hdr < slot[SlotAt(k)].hdr
      BY <1>10, <2>1, <2>2 DEF PushPublish, QueueInOrder
    <3>1. CASE k = count_
      BY <1>10, <1>a, <2>1, <2>7, <3>1 DEF PushPublish, PushInv
    <3>2. CASE k # count_
      BY <1>a, <2>1, <3>2 DEF QueueInOrder
    <3> QED
      BY <3>1, <3>2
  <2>11. HeldFramesIntact' /\ InUseInv'
    BY <1>10, <1>a, <2>4 DEF PushPublish, HeldFramesIntact, InUseInv
  <2> QED
    BY <2>5, <2>6, <2>8, <2>9, <2>10, <2>11
<1> QED
  BY <1>1, <1>2, <1>3, <1>4, <1>5, <1>6, <1>7, <1>8, <1>9, <1>10 DEF Push

-----------------------------------------------------------------------------
(* pop(), frame_packet_free() and shutdown().                              *)

\* A consumer that takes the oldest frame holds its slot; the others move up.
LEMMA PopTakeIInv ==
    ASSUME IInv, NEW c \in Consumers, PopTake(c)
    PROVE  IInv'
<1> USE DEF ringVars, statVars, pushVars, histVars
<1>a. TypeOK /\ PushInv /\ CursorInv /\ InUseInv /\ CountInv /\ QueueInOrder /\ HeldFramesIntact
  BY DEF IInv
<1>1. /\ count_ \in Nat /\ count_ > 0 /\ count_ <= capacity /\ tail_ \in Slots
      /\ ~Holds(c) /\ ~mutex_
  BY <1>a, CapacityAssumption DEF PopTake, InPop, Holds, TypeOK
<1>2. SlotAt(0) = tail_
  BY <1>1, PlusZero DEF SlotAt
<1>3. /\ slot[tail_].hdr = slot[tail_].data /\ ~slot_in_use_[tail_]
      /\ slot[tail_].hdr > last_popped /\ slot[tail_].hdr < frame_seq_
      /\ slot[tail_] \in [hdr : Int, data : Int]
  BY <1>a, <1>1, <1>2 DEF QueueInOrder, CursorInv, TypeOK
<1>4. /\ tail_' \in Slots
      /\ \A k \in 0 .. (count_ - 1) : Plus(tail_', k) = SlotAt(k + 1)
  BY <1>1, CapacityAssumption, PlusInSlots, PlusShift DEF PopTake, SlotAt, Advance
<1>5. \A k \in 0 .. (count_' - 1) : k + 1 \in 0 .. (count_ - 1) /\ SlotAt(k)' = SlotAt(k + 1)
  BY <1>1, <1>4 DEF PopTake, SlotAt
\* No other queue position is the slot that becomes held.
<1>6. \A k \in 0 .. (count_' - 1) : SlotAt(k)' # tail_ /\ SlotAt(k)' \in Slots
  <2> SUFFICES ASSUME NEW k \in 0 .. (count_' - 1)
               PROVE  SlotAt(k)' # tail_ /\ SlotAt(k)' \in Slots
    OBVIOUS
  <2>1. k + 1 \in 0 .. (capacity - 1) /\ 0 \in 0 .. (capacity - 1) /\ k + 1 # 0 /\ k + 1 \in 0 .. capacity
    BY <1>1, CapacityAssumption DEF PopTake
  <2>2. Plus(tail_, k + 1) # Plus(tail_, 0) /\ Plus(tail_, k + 1) \in Slots
    BY <1>1, <2>1, PlusInjective, PlusInSlots
  <2> QED
    BY <1>1, <1>2, <1>5, <2>2 DEF SlotAt
<1>7. /\ pop_pc' \in [Consumers -> PopPC]
      /\ pkt' \in [Consumers -> Packet]
      /\ \A d \in Consumers : Holds(d)' <=> Holds(d) \/ d = c
      /\ \A d \in Consumers : pkt'[d] = IF d = c THEN [slot_idx |-> tail_, seq |-> slot[tail_].hdr]
                                                 ELSE pkt[d]
  BY <1>a, <1>1, <1>3 DEF PopTake, TypeOK, PopPC, Holds, Packet
<1>8. TypeOK'
  <2>1. count_' \in 0 .. capacity /\ frames_popped_' \in Nat /\ last_popped' \in Int
    BY <1>a, <1>1, <1>3, CapacityAssumption DEF PopTake, TypeOK
  <2>2. slot_in_use_' \in [Slots -> BOOLEAN]
    BY <1>a DEF PopTake, TypeOK
  <2> QED
    BY <1>a, <1>4, <1>7, <2>1, <2>2 DEF PopTake, TypeOK
<1>9. PushInv'
  <2>1. push_pc \in {"idle", "lock", "refused"}
    BY <1>a, <1>1 DEF PushInv, TypeOK, PushPC
  <2>2. push_pc = "lock" => slot[tail_].hdr < frame
    BY <1>a, <1>1, <1>2 DEF PushInv
  <2>3. push_pc = "lock" => \A k \in 0 .. (count_' - 1) : slot[SlotAt(k)'].hdr < frame
    BY <1>a, <1>5 DEF PushInv
  <2> QED
    BY <1>a, <1>1, <1>3, <2>1, <2>2, <2>3 DEF PopTake, PushInv, TypeOK
<1>10. CursorInv'
  <2>1. Plus(tail_', count_ - 1) = SlotAt(count_)
    BY <1>1, <1>4
  <2>2. (head_ = SlotAt(count_))'
    BY <1>a, <2>1 DEF PopTake, CursorInv, SlotAt
  <2>3. \A k \in 0 .. (count_' - 1) : (slot[SlotAt(k)].hdr < frame_seq_)'
    BY <1>a, <1>5 DEF PopTake, CursorInv
  <2>4. last_popped' < frame_seq_' /\ last_popped' >= NoFrame
    BY <1>a, <1>3 DEF PopTake, CursorInv, NoFrame, TypeOK
  <2> QED
    BY <2>2, <2>3, <2>4 DEF CursorInv, NoFrame
<1>11. CountInv'
  BY <1>a DEF PopTake, CountInv, TypeOK
<1>12. QueueInOrder'
  <2> SUFFICES ASSUME NEW k \in 0 .. (count_' - 1)
               PROVE  /\ slot'[SlotAt(k)'].hdr = slot'[SlotAt(k)'].data
                      /\ ~slot_in_use_'[SlotAt(k)']
                      /\ slot'[SlotAt(k)'].hdr > last_popped'
                      /\ \A j \in 0 .. (k - 1) : slot'[SlotAt(j)'].hdr < slot'[SlotAt(k)'].hdr
    BY DEF QueueInOrder
  <2>1. /\ \A j \in 0 .. (k - 1) : j \in 0 .. (count_' - 1) /\ j + 1 \in 0 .. ((k + 1) - 1)
        /\ 0 \in 0 .. ((k + 1) - 1)
    BY <1>1 DEF PopTake
  <2>2. slot[SlotAt(0)].hdr < slot[SlotAt(k + 1)].hdr
    BY <1>a, <1>5, <2>1 DEF QueueInOrder
  <2>3. slot'[SlotAt(k)'].hdr > last_popped'
    BY <1>a, <1>2, <1>3, <1>5, <1>6, <2>2 DEF PopTake, TypeOK
  <2>4. ~slot_in_use_'[SlotAt(k)']
    BY <1>a, <1>5, <1>6 DEF PopTake, QueueInOrder, TypeOK
  <2> QED
    BY <1>a, <1>5, <2>1, <2>3, <2>4 DEF PopTake, QueueInOrder
<1>13. InUseInv'
  <2>1. \A d \in Consumers : (Holds(d) => slot_in_use_[pkt[d].slot_idx] /\ pkt[d].seq >= 0)'
    <3> SUFFICES ASSUME NEW d \in Consumers, Holds(d)'
                 PROVE  slot_in_use_'[pkt'[d].slot_idx] /\ pkt'[d].seq >= 0
      OBVIOUS
    <3>1. CASE d = c
      BY <1>a, <1>1, <1>3, <1>7, <3>1 DEF PopTake, TypeOK, CursorInv, NoFrame
    <3>2. CASE d # c
      BY <1>a, <1>7, <3>2 DEF PopTake, InUseInv, TypeOK, Packet
    <3> QED
      BY <3>1, <3>2
  <2>2. \A i \in Slots : slot_in_use_'[i] => \E d \in Consumers : Holds(d)' /\ pkt'[d].slot_idx = i
    <3> SUFFICES ASSUME NEW i \in Slots, slot_in_use_'[i]
                 PROVE  \E d \in Consumers : Holds(d)' /\ pkt'[d].slot_idx = i
      OBVIOUS
    <3>1. CASE i = tail_
      BY <1>7, <3>1
    <3>2. CASE i # tail_
      BY <1>a, <1>1, <1>7, <3>2 DEF PopTake, InUseInv, TypeOK
    <3> QED
      BY <3>1, <3>2
  <2> QED
    BY <2>1, <2>2 DEF InUseInv
<1>14. HeldFramesIntact'
  <2>1. \A d \in Consumers : Holds(d) => pkt[d].slot_idx # tail_
    BY <1>a, <1>3 DEF InUseInv
  <2>2. slot[tail_] = [hdr |-> slot[tail_].hdr, data |-> slot[tail_].hdr]
    BY <1>3
  <2>3. slot' = slot
    BY DEF PopTake
  <2> QED
    BY <1>a, <1>7, <2>1, <2>2, <2>3 DEF HeldFramesIntact
<1> QED
  BY <1>8, <1>9, <1>10, <1>11, <1>12, <1>13, <1>14 DEF IInv

\* A consumer that frees its packet, or fails to allocate one, gives up the
\* only claim on its slot.
LEMMA ReleaseSlotIInv ==
    ASSUME IInv, NEW c \in Consumers, Holds(c), ReleaseSlot(c)
    PROVE  IInv'
<1> USE DEF ringVars, statVars, pushVars, histVars
<1>a. TypeOK /\ PushInv /\ CursorInv /\ InUseInv /\ CountInv /\ QueueInOrder /\ HeldFramesIntact
  BY DEF IInv
<1>1. /\ pop_pc' \in [Consumers -> PopPC]
      /\ pkt' \in [Consumers -> Packet]
      /\ \A d \in Consumers : Holds(d)' <=> Holds(d) /\ d # c
      /\ \A d \in Consumers : d # c => pkt'[d] = pkt[d]
  <2>1. NoPacket \in Packet
    BY CapacityAssumption DEF NoPacket, Packet, NoFrame, Slots
  <2> QED
    BY <1>a, <2>1 DEF ReleaseSlot, TypeOK, PopPC, Holds
<1>2. /\ pkt[c].slot_idx \in Slots
      /\ slot_in_use_' \in [Slots -> BOOLEAN]
      /\ ~slot_in_use_'[pkt[c].slot_idx]
      /\ \A i \in Slots : i # pkt[c].slot_idx => slot_in_use_'[i] = slot_in_use_[i]
  BY <1>a DEF ReleaseSlot, TypeOK, Packet
<1>3. TypeOK'
  BY <1>a, <1>1, <1>2 DEF ReleaseSlot, TypeOK
<1>4. PushInv'
  <2>1. head_ \in Slots
    BY <1>a DEF TypeOK
  <2> QED
    BY <1>a, <1>2, <2>1 DEF ReleaseSlot, PushInv, SlotAt
<1>5. CursorInv' /\ CountInv'
  BY <1>a DEF ReleaseSlot, CursorInv, CountInv, SlotAt
<1>6. QueueInOrder'
  <2>1. \A k \in 0 .. (count_ - 1) : ~slot_in_use_'[SlotAt(k)]
    BY <1>a, <1>2, QueuedHeaders DEF QueueInOrder
  <2> QED
    BY <1>a, <2>1 DEF ReleaseSlot, QueueInOrder, SlotAt
<1>7. InUseInv'
  \* Another consumer's slot is another slot.
  <2>1. \A d \in Consumers : Holds(d) /\ d # c => pkt[d].slot_idx # pkt[c].slot_idx
    BY <1>a DEF HeldFramesIntact
  <2>2. \A d \in Consumers : pkt[d].slot_idx \in Slots
    BY <1>a DEF TypeOK, Packet
  <2> QED
    BY <1>a, <1>1, <1>2, <2>1, <2>2 DEF InUseInv
<1>8. HeldFramesIntact'
  BY <1>a, <1>1 DEF ReleaseSlot, HeldFramesIntact
<1> QED
  BY <1>3, <1>4, <1>5, <1>6, <1>7, <1>8 DEF IInv

\* Every step of pop() and frame_packet_free() by a consumer.
LEMMA PopIInv ==
    ASSUME IInv, NEW c \in Consumers, Pop(c)
    PROVE  IInv'
<1> USE DEF ringVars, statVars, pushVars, histVars
<1>a. /\ pop_pc \in [Consumers -> PopPC]
      /\ timeout_ms \in [Consumers -> {Infinite, NoWait, Timed}]
      /\ shutdown_ \in BOOLEAN /\ shutdown_pc \in {"idle", "broadcast", "done"}
  BY DEF IInv, TypeOK
<1>1. CASE PopTake(c)
  BY <1>1, PopTakeIInv
<1>2. CASE PopBuildFails(c)
  BY <1>2, ReleaseSlotIInv DEF PopBuildFails, Holds
<1>3. CASE FreePacket(c)
  BY <1>3, ReleaseSlotIInv DEF FreePacket, Holds
<1>4. CASE PopCall(c)
  <2>1. timeout_ms' \in [Consumers -> {Infinite, NoWait, Timed}]
    BY <1>4, <1>a, TimeoutAssumption DEF PopCall
  <2>2. pop_pc' \in [Consumers -> PopPC] /\ \A d \in Consumers : Holds(d)' <=> Holds(d)
    BY <1>4, <1>a DEF PopCall, Holds, PopPC
  <2> QED
    BY <1>4, <1>a, <2>1, <2>2, WaitingIInv DEF PopCall
<1>5. CASE PopWait(c) \/ PopEmpty(c)
  <2>1. pop_pc' \in [Consumers -> PopPC] /\ \A d \in Consumers : Holds(d)' <=> Holds(d)
    BY <1>5, <1>a DEF PopWait, PopEmpty, InPop, Holds, PopPC
  <2> QED
    BY <1>5, <1>a, <2>1, WaitingIInv DEF PopWait, PopEmpty
<1>6. CASE PopTimeout(c) \/ PopTimedOut(c) \/ SpuriousWakeup(c)
  <2>1. pop_pc' \in [Consumers -> PopPC] /\ \A d \in Consumers : Holds(d)' <=> Holds(d)
    BY <1>6, <1>a DEF PopTimeout, PopTimedOut, SpuriousWakeup, Holds, PopPC
  <2> QED
    BY <1>6, <1>a, <2>1, WaitingIInv DEF PopTimeout, PopTimedOut, SpuriousWakeup
<1>7. CASE PopBuild(c)
  <2>1. pop_pc' \in [Consumers -> PopPC] /\ \A d \in Consumers : Holds(d)' <=> Holds(d)
    BY <1>7, <1>a DEF PopBuild, Holds, PopPC
  <2> QED
    BY <1>7, <1>a, <2>1, WaitingIInv DEF PopBuild
<1> QED
  BY <1>1, <1>2, <1>3, <1>4, <1>5, <1>6, <1>7 DEF Pop

\* Both steps of shutdown(), taken by the main thread.
LEMMA ShutdownIInv == IInv /\ Shutdown => IInv'
<1> SUFFICES ASSUME IInv, Shutdown PROVE IInv'
  OBVIOUS
<1> USE DEF CondBroadcast, Waiters, ringVars, statVars, pushVars, popVars, histVars
<1>a. pop_pc \in [Consumers -> PopPC] /\ shutdown_ \in BOOLEAN
  BY DEF IInv, TypeOK
<1>b. timeout_ms \in [Consumers -> {Infinite, NoWait, Timed}]
  BY DEF IInv, TypeOK
<1>1. CASE ShutdownSetFlag
  BY <1>1, <1>a, <1>b, WaitingIInv DEF ShutdownSetFlag, Holds
<1>2. CASE ShutdownBroadcast
  <2>1. pop_pc' \in [Consumers -> PopPC] /\ \A d \in Consumers : Holds(d)' <=> Holds(d)
    BY <1>2, <1>a DEF ShutdownBroadcast, Holds, PopPC
  <2> QED
    BY <1>2, <1>a, <1>b, <2>1, WaitingIInv DEF ShutdownBroadcast
<1> QED
  BY <1>1, <1>2 DEF Shutdown

\* The invariant is inductive.
LEMMA NextIInv == IInv /\ [Next]_vars => IInv'
<1> SUFFICES ASSUME IInv, [Next]_vars PROVE IInv'
  OBVIOUS
<1>1. CASE Next
  BY <1>1, PushIInv, PopIInv, ShutdownIInv DEF Next
<1>2. CASE UNCHANGED vars
  BY <1>2 DEF vars, ringVars, statVars, pushVars, popVars, histVars, IInv, TypeOK, PushInv,
              CursorInv, InUseInv, CountInv, QueueInOrder, HeldFramesIntact, Holds, SlotAt
<1> QED
  BY <1>1, <1>2

-----------------------------------------------------------------------------
(* Theorems.                                                               *)

\* The inductive invariant holds in every state of every ring.
THEOREM RingInvariant == Spec => []IInv
<1>1. Init => IInv
  BY InitIInv
<1>2. IInv /\ [Next]_vars => IInv'
  BY NextIInv
<1> QED
  BY <1>1, <1>2, PTL DEF Spec

\* The cursors and flags that push(), pop() and releaseSlot() use as indices
\* into the mmap region stay inside it, for any capacity.
THEOREM TypeCorrect == Spec => []TypeOK
<1>1. IInv => TypeOK
  BY DEF IInv
<1> QED
  BY <1>1, RingInvariant, PTL

\* The zero-copy promise of pop(): push() never touches a slot whose packet has
\* not been freed, however the two threads interleave.
THEOREM ZeroCopySafe == Spec => []HeldFramesIntact
<1>1. IInv => HeldFramesIntact
  BY DEF IInv
<1> QED
  BY <1>1, RingInvariant, PTL

\* Whatever pop() can return is a complete frame, and the queue is in capture
\* order across wrap-around and eviction.
THEOREM QueueOrdered == Spec => []QueueInOrder
<1>1. IInv => QueueInOrder
  BY DEF IInv
<1> QED
  BY <1>1, RingInvariant, PTL

\* The counters of getStats() lose no frame.
THEOREM CountersAddUp == Spec => []FramesAccounted
<1>1. IInv => FramesAccounted
  BY DEF IInv, CountInv, FramesAccounted, TypeOK
<1> QED
  BY <1>1, RingInvariant, PTL

\* pop() hands out frames in strictly increasing order: none twice, none late.
THEOREM DeliveryInOrder == Spec => InOrderDelivery
<1>1. IInv /\ [Next]_vars => [frames_popped_' # frames_popped_ => last_popped' > last_popped]_vars
  <2> SUFFICES ASSUME IInv, Next, frames_popped_' # frames_popped_
               PROVE  last_popped' > last_popped
    BY DEF vars, statVars
  <2>1. PICK c \in Consumers : PopTake(c)
    BY DEF Next, Push, Pop, Shutdown, statVars, PushReject, PushCall, PushAfterShutdown,
           PushLock, PushEvict, PushGuardHead, PushCountDrop, PushWriteHeader, PushCopyData,
           PushPublish, PopCall, PopWait, PopEmpty, PopTimeout, PopTimedOut, SpuriousWakeup,
           PopBuild, PopBuildFails, FreePacket, ReleaseSlot, ShutdownSetFlag, ShutdownBroadcast
  <2>2. count_ \in Nat /\ count_ > 0 /\ SlotAt(0) = tail_
    BY <2>1, CapacityAssumption, PlusZero DEF PopTake, IInv, TypeOK, SlotAt
  <2>3. slot[tail_].hdr > last_popped
    BY <2>2 DEF IInv, QueueInOrder
  <2> QED
    BY <2>1, <2>3 DEF PopTake
<1> QED
  BY <1>1, RingInvariant, PTL DEF Spec, InOrderDelivery
-----------------------------------------------------------------------------
(* SlotsBound, by counting slots.                                          *)

\* The queued frames take as many slots as there are of them.
LEMMA QueuedCount ==
    ASSUME IInv
    PROVE  LET queued == {SlotAt(k) : k \in 0 .. (count_ - 1)}
           IN  IsFiniteSet(queued) /\ Cardinality(queued) = count_
<1> DEFINE queued == {SlotAt(k) : k \in 0 .. (count_ - 1)}
           f == [k \in 0 .. (count_ - 1) |-> SlotAt(k)]
<1>1. /\ count_ \in 0 .. capacity /\ tail_ \in Slots
      /\ \A k \in 0 .. (count_ - 1) : k \in 0 .. (capacity - 1)
  BY CapacityAssumption DEF IInv, TypeOK
<1>2. \A j, k \in 0 .. (count_ - 1) : SlotAt(j) = SlotAt(k) => j = k
  BY <1>1, PlusInjective DEF SlotAt
<1>3. f \in Bijection(0 .. (count_ - 1), queued)
  BY <1>2 DEF Bijection, Injection, Surjection, IsInjective
<1>4. IsFiniteSet(0 .. (count_ - 1)) /\ Cardinality(0 .. (count_ - 1)) = count_
  BY <1>1, FS_Interval
<1>5. ExistsBijection(0 .. (count_ - 1), queued)
  BY <1>3 DEF ExistsBijection
<1> QED
  BY <1>4, <1>5, FS_Bijection

\* Every consumer that holds a packet has a slot of its own, outside the queue.
LEMMA IInvSlotsBound == IInv => SlotsBound
<1> SUFFICES ASSUME IInv PROVE SlotsBound
  OBVIOUS
<1> DEFINE queued  == {SlotAt(k) : k \in 0 .. (count_ - 1)}
           holders == {c \in Consumers : Holds(c)}
           free    == Slots \ queued
           f       == [c \in holders |-> pkt[c].slot_idx]
<1>1. IsFiniteSet(queued) /\ Cardinality(queued) = count_
  BY QueuedCount
<1>2. IsFiniteSet(Slots) /\ Cardinality(Slots) = capacity
  BY CapacityAssumption, FS_Interval DEF Slots
<1>3. queued \subseteq Slots
  BY QueuedHeaders DEF IInv
<1>4. IsFiniteSet(free) /\ Cardinality(free) = capacity - count_
  <2>1. Slots \cap queued = queued
    BY <1>3
  <2> HIDE DEF queued
  <2> QED
    BY <1>1, <1>2, <2>1, FS_Difference
<1>5. f \in Injection(holders, free)
  <2>1. \A c \in holders : pkt[c].slot_idx \in free
    BY DEF IInv, TypeOK, Packet, InUseInv, QueueInOrder
  <2>2. \A c, d \in holders : f[c] = f[d] => c = d
    BY DEF IInv, HeldFramesIntact
  <2> QED
    BY <2>1, <2>2 DEF Injection, IsInjective
<1>6. IsFiniteSet(holders) /\ Cardinality(holders) <= capacity - count_
  <2> HIDE DEF holders, free, f
  <2> QED
    BY <1>4, <1>5, FS_Injection
<1>7. Cardinality(holders) \in Nat
  BY <1>6, FS_CardinalityType
<1> QED
  BY <1>6, <1>7, CapacityAssumption DEF SlotsBound, IInv, TypeOK

-----------------------------------------------------------------------------
(* NoLostWakeup.                                                           *)

Woken == {c \in Consumers : pop_pc[c] = "woken"}

\* The number of woken consumers after one of them is woken or goes on.
LEMMA WokenCount ==
    ASSUME pop_pc \in [Consumers -> PopPC], NEW c \in Consumers, NEW p \in PopPC,
           pop_pc' = [pop_pc EXCEPT ![c] = p]
    PROVE  /\ Cardinality(Woken) \in Nat /\ Cardinality(Woken') \in Nat
           /\ Cardinality(Woken') =
                 Cardinality(Woken) + (IF p = "woken" /\ pop_pc[c] # "woken" THEN 1 ELSE 0)
                                    - (IF p # "woken" /\ pop_pc[c] = "woken" THEN 1 ELSE 0)
<1>1. IsFiniteSet(Woken) /\ IsFiniteSet(Woken')
  BY ThreadsAssumption, FS_Subset DEF Woken
<1>2. Cardinality(Woken) \in Nat /\ Cardinality(Woken') \in Nat
  BY <1>1, FS_CardinalityType
<1>3. CASE p = "woken"
  <2>1. Woken' = Woken \cup {c}
    BY <1>3 DEF Woken
  <2> QED
    BY <1>1, <1>2, <1>3, <2>1, FS_AddElement DEF Woken
<1>4. CASE p # "woken"
  <2>1. Woken' = Woken \ {c}
    BY <1>4 DEF Woken
  <2> QED
    BY <1>1, <1>2, <1>4, <2>1, FS_RemoveElement DEF Woken
<1> QED
  BY <1>3, <1>4

\* A step that leaves the places of the consumers and the mutex alone, and queues nothing.
LEMMA QuietWakeInv ==
    ASSUME IInv, WakeInv, UNCHANGED <<pop_pc, timeout_ms, shutdown_>>,
           count_' \in Nat, count_' <= count_,
           mutex_' => mutex_ \/ ~shutdown_
    PROVE  WakeInv'
<1>1. IsFiniteSet(Woken)
  BY ThreadsAssumption, FS_Subset DEF Woken
<1>2. Cardinality(Woken) \in Nat
  BY <1>1, FS_CardinalityType
<1>3. count_ \in Nat
  BY CapacityAssumption DEF IInv, TypeOK
<1>4. NoLostWakeup'
  BY <1>2, <1>3 DEF WakeInv, NoLostWakeup, Woken
<1> QED
  BY <1>4 DEF WakeInv

\* push(): each queued frame wakes one waiter, if there is one.
LEMMA PushWakeInv ==
    ASSUME IInv, WakeInv, Push
    PROVE  WakeInv'
<1> USE DEF ringVars, statVars, pushVars, popVars, histVars
<1>a. /\ count_ \in Nat /\ count_ - 1 <= count_ /\ count_ <= capacity
      /\ pop_pc \in [Consumers -> PopPC]
  BY CapacityAssumption DEF IInv, TypeOK
<1>1. CASE PushReject \/ PushCall \/ PushAfterShutdown \/ PushLock
  BY <1>1, <1>a, QuietWakeInv DEF PushReject, PushCall, PushAfterShutdown, PushLock
<1>2. CASE PushEvict
  <2>1. count_' \in Nat /\ count_' <= count_
    BY <1>2, <1>a, CapacityAssumption DEF PushEvict, Full
  <2> QED
    BY <1>2, <1>a, <2>1, QuietWakeInv DEF PushEvict, RefuseFrame
<1>3. CASE PushGuardHead \/ PushCountDrop \/ PushWriteHeader \/ PushCopyData
  BY <1>3, <1>a, QuietWakeInv
     DEF PushGuardHead, PushCountDrop, PushWriteHeader, PushCopyData, RefuseFrame
<1>4. CASE PushPublish
  <2>1. CASE Waiters = {}
    BY <1>4, <2>1 DEF PushPublish, CondSignal, WakeInv, NoLostWakeup, Waiters
  <2>2. CASE Waiters # {}
    <3>1. PICK c \in Waiters : pop_pc' = [pop_pc EXCEPT ![c] = "woken"]
      BY <1>4, <2>2 DEF PushPublish, CondSignal
    <3>2. c \in Consumers /\ pop_pc[c] = "waiting" /\ "woken" \in PopPC
      BY <3>1 DEF Waiters, PopPC
    <3>3. /\ Cardinality(Woken) \in Nat
          /\ Cardinality(Woken') = Cardinality(Woken) + 1
      <4> DEFINE p == "woken"
      <4>1. /\ Cardinality(Woken) \in Nat
            /\ Cardinality(Woken') =
                 Cardinality(Woken) + (IF p = "woken" /\ pop_pc[c] # "woken" THEN 1 ELSE 0)
                                    - (IF p # "woken" /\ pop_pc[c] = "woken" THEN 1 ELSE 0)
        <5>1. p \in PopPC /\ pop_pc' = [pop_pc EXCEPT ![c] = p]
          BY <3>1, <3>2
        <5> HIDE DEF p
        <5> QED
          BY <1>a, <3>2, <5>1, WokenCount
      <4> QED
        BY <3>2, <4>1
    <3>4. count_ <= Cardinality(Woken)
      BY <3>2 DEF WakeInv, NoLostWakeup, Woken
    <3>5. count_' <= Cardinality(Woken')
      BY <1>4, <1>a, <3>3, <3>4 DEF PushPublish
    <3>6. \A d \in Consumers : pop_pc'[d] \in {"waiting", "woken"} => timeout_ms'[d] # NoWait
      BY <1>4, <1>a, <3>1, <3>2 DEF PushPublish, WakeInv
    <3> QED
      BY <1>4, <3>5, <3>6 DEF PushPublish, WakeInv, NoLostWakeup, Woken
  <2> QED
    BY <2>1, <2>2
<1> QED
  BY <1>1, <1>2, <1>3, <1>4 DEF Push

\* pop(): a consumer goes to sleep only when nothing is queued, and a woken one takes a
\* frame or finds none.
LEMMA PopWakeInv ==
    ASSUME IInv, WakeInv, NEW c \in Consumers, Pop(c)
    PROVE  WakeInv'
<1> USE DEF ringVars, statVars, pushVars, histVars
<1>a. /\ count_ \in Nat
      /\ pop_pc \in [Consumers -> PopPC]
      /\ timeout_ms \in [Consumers -> {Infinite, NoWait, Timed}]
  BY CapacityAssumption DEF IInv, TypeOK
<1>b. /\ mutex_ => ~shutdown_
      /\ \A d \in Consumers : pop_pc[d] \in {"waiting", "woken"} => timeout_ms[d] # NoWait
      /\ NoLostWakeup
  BY DEF WakeInv
\* It is enough to know that the woken consumers still cover the queue, or that all is empty.
<1>c. ASSUME NEW p \in PopPC, pop_pc' = [pop_pc EXCEPT ![c] = p],
             UNCHANGED <<timeout_ms, mutex_, shutdown_>>,
             p \in {"waiting", "woken"} => timeout_ms[c] # NoWait,
             count_' \in Nat,
             \/ count_' = 0
             \/ /\ count_' <= count_ /\ p # "waiting"
                /\ pop_pc[c] = "woken" => p = "woken" \/ count_' < count_
      PROVE  WakeInv'
  <2>1. /\ Cardinality(Woken) \in Nat /\ Cardinality(Woken') \in Nat
        /\ Cardinality(Woken') =
              Cardinality(Woken) + (IF p = "woken" /\ pop_pc[c] # "woken" THEN 1 ELSE 0)
                                 - (IF p # "woken" /\ pop_pc[c] = "woken" THEN 1 ELSE 0)
    BY <1>a, <1>c, WokenCount
  <2>2. NoLostWakeup'
    <3>1. CASE count_' = 0
      BY <2>1, <3>1 DEF NoLostWakeup, Woken
    <3>2. CASE count_' # 0
      <4> SUFFICES ASSUME NEW d \in Consumers, pop_pc'[d] = "waiting"
                   PROVE  count_' <= Cardinality(Woken')
        BY DEF NoLostWakeup, Woken
      <4>1. pop_pc[d] = "waiting"
        BY <1>a, <1>c, <3>2
      <4>2. count_ <= Cardinality(Woken)
        BY <1>b, <4>1 DEF NoLostWakeup, Woken
      <4> QED
        BY <1>a, <1>c, <2>1, <3>2, <4>2
    <3> QED
      BY <3>1, <3>2
  <2>3. \A d \in Consumers : pop_pc'[d] \in {"waiting", "woken"} => timeout_ms'[d] # NoWait
    BY <1>a, <1>b, <1>c
  <2> QED
    BY <1>b, <1>c, <2>2, <2>3 DEF WakeInv
<1>1. CASE PopCall(c)
  <2>1. /\ pop_pc' = [pop_pc EXCEPT ![c] = "lock"] /\ pop_pc[c] = "idle" /\ "lock" \in PopPC
        /\ UNCHANGED <<mutex_, shutdown_, count_>>
        /\ \A d \in Consumers : d # c => timeout_ms'[d] = timeout_ms[d]
    BY <1>1, <1>a DEF PopCall, PopPC
  <2>2. Cardinality(Woken) \in Nat /\ Cardinality(Woken') = Cardinality(Woken)
    <3>1. Woken' = Woken
      BY <1>a, <2>1 DEF Woken
    <3> QED
      BY <3>1, ThreadsAssumption, FS_Subset, FS_CardinalityType DEF Woken
  <2>3. NoLostWakeup'
    BY <1>a, <1>b, <2>1, <2>2 DEF NoLostWakeup, Woken
  <2>4. \A d \in Consumers : pop_pc'[d] \in {"waiting", "woken"} => timeout_ms'[d] # NoWait
    BY <1>a, <1>b, <2>1
  <2> QED
    BY <1>b, <2>1, <2>3, <2>4 DEF WakeInv
<1>2. CASE PopWait(c)
  BY <1>2, <1>a, <1>c DEF PopWait, PopPC
<1>3. CASE PopEmpty(c)
  <2>1. pop_pc[c] = "woken" => count_ = 0
    BY <1>3, <1>b DEF PopEmpty
  <2> QED
    BY <1>3, <1>a, <1>c, <2>1 DEF PopEmpty, InPop, PopPC
<1>4. CASE PopTake(c)
  <2>1. count_' \in Nat /\ count_' < count_ /\ count_' <= count_
    BY <1>4, <1>a DEF PopTake
  <2> QED
    BY <1>4, <1>c, <2>1 DEF PopTake, PopPC
<1>5. CASE PopTimeout(c) \/ PopTimedOut(c) \/ PopBuild(c)
  BY <1>5, <1>a, <1>c DEF PopTimeout, PopTimedOut, PopBuild, PopPC
<1>6. CASE SpuriousWakeup(c)
  BY <1>6, <1>a, <1>b, <1>c DEF SpuriousWakeup, PopPC
<1>7. CASE PopBuildFails(c) \/ FreePacket(c)
  BY <1>7, <1>a, <1>c DEF PopBuildFails, FreePacket, ReleaseSlot, PopPC
<1> QED
  BY <1>1, <1>2, <1>3, <1>4, <1>5, <1>6, <1>7 DEF Pop

\* Every step keeps WakeInv.
LEMMA NextWakeInv == IInv /\ WakeInv /\ [Next]_vars => WakeInv'
<1> SUFFICES ASSUME IInv, WakeInv, [Next]_vars PROVE WakeInv'
  OBVIOUS
<1>a. count_ \in Nat
  BY CapacityAssumption DEF IInv, TypeOK
<1>1. CASE Push
  BY <1>1, PushWakeInv
<1>2. CASE \E c \in Consumers : Pop(c)
  BY <1>2, PopWakeInv
<1>3. CASE ShutdownSetFlag
  BY <1>3 DEF ShutdownSetFlag, WakeInv, NoLostWakeup, popVars
<1>4. CASE ShutdownBroadcast
  <2>1. \A c \in Consumers : /\ pop_pc'[c] # "waiting"
                             /\ pop_pc'[c] = "woken" => pop_pc[c] \in {"waiting", "woken"}
    BY <1>4 DEF ShutdownBroadcast, CondBroadcast, Waiters
  <2> QED
    BY <1>4, <2>1 DEF ShutdownBroadcast, WakeInv, NoLostWakeup, ringVars
<1>5. CASE UNCHANGED vars
  BY <1>5, <1>a, QuietWakeInv DEF vars, ringVars, popVars
<1> QED
  BY <1>1, <1>2, <1>3, <1>4, <1>5 DEF Next, Shutdown

-----------------------------------------------------------------------------
(* Theorems about counting.                                                *)

\* Queued and held slots are never more than the ring has: a full ring has no packet out,
\* so the eviction loop of push() never meets a slot in use.
THEOREM RingHasRoom == Spec => []SlotsBound
<1> QED
  BY IInvSlotsBound, RingInvariant, PTL

\* pthread_cond_signal once per push() is enough, with any number of consumers, timeouts
\* and spurious wake-ups: no consumer sleeps while a frame waits for nobody.
THEOREM SignalSuffices == Spec => []NoLostWakeup
<1>1. Init => WakeInv
  BY DEF Init, WakeInv, NoLostWakeup
<1>2. IInv /\ WakeInv /\ [Next]_vars => WakeInv'
  BY NextWakeInv
<1>3. WakeInv => NoLostWakeup
  BY DEF WakeInv
<1> QED
  BY <1>1, <1>2, <1>3, RingInvariant, PTL DEF Spec

-----------------------------------------------------------------------------
(* The refinement of FrameChannel.                                         *)

\* The queued frames as a sequence, oldest first.
LEMMA QueueBarSeq ==
    IInv => /\ queueBar \in Seq(Int)
            /\ Len(queueBar) = count_
            /\ \A i \in 1 .. count_ : queueBar[i] = slot[SlotAt(i - 1)].hdr
<1> SUFFICES ASSUME IInv
             PROVE  /\ queueBar \in Seq(Int)
                    /\ Len(queueBar) = count_
                    /\ \A i \in 1 .. count_ : queueBar[i] = slot[SlotAt(i - 1)].hdr
  OBVIOUS
<1>1. count_ \in Nat
  BY CapacityAssumption DEF IInv, TypeOK
<1>2. \A i \in 1 .. count_ : i - 1 \in 0 .. (count_ - 1)
  BY <1>1
<1>3. \A i \in 1 .. count_ : slot[SlotAt(i - 1)].hdr \in Int
  BY <1>2, QueuedHeaders DEF IInv
<1> QED
  BY <1>1, <1>3 DEF queueBar

\* The same in the next state.
LEMMA QueueBarSeqNext ==
    IInv' => /\ queueBar' \in Seq(Int)
             /\ Len(queueBar') = count_'
             /\ \A i \in 1 .. count_' : queueBar'[i] = slot'[SlotAt(i - 1)'].hdr
<1>1. (IInv => /\ queueBar \in Seq(Int)
               /\ Len(queueBar) = count_
               /\ \A i \in 1 .. count_ : queueBar[i] = slot[SlotAt(i - 1)].hdr)'
  BY QueueBarSeq, PTL
<1> QED
  BY <1>1

\* When the tail is advanced past a queued frame, the channel loses its oldest one.
LEMMA TailAdvanced ==
    ASSUME IInv, IInv', count_ > 0,
           tail_' = Advance(tail_), count_' = count_ - 1, slot' = slot
    PROVE  /\ queueBar # <<>> /\ Head(queueBar) = slot[tail_].hdr
           /\ queueBar' = Tail(queueBar)
<1>1. /\ queueBar \in Seq(Int) /\ Len(queueBar) = count_
      /\ \A i \in 1 .. count_ : queueBar[i] = slot[SlotAt(i - 1)].hdr
  BY QueueBarSeq
<1>2. /\ queueBar' \in Seq(Int) /\ Len(queueBar') = count_'
      /\ \A i \in 1 .. count_' : queueBar'[i] = slot'[SlotAt(i - 1)'].hdr
  BY QueueBarSeqNext
<1>3. count_ \in Nat /\ count_ <= capacity /\ tail_ \in Slots /\ SlotAt(0) = tail_
  BY CapacityAssumption, PlusZero DEF IInv, TypeOK, SlotAt
<1>4. queueBar # <<>> /\ Head(queueBar) = slot[tail_].hdr
  BY <1>1, <1>3
<1>5. \A i \in 1 .. count_' : SlotAt(i - 1)' = SlotAt((i + 1) - 1)
  <2> SUFFICES ASSUME NEW i \in 1 .. count_' PROVE SlotAt(i - 1)' = SlotAt((i + 1) - 1)
    OBVIOUS
  <2>1. i - 1 \in 0 .. (capacity - 1) /\ (i - 1) + 1 = (i + 1) - 1
    BY <1>3, CapacityAssumption
  <2>2. Plus(Advance(tail_), i - 1) = Plus(tail_, (i - 1) + 1)
    BY <1>3, <2>1, PlusShift
  <2> QED
    BY <2>1, <2>2 DEF SlotAt
<1>6. \A i \in 1 .. count_' : i + 1 \in 1 .. count_
  BY <1>3
<1>7. \A i \in 1 .. count_' : queueBar'[i] = queueBar[i + 1]
  BY <1>1, <1>2, <1>5, <1>6
<1>8. /\ Tail(queueBar) \in Seq(Int) /\ Len(Tail(queueBar)) = count_'
      /\ \A i \in 1 .. count_' : Tail(queueBar)[i] = queueBar[i + 1]
  BY <1>1, <1>3, <1>4, HeadTailProperties
<1> QED
  BY <1>2, <1>4, <1>7, <1>8, SeqEqual

\* When head_ is advanced over a filled slot, the channel gets a newest frame.
LEMMA HeadAdvanced ==
    ASSUME IInv, IInv', count_' = count_ + 1, tail_' = tail_, slot' = slot,
           slot[head_].hdr = frame
    PROVE  queueBar' = Append(queueBar, frame)
<1>1. /\ queueBar \in Seq(Int) /\ Len(queueBar) = count_
      /\ \A i \in 1 .. count_ : queueBar[i] = slot[SlotAt(i - 1)].hdr
  BY QueueBarSeq
<1>2. /\ queueBar' \in Seq(Int) /\ Len(queueBar') = count_'
      /\ \A i \in 1 .. count_' : queueBar'[i] = slot'[SlotAt(i - 1)'].hdr
  BY QueueBarSeqNext
<1>3. count_ \in Nat /\ frame \in Int /\ head_ = SlotAt(count_)
  BY CapacityAssumption DEF IInv, TypeOK, CursorInv
<1>4. /\ Append(queueBar, frame) \in Seq(Int) /\ Len(Append(queueBar, frame)) = count_'
      /\ \A i \in 1 .. count_ : Append(queueBar, frame)[i] = queueBar[i]
      /\ Append(queueBar, frame)[count_ + 1] = frame
  BY <1>1, <1>3, AppendProperties
<1>5. \A i \in 1 .. count_' : queueBar'[i] = Append(queueBar, frame)[i]
  <2> SUFFICES ASSUME NEW i \in 1 .. count_' PROVE queueBar'[i] = Append(queueBar, frame)[i]
    OBVIOUS
  <2>1. CASE i = count_ + 1
    <3>1. i - 1 = count_
      BY <1>3, <2>1
    <3>2. queueBar'[i] = slot[SlotAt(count_)].hdr
      BY <1>2, <3>1 DEF SlotAt
    <3> QED
      BY <1>3, <1>4, <2>1, <3>2
  <2>2. CASE i # count_ + 1
    <3>1. i \in 1 .. count_
      BY <1>3, <2>2
    <3> QED
      BY <1>1, <1>2, <1>4, <3>1 DEF SlotAt
  <2> QED
    BY <2>1, <2>2
<1> QED
  BY <1>2, <1>4, <1>5, SeqEqual

\* A queue whose cursors and queued headers stay is the same sequence of frames.
LEMMA QueueBarSame ==
    ASSUME count_' = count_, tail_' = tail_, count_ \in Nat,
           \A k \in 0 .. (count_ - 1) : slot'[SlotAt(k)].hdr = slot[SlotAt(k)].hdr
    PROVE  queueBar' = queueBar
<1>1. \A i \in 1 .. count_ : i - 1 \in 0 .. (count_ - 1)
  OBVIOUS
<1>2. \A i \in 1 .. count_ : slot'[SlotAt(i - 1)'].hdr = slot[SlotAt(i - 1)].hdr
  BY <1>1 DEF SlotAt
<1> QED
  BY <1>2 DEF queueBar

\* A frame that push() carries is a frame, and a slot in use is held by some consumer.
LEMMA BarFacts ==
    ASSUME IInv
    PROVE  /\ push_pc \notin {"idle", "refused"} => offerBar = frame /\ frame # NoFrame
           /\ \A c \in Consumers : Holds(c) => heldBar[c] # NoFrame
           /\ \A i \in Slots : slot_in_use_[i] => \E c \in Consumers : heldBar[c] # NoFrame
<1>1. push_pc \notin {"idle", "refused"} => frame > NoFrame
  BY DEF IInv, TypeOK, PushInv, CursorInv, NoFrame
<1>2. \A c \in Consumers : Holds(c) => heldBar[c] # NoFrame
  BY DEF IInv, InUseInv, heldBar, NoFrame
<1>3. push_pc \notin {"idle", "refused"} => offerBar = frame /\ frame # NoFrame
  BY <1>1 DEF offerBar, NoFrame
<1> QED
  BY <1>2, <1>3 DEF IInv, InUseInv

\* Steps of push() are steps of the channel.
LEMMA PushRefines ==
    ASSUME IInv, IInv', WakeInv, Push
    PROVE  [Channel!Next]_(Channel!chanVars)
<1> USE DEF ringVars, statVars, pushVars, popVars, histVars, Channel!chanVars
<1>a. /\ TypeOK /\ PushInv /\ count_ \in Nat /\ count_ <= capacity
      /\ tail_ \in Slots /\ head_ \in Slots /\ push_pc \in PushPC
  BY CapacityAssumption DEF IInv, TypeOK
<1>b. Channel!NoFrame = NoFrame
  BY DEF Channel!NoFrame, NoFrame
<1>1. CASE PushReject
  <2>1. UNCHANGED <<queueBar, offerBar, heldBar>> /\ offerBar = NoFrame
    BY <1>1 DEF PushReject, queueBar, offerBar, heldBar, SlotAt, Holds
  <2> QED
    BY <1>1, <1>b, <2>1 DEF PushReject, Channel!Next, Channel!Skip
<1>2. CASE PushCall
  <2>1. UNCHANGED <<queueBar, heldBar>> /\ offerBar = NoFrame /\ offerBar' = frame_seq_
    BY <1>2 DEF PushCall, queueBar, offerBar, heldBar, SlotAt, Holds
  <2> QED
    BY <1>2, <1>b, <2>1 DEF PushCall, Channel!Next, Channel!Offer
<1>3. CASE PushAfterShutdown
  <2>1. UNCHANGED <<queueBar, heldBar>> /\ offerBar # NoFrame /\ offerBar' = NoFrame
    BY <1>3, BarFacts DEF PushAfterShutdown, queueBar, offerBar, heldBar, SlotAt, Holds
  <2> QED
    BY <1>3, <1>b, <2>1 DEF PushAfterShutdown, Channel!Next, Channel!Refuse
<1>4. CASE PushLock
  BY <1>4 DEF PushLock, queueBar, offerBar, heldBar, SlotAt, Holds
\* A frame is refused on account of a slot in use.
<1>5. ASSUME NEW i \in Slots, slot_in_use_[i], push_pc = "evict", push_pc' = "refused",
             UNCHANGED <<tail_, count_, slot, popVars, frame_seq_, last_popped, shutdown_>>
      PROVE  Channel!Refuse
  <2>1. offerBar # NoFrame /\ offerBar' = NoFrame
    BY <1>5, BarFacts DEF offerBar
  <2>2. UNCHANGED <<queueBar, heldBar>>
    BY <1>5 DEF queueBar, heldBar, SlotAt, Holds
  <2>3. \E c \in Consumers : heldBar[c] # NoFrame
    BY <1>5, BarFacts
  <2> QED
    BY <1>5, <1>b, <2>1, <2>2, <2>3 DEF Channel!Refuse
<1>6. CASE PushEvict
  <2>1. CASE slot_in_use_[tail_]
    BY <1>a, <1>5, <1>6, <2>1 DEF PushEvict, RefuseFrame, Channel!Next
  <2>2. CASE ~slot_in_use_[tail_]
    <3>1. /\ count_ = capacity /\ count_ > 0
          /\ tail_' = Advance(tail_) /\ count_' = count_ - 1 /\ slot' = slot
      BY <1>6, <1>a, <2>2, CapacityAssumption DEF PushEvict, Full
    <3>2. queueBar' = Tail(queueBar) /\ Len(queueBar) = capacity
      BY <3>1, TailAdvanced, QueueBarSeq
    <3>3. offerBar # NoFrame /\ UNCHANGED <<offerBar, heldBar>> /\ ~shutdown_
      BY <1>6, <1>a, <2>2, BarFacts DEF PushEvict, PushInv, WakeInv, offerBar, heldBar, Holds
    <3> QED
      BY <1>6, <1>b, <3>2, <3>3 DEF PushEvict, Channel!Next, Channel!Evict
  <2> QED
    BY <2>1, <2>2
<1>7. CASE PushGuardHead
  <2>1. CASE HeadHeld
    BY <1>a, <1>5, <1>7, <2>1 DEF PushGuardHead, RefuseFrame, HeadHeld, Channel!Next
  <2>2. CASE ~HeadHeld
    BY <1>7, <2>2 DEF PushGuardHead, queueBar, offerBar, heldBar, SlotAt, Holds
  <2> QED
    BY <2>1, <2>2
<1>8. CASE PushCountDrop
  BY <1>8 DEF PushCountDrop, queueBar, offerBar, heldBar, SlotAt, Holds
<1>9. CASE PushWriteHeader \/ PushCopyData
  <2>1. \A k \in 0 .. (count_ - 1) : SlotAt(k) # head_ /\ SlotAt(k) \in Slots
    BY <1>9, <1>a, HeadNotQueued DEF PushWriteHeader, PushCopyData, PushInv, IInv
  <2>2. \A i \in Slots : i # head_ => slot'[i] = slot[i]
    BY <1>9, <1>a DEF PushWriteHeader, PushCopyData, TypeOK
  <2>3. count_' = count_ /\ tail_' = tail_
    BY <1>9 DEF PushWriteHeader, PushCopyData
  <2>4. queueBar' = queueBar
    BY <1>a, <2>1, <2>2, <2>3, QueueBarSame
  <2> QED
    BY <1>9, <2>4 DEF PushWriteHeader, PushCopyData, offerBar, heldBar, Holds
<1>10. CASE PushPublish
  <2>1. queueBar' = Append(queueBar, frame) /\ Len(queueBar) < capacity
    BY <1>10, <1>a, HeadAdvanced, QueueBarSeq DEF PushPublish, PushInv
  <2>2. /\ offerBar = frame /\ frame # NoFrame /\ offerBar' = NoFrame /\ ~shutdown_
    BY <1>10, <1>a, BarFacts DEF PushPublish, PushInv, WakeInv, offerBar
  <2>3. heldBar' = heldBar
    <3>1. \A c \in Consumers : Holds(c)' <=> Holds(c)
      BY <1>10, <1>a DEF PushPublish, CondSignal, Waiters, TypeOK, PopPC, Holds
    <3> QED
      BY <1>10, <3>1 DEF PushPublish, heldBar
  <2> QED
    BY <1>10, <1>b, <2>1, <2>2, <2>3 DEF PushPublish, Channel!Next, Channel!Accept
<1> QED
  BY <1>1, <1>2, <1>3, <1>4, <1>6, <1>7, <1>8, <1>9, <1>10 DEF Push

\* Steps of pop() and frame_packet_free() are steps of the channel.
LEMMA PopRefines ==
    ASSUME IInv, IInv', NEW c \in Consumers, Pop(c)
    PROVE  [Channel!Next]_(Channel!chanVars)
<1> USE DEF ringVars, statVars, pushVars, histVars, Channel!chanVars
<1>a. TypeOK /\ pop_pc \in [Consumers -> PopPC] /\ pkt \in [Consumers -> Packet]
  BY DEF IInv, TypeOK
<1>b. Channel!NoFrame = NoFrame
  BY DEF Channel!NoFrame, NoFrame
<1>1. CASE PopTake(c)
  <2>1. queueBar # <<>> /\ Head(queueBar) = slot[tail_].hdr /\ queueBar' = Tail(queueBar)
    BY <1>1, TailAdvanced DEF PopTake
  <2>2. heldBar[c] = NoFrame
    BY <1>1 DEF PopTake, InPop, heldBar, Holds
  <2>3. heldBar' = [heldBar EXCEPT ![c] = slot[tail_].hdr]
    <3>1. \A d \in Consumers :
             (IF Holds(d) THEN pkt[d].seq ELSE NoFrame)'
                = IF d = c THEN slot[tail_].hdr ELSE (IF Holds(d) THEN pkt[d].seq ELSE NoFrame)
      BY <1>1, <1>a DEF PopTake, Holds
    <3> QED
      BY <3>1 DEF heldBar
  <2>4. offerBar' = offerBar
    BY <1>1 DEF PopTake, offerBar
  <2>5. Channel!Take(c)
    BY <1>1, <1>b, <2>1, <2>2, <2>3, <2>4 DEF PopTake, Channel!Take
  <2> QED
    BY <2>5 DEF Channel!Next
<1>2. CASE PopBuildFails(c) \/ FreePacket(c)
  <2>1. Holds(c) /\ ReleaseSlot(c)
    BY <1>2 DEF PopBuildFails, FreePacket, Holds
  <2>2. heldBar[c] # NoFrame
    BY <2>1, BarFacts
  <2>3. heldBar' = [heldBar EXCEPT ![c] = NoFrame]
    <3>1. \A d \in Consumers :
             (IF Holds(d) THEN pkt[d].seq ELSE NoFrame)'
                = IF d = c THEN NoFrame ELSE (IF Holds(d) THEN pkt[d].seq ELSE NoFrame)
      BY <1>a, <2>1 DEF ReleaseSlot, Holds
    <3> QED
      BY <3>1 DEF heldBar
  <2>4. UNCHANGED <<queueBar, offerBar>>
    BY <2>1 DEF ReleaseSlot, queueBar, offerBar, SlotAt
  <2>5. Channel!Release(c)
    BY <1>b, <2>1, <2>2, <2>3, <2>4 DEF ReleaseSlot, Channel!Release
  <2> QED
    BY <2>5 DEF Channel!Next
<1>3. CASE \/ PopCall(c) \/ PopWait(c) \/ PopEmpty(c) \/ PopTimeout(c) \/ PopTimedOut(c)
           \/ SpuriousWakeup(c) \/ PopBuild(c)
  <2>1. /\ \A d \in Consumers : Holds(d)' <=> Holds(d)
        /\ UNCHANGED <<ringVars, pushVars, pkt, histVars>>
    BY <1>3, <1>a DEF PopCall, PopWait, PopEmpty, PopTimeout, PopTimedOut, SpuriousWakeup,
                      PopBuild, InPop, Holds, PopPC
  <2> QED
    BY <2>1 DEF queueBar, offerBar, heldBar, SlotAt
<1> QED
  BY <1>1, <1>2, <1>3 DEF Pop

\* Every step of the ring is a step of the channel, or changes nothing of it.
LEMMA NextRefines ==
    IInv /\ IInv' /\ WakeInv /\ [Next]_vars => [Channel!Next]_(Channel!chanVars)
<1> SUFFICES ASSUME IInv, IInv', WakeInv, [Next]_vars
             PROVE  [Channel!Next]_(Channel!chanVars)
  OBVIOUS
<1> USE DEF ringVars, statVars, pushVars, popVars, histVars
<1>1. CASE Push
  BY <1>1, PushRefines
<1>2. CASE \E c \in Consumers : Pop(c)
  BY <1>2, PopRefines
<1>3. CASE ShutdownSetFlag
  <2>1. UNCHANGED <<queueBar, offerBar, heldBar>>
    BY <1>3 DEF ShutdownSetFlag, queueBar, offerBar, heldBar, SlotAt, Holds
  <2> QED
    BY <1>3, <2>1 DEF ShutdownSetFlag, Channel!Next, Channel!Close
<1>4. CASE ShutdownBroadcast
  <2>1. \A c \in Consumers : Holds(c)' <=> Holds(c)
    BY <1>4 DEF ShutdownBroadcast, CondBroadcast, Waiters, Holds, IInv, TypeOK
  <2> QED
    BY <1>4, <2>1
       DEF ShutdownBroadcast, queueBar, offerBar, heldBar, SlotAt, Channel!chanVars
<1>5. CASE UNCHANGED vars
  BY <1>5 DEF vars, queueBar, offerBar, heldBar, SlotAt, Holds, Channel!chanVars
<1> QED
  BY <1>1, <1>2, <1>3, <1>4, <1>5 DEF Next, Shutdown

\* The ring implements the bounded in-order channel that the two threads of the client rely
\* on, for every capacity and any number of consumers: it refuses a frame only after
\* shutdown() or while a packet is out, evicts only the oldest one and only when it is full.
THEOREM RingImplementsChannel == Spec => ImplementsChannel
<1>1. Init => Channel!Init
  <2> SUFFICES ASSUME Init PROVE Channel!Init
    OBVIOUS
  <2>1. queueBar = <<>>
    BY DEF Init, queueBar
  <2>2. heldBar = [c \in Consumers |-> Channel!NoFrame]
    BY DEF Init, heldBar, Holds, Channel!NoFrame, NoFrame
  <2> QED
    BY <2>1, <2>2 DEF Init, Channel!Init, Channel!NoFrame, NoFrame, offerBar
<1>2. Init => WakeInv
  BY DEF Init, WakeInv, NoLostWakeup
<1>3. IInv /\ WakeInv /\ [Next]_vars => WakeInv'
  BY NextWakeInv
<1>4. IInv /\ IInv' /\ WakeInv /\ [Next]_vars => [Channel!Next]_(Channel!chanVars)
  BY NextRefines
<1> QED
  BY <1>1, <1>2, <1>3, <1>4, RingInvariant, PTL DEF Spec, ImplementsChannel, Channel!Spec
=============================================================================
