------------------------ MODULE DemandDmaFifoProofs ------------------------
(***************************************************************************)
(* The ring of DemandDma implements BlockFifo, the queue that hands out     *)
(* every block of data once and in order: each step of the driver, of the   *)
(* chip and of the user is a step of the queue or does not concern it.      *)
(* So what the queue promises holds of the ring.                            *)
(***************************************************************************)
EXTENDS DemandDmaProofs, Sequences, FiniteSetTheorems

-----------------------------------------------------------------------------
(* The blocks in the user's hands *)

\* A block comes into the user's hands through irq_get alone, and the number
\* of blocks changes only when all of them are unmapped or new.
LEMMA UserBlocks ==
    ASSUME TypeOK, [Next]_vars, NEW b \in Blocks, block'[b] = "user"
    PROVE  /\ block[b] = "user" \/ \E t \in Threads : IrqTake(t) /\ b = blk[t]
           /\ numblocks' = numblocks
<1> USE DEF TypeOK, DataOK, ring, plx, config, history, irqs, handler, user, locks
<1>1. CASE \/ HwFill \/ HwDoorbell \/ IsrEnter
           \/ IsrFill \/ IsrBlock \/ IsrRestart \/ IsrEngine \/ IsrPost
  BY <1>1 DEF HwFill, HwDoorbell, IsrEnter, IsrFill, InUse, IsrBlock,
              IsrRestart, BlockToDma, IsrEngine, IsrPost
<1>2. CASE ThreadFetch \/ ThreadUpdate \/ ThreadWake
  BY <1>2 DEF ThreadFetch, ThreadUpdate, ThreadWake
<1>3. ASSUME NEW t \in Threads, ThreadAction(t)
      PROVE  /\ block[b] = "user" \/ (IrqTake(t) /\ b = blk[t])
             /\ numblocks' = numblocks
  <2>1. CASE OpenFile(t) \/ Release(t) \/ ReleaseUnmap(t) \/ ReleaseClose(t)
    BY <2>1 DEF OpenFile, Release, Cleanup, ReleaseUnmap, ReleaseClose
  <2>2. CASE \E n \in BlockCounts \union {0} : Map(t, n)
    BY <2>2 DEF Map
  <2>3. CASE StartReset(t) \/ StartEngine(t) \/ StartDone(t)
    BY <2>3 DEF StartReset, ResetRing, StartEngine, StartDone
  <2>4. CASE StopDisable(t) \/ StopAbort(t) \/ StopDone(t)
    BY <2>4 DEF StopDisable, StopAbort, Abort, StopDone
  <2>5. CASE WaitFinished(t) \/ WaitSleep(t) \/ Signal(t)
    BY <2>5 DEF WaitFinished, WaitSleep, Signal
  <2>6. CASE \/ \E c \in Blocks : Mark(t, c)
             \/ MarkFree(t) \/ MarkRestart(t) \/ MarkEngine(t)
    BY <2>6 DEF Mark, MarkFree, CanMark, Awaited, MarkRestart, BlockToDma,
                MarkEngine
  <2>7. CASE IrqWait(t) \/ IrqGet(t)
    BY <2>7 DEF IrqWait, IrqGet, HasData
  <2>8. CASE IrqTake(t)
    BY <2>8 DEF IrqTake
  <2>9. CASE \E mask \in SUBSET Bits : IrqAck(t, mask)
    BY <2>9 DEF IrqAck
  <2> QED
    BY <1>3, <2>1, <2>2, <2>3, <2>4, <2>5, <2>6, <2>7, <2>8, <2>9
       DEF ThreadAction
<1>4. CASE UNCHANGED vars
  BY <1>4 DEF vars
<1> QED
  BY <1>1, <1>2, <1>3, <1>4, StepCases

\* Only irq_get leads to "take", and the block it looked at is in the ring;
\* none but another thread maps a ring of another size.
LEMMA TakesFromRing ==
    ASSUME TypeOK, CallInv, [Next]_vars, NEW t \in Threads, pc'[t] = "take"
    PROVE  \/ /\ pc[t] = "take" /\ blk'[t] = blk[t]
              /\ numblocks' = numblocks \/ \E v \in Threads : v # t
           \/ numblocks' = numblocks /\ blk'[t] < numblocks
<1> USE DEF TypeOK, DataOK, ring, plx, config, history, irqs, handler, user, locks
<1>1. CASE \/ HwFill \/ HwDoorbell \/ IsrEnter
           \/ IsrFill \/ IsrBlock \/ IsrRestart \/ IsrEngine \/ IsrPost
  BY <1>1 DEF HwFill, HwDoorbell, IsrEnter, IsrFill, InUse, IsrBlock,
              IsrRestart, BlockToDma, IsrEngine, IsrPost
<1>2. CASE ThreadFetch \/ ThreadUpdate \/ ThreadWake
  BY <1>2 DEF ThreadFetch, ThreadUpdate, ThreadWake
<1>3. ASSUME NEW u \in Threads, ThreadAction(u)
      PROVE  \/ /\ pc[t] = "take" /\ blk'[t] = blk[t]
                /\ numblocks' = numblocks \/ u # t
             \/ numblocks' = numblocks /\ blk'[t] < numblocks
  <2> USE GotoEffect, GotoWithEffect DEF At
  <2>0. \A label : Goto(u, label) =>
            \A v \in Threads \ {u} : pc'[v] = pc[v] /\ blk'[v] = blk[v]
    BY DEF Goto, GotoWith
  <2> USE <2>0
  <2>1. CASE OpenFile(u) \/ Release(u) \/ ReleaseUnmap(u) \/ ReleaseClose(u)
    BY <2>1 DEF OpenFile, Release, Cleanup, ReleaseUnmap, ReleaseClose
  <2>2. CASE \E n \in BlockCounts \union {0} : Map(u, n)
    BY <2>2 DEF Map, Enter
  <2>3. CASE StartReset(u) \/ StartEngine(u) \/ StartDone(u)
    BY <2>3 DEF StartReset, ResetRing, StartEngine, StartDone
  <2>4. CASE StopDisable(u) \/ StopAbort(u) \/ StopDone(u)
    BY <2>4 DEF StopDisable, StopAbort, Abort, StopDone
  <2>5. CASE WaitFinished(u) \/ WaitSleep(u) \/ Signal(u)
    BY <2>5 DEF WaitFinished, WaitSleep, Signal
  <2>6. CASE \/ \E c \in Blocks : Mark(u, c)
             \/ MarkFree(u) \/ MarkRestart(u) \/ MarkEngine(u)
    BY <2>6 DEF Mark, MarkFree, CanMark, Awaited, MarkRestart, BlockToDma,
                MarkEngine
  <2>7. CASE IrqWait(u)
    BY <2>7 DEF IrqWait
  <2>8. CASE IrqGet(u)
    <3>1. CASE dmaStatus = "running" /\ GotoWith(u, "take", Successor(reading_block))
      <4>1. numblocks \in Nat /\ numblocks > 0
        BY <3>1, BlocksFacts DEF CallInv
      <4>2. reading_block \in Int
        BY BlocksFacts
      <4>3. Successor(reading_block) < numblocks
        BY <4>1, <4>2 DEF Successor
      <4> QED
        BY <2>8, <3>1, <4>3 DEF IrqGet
    <3>2. CASE Goto(u, "idle")
      BY <3>2
    <3> QED
      BY <2>8, <3>1, <3>2 DEF IrqGet, HasData
  <2>9. CASE IrqTake(u)
    BY <2>9 DEF IrqTake
  <2>10. CASE \E mask \in SUBSET Bits : IrqAck(u, mask)
    BY <2>10 DEF IrqAck
  <2> QED
    BY <1>3, <2>1, <2>2, <2>3, <2>4, <2>5, <2>6, <2>7, <2>8, <2>9, <2>10
       DEF ThreadAction
<1>4. CASE UNCHANGED vars
  BY <1>4 DEF vars
<1> QED
  BY <1>1, <1>2, <1>3, <1>4, StepCases

LEMMA HeldStep ==
    ASSUME OneSessionOrUniprocessor, TypeOK, IInv, IInv', HeldInv, [Next]_vars
    PROVE  HeldInv'
<1> USE DEF TypeOK, DataOK
<1>1. CallInv /\ LockInv
  BY DEF IInv
<1>2. \A t \in Threads : StartEngine(t) =>
        \A b \in Blocks : block'[b] # "user"
  BY DEF HeldInv, StartEngine, At, ring
<1>3. \A t \in Threads : IrqTake(t) /\ (Session \/ Uniprocessor) =>
        blk[t] < numblocks
  <2>1. ASSUME NEW t \in Threads, IrqTake(t), Session
        PROVE  blk[t] < numblocks
    <3>1. InRing
      BY <1>1, <2>1, SessionInRing DEF IInv
    <3>2. blk[t] = NextRead
      BY <2>1, <3>1 DEF IrqTake, At, InRing, Ring, Counts
    <3> QED
      BY <3>1, <3>2, Indices
  <2> QED
    BY <2>1 DEF HeldInv, IrqTake, At
<1>4. ASSUME Session' \/ Uniprocessor, NEW b \in Blocks, block'[b] = "user"
      PROVE  b < numblocks'
  <2>1. ~ \E t \in Threads : StartEngine(t)
    BY <1>2, <1>4
  <2>2. Session \/ Uniprocessor
    BY <1>1, <1>4, <2>1, SessionCases
  <2>3. block[b] = "user" => b < numblocks
    BY <2>2 DEF HeldInv
  <2> QED
    BY <1>3, <1>4, <2>2, <2>3, UserBlocks
<1>5. ASSUME Uniprocessor, NEW t \in Threads, pc'[t] = "take"
      PROVE  blk'[t] < numblocks'
  <2>1. numblocks' = numblocks
    BY <1>1, <1>5, TakesFromRing DEF Uniprocessor
  <2> QED
    BY <1>1, <1>5, <2>1, TakesFromRing DEF HeldInv
<1>6. ASSUME starts' = 0 \/ (\E t \in Threads : pc'[t] = "start_engine"),
             NEW b \in Blocks, block'[b] = "user"
      PROVE  FALSE
  <2>1. CASE starts = 0 \/ (\E t \in Threads : pc[t] = "start_engine")
    <3>1. Calm /\ block[b] # "user"
      BY <2>1 DEF IInv, FirstInv, PreparedInv, HeldInv
    <3> QED
      BY <1>6, <3>1, UserBlocks DEF Calm, IrqTake, At
  <2>2. CASE ~(starts = 0 \/ \E t \in Threads : pc[t] = "start_engine")
    <3>1. PICK t \in Threads : StartReset(t)
      BY <1>6, <2>2, OnlyResetPrepares
    <3>2. Uniprocessor
      BY <2>2, <3>1, BoundsAssumption DEF OneSessionOrUniprocessor, StartReset,
                                          ResetRing
    <3>3. b < numblocks
      BY <1>4, <1>6, <3>1, <3>2 DEF StartReset, ResetRing
    <3> QED
      BY <1>6, <3>1, <3>3 DEF StartReset, ResetRing
  <2> QED
    BY <2>1, <2>2
<1> QED
  BY <1>4, <1>5, <1>6 DEF HeldInv, Uniprocessor

-----------------------------------------------------------------------------
(* The queue in the ring *)

\* The data not yet handed out, oldest first, and those the user holds.
Waits == [i \in 1..FullCount |-> content[RingSlot(i - 1)]]
Held == {content[b] : b \in {x \in Blocks : block[x] = "user"}}

\* Slot i is the block at distance i from the one the user gets next.
LEMMA SlotDistance ==
    ASSUME InRing
    PROVE  /\ \A i \in 0..(numblocks - 1) :
                 RingSlot(i) \in 0..(numblocks - 1) /\ Distance(RingSlot(i)) = i
           /\ \A b \in 0..(numblocks - 1) : RingSlot(Distance(b)) = b
BY Indices DEF RingSlot, Distance

\* A family of numbers with indices 1..n is a sequence of length n.
LEMMA FamilyIsSequence ==
    ASSUME NEW n \in Nat, NEW s \in [1..n -> Nat]
    PROVE  s \in Seq(Nat) /\ Len(s) = n
OBVIOUS

LEMMA SameSequence ==
    ASSUME NEW r \in Seq(Nat), NEW s \in Seq(Nat), Len(r) = Len(s),
           \A i \in 1..Len(r) : r[i] = s[i]
    PROVE  r = s
OBVIOUS

LEMMA WaitsSequence ==
    ASSUME InRing
    PROVE  /\ FullCount \in 0..numblocks
           /\ Waits \in Seq(Nat) /\ Len(Waits) = FullCount
           /\ \A i \in 1..FullCount :
                 /\ RingSlot(i - 1) \in 0..(numblocks - 1)
                 /\ block[RingSlot(i - 1)] = "full"
                 /\ Waits[i] = content[RingSlot(i - 1)]
<1>1. FullCount \in 0..numblocks /\ numblocks \in Nat
  BY Indices DEF InRing, Ring, Counts
<1>2. \A i \in 1..FullCount :
         RingSlot(i - 1) \in 0..(numblocks - 1) /\ block[RingSlot(i - 1)] = "full"
  BY <1>1, SlotDistance DEF InRing, Ring, FullAreConsecutive
<1>3. \A i \in 1..FullCount : content[RingSlot(i - 1)] \in Nat
  BY <1>2, Indices DEF InRing, TypeOK, DataOK
<1>4. Waits \in [1..FullCount -> Nat]
  BY <1>3 DEF Waits
<1>5. Waits \in Seq(Nat) /\ Len(Waits) = FullCount
  BY <1>1, <1>4, FamilyIsSequence
<1> QED
  BY <1>1, <1>2, <1>5 DEF Waits

\* A step that keeps the full blocks, the user's and their data is none of the
\* queue.
LEMMA SameQueue ==
    ASSUME InRing, numblocks' = numblocks,
           UNCHANGED <<reading_block, debug_sequence, taken>>,
           \A b \in 0..(numblocks - 1) : block[b] = "full" => content'[b] = content[b],
           \A b \in Blocks : /\ block'[b] = "user" <=> block[b] = "user"
                             /\ block[b] = "user" => content'[b] = content[b]
    PROVE  Waits' = Waits /\ Held' = Held
<1>1. /\ FullCount' = FullCount
      /\ \A i : RingSlot(i)' = RingSlot(i)
  BY SameDistance DEF FullCount, RingSlot
<1>2. \A i \in 1..FullCount :
        content'[RingSlot(i - 1)] = content[RingSlot(i - 1)]
  BY WaitsSequence
<1>3. Waits' = [i \in 1..FullCount |-> content'[RingSlot(i - 1)]]
  BY <1>1 DEF Waits
<1>4. Waits' = Waits
  BY <1>2, <1>3 DEF Waits
<1>5. Held' = Held
  BY DEF Held
<1> QED
  BY <1>4, <1>5

\* While the handler has a block that is not yet counted as full, the ring has
\* room: the other blocks are full, or the user's, or neither.
LEMMA RoomForOne ==
    ASSUME InRing, HeldInv, Session, block[writing_block] = "dma"
    PROVE  /\ FullCount < numblocks
           /\ RingSlot(FullCount) = writing_block
           /\ IsFiniteSet(Held)
           /\ FullCount + Cardinality(Held) < numblocks
<1>1. /\ numblocks \in Nat /\ numblocks > 0
      /\ writing_block \in 0..(numblocks - 1)
      /\ FullCount \in 0..numblocks
      /\ \A b \in 0..(numblocks - 1) : Distance(b) \in 0..(numblocks - 1)
  BY Indices, WaitsSequence
<1>2. FullCount < numblocks /\ Distance(writing_block) = FullCount
  <2>1. ~(Distance(writing_block) < FullCount)
    BY <1>1 DEF InRing, Ring, FullAreConsecutive
  <2>2. FullCount # numblocks
    BY <1>1, <2>1
  <2> QED
    BY <1>1, <2>2 DEF InRing, Ring, FullAreConsecutive
<1>3. RingSlot(FullCount) = writing_block
  BY <1>1, <1>2, SlotDistance
<1> DEFINE Far == (FullCount + 1)..(numblocks - 1)
           U == {x \in Blocks : block[x] = "user"}
<1>4. \A b \in U : b \in 0..(numblocks - 1) /\ Distance(b) \in Far
  <2>1. ASSUME NEW b \in U
        PROVE  b \in 0..(numblocks - 1)
    BY <1>1, BlocksFacts DEF HeldInv
  <2>2. ASSUME NEW b \in U, b \in 0..(numblocks - 1)
        PROVE  Distance(b) \in Far
    <3>1. ~(Distance(b) < FullCount)
      BY <2>2 DEF InRing, Ring, FullAreConsecutive
    <3>2. Distance(b) # FullCount
      BY <1>1, <1>2, <2>2, DistanceInjective
    <3> QED
      BY <1>1, <2>2, <3>1, <3>2
  <2> QED
    BY <2>1, <2>2
<1> DEFINE D == {Distance(b) : b \in U}
           f == [d \in D |-> content[RingSlot(d)]]
<1>5. f \in Surjection(D, Held)
  <2>1. \A b \in U : f[Distance(b)] = content[b]
    BY <1>4, SlotDistance
  <2>2. f \in [D -> Held]
    BY <2>1 DEF Held
  <2>3. ASSUME NEW c \in Held
        PROVE  \E d \in D : f[d] = c
    <3>1. PICK b \in U : content[b] = c
      BY DEF Held
    <3>2. Distance(b) \in D
      OBVIOUS
    <3> HIDE DEF D, f, U
    <3> QED
      BY <2>1, <3>1, <3>2
  <2> QED
    BY <2>2, <2>3 DEF Surjection
<1>6. IsFiniteSet(Held) /\ Cardinality(Held) <= Cardinality(Far)
  <2>1. IsFiniteSet(Far)
    BY <1>1, FS_Interval
  <2>2. D \subseteq Far
    BY <1>4
  <2> HIDE DEF D, f, Far
  <2>3. IsFiniteSet(D) /\ Cardinality(D) <= Cardinality(Far)
    BY <2>1, <2>2, FS_Subset
  <2>4. IsFiniteSet(Held) /\ Cardinality(Held) <= Cardinality(D)
    BY <1>5, <2>3, FS_Surjection
  <2>5. /\ Cardinality(Held) \in Nat
        /\ Cardinality(D) \in Nat
        /\ Cardinality(Far) \in Nat
    BY <2>1, <2>3, <2>4, FS_CardinalityType
  <2> QED
    BY <2>3, <2>4, <2>5
<1>7. Cardinality(Far) = numblocks - 1 - FullCount
  <2>1. FullCount + 1 \in Int /\ numblocks - 1 \in Int
    BY <1>1
  <2>2. Cardinality(Far) = IF FullCount + 1 > numblocks - 1 THEN 0
                           ELSE (numblocks - 1) - (FullCount + 1) + 1
    BY <2>1, FS_Interval
  <2> HIDE DEF Far
  <2> QED
    BY <1>1, <1>2, <2>2
<1>8. Cardinality(Held) \in Nat
  BY <1>6, FS_CardinalityType
<1> QED
  BY <1>1, <1>2, <1>3, <1>6, <1>7, <1>8

\* The first section of the hook produces: it appends the block just written.
LEMMA FillProduces ==
    ASSUME InRing, HeldInv, Session, numblocks' = numblocks, IsrFill
    PROVE  /\ Len(Waits) + Cardinality(Held) < numblocks
           /\ Waits' = Append(Waits, debug_sequence)
           /\ debug_sequence' = debug_sequence + 1
           /\ Held' = Held
<1>1. /\ block[writing_block] = "dma"
      /\ content[writing_block] = debug_sequence
  BY DEF IsrFill, InRing, Ring, Writer, InHandler, Fills, Uncounted
<1>2. /\ FullCount < numblocks
      /\ RingSlot(FullCount) = writing_block
      /\ FullCount + Cardinality(Held) < numblocks
  BY <1>1, RoomForOne
<1>3. /\ block' = [block EXCEPT ![writing_block] = "full"]
      /\ debug_sequence' = debug_sequence + 1
      /\ UNCHANGED <<reading_block, taken, content>>
  BY DEF IsrFill, InUse, history
<1>4. /\ FullCount \in Nat /\ Waits \in Seq(Nat) /\ Len(Waits) = FullCount
      /\ \A i \in 1..FullCount : Waits[i] = content[RingSlot(i - 1)]
  BY WaitsSequence, Indices
<1>5. FullCount' = FullCount + 1
  BY <1>3 DEF FullCount, InRing, TypeOK, DataOK
<1>6. \A i : RingSlot(i)' = RingSlot(i)
  BY <1>3, SameDistance DEF RingSlot
<1>7. Waits' = [i \in 1..(FullCount + 1) |-> content[RingSlot(i - 1)]]
  BY <1>3, <1>5, <1>6 DEF Waits
<1> DEFINE longer == Append(Waits, debug_sequence)
<1>8. /\ longer \in Seq(Nat) /\ Len(longer) = FullCount + 1
      /\ \A i \in 1..FullCount : longer[i] = content[RingSlot(i - 1)]
      /\ longer[FullCount + 1] = debug_sequence
  BY <1>4 DEF InRing, TypeOK, DataOK
<1>9. content[RingSlot((FullCount + 1) - 1)] = debug_sequence
  <2>1. (FullCount + 1) - 1 = FullCount
    BY <1>4
  <2> QED
    BY <1>1, <1>2, <2>1
<1>10. \A i \in 1..(FullCount + 1) : content[RingSlot(i - 1)] = longer[i]
  BY <1>4, <1>8, <1>9
<1>11. \A i \in 1..(FullCount + 1) : longer[i] \in Nat
  BY <1>8
<1>12. Waits' \in Seq(Nat) /\ Len(Waits') = FullCount + 1
  <2>1. Waits' \in [1..(FullCount + 1) -> Nat]
    BY <1>7, <1>10, <1>11
  <2> QED
    BY <1>4, <2>1, FamilyIsSequence
<1>13. Waits' = longer
  BY <1>7, <1>8, <1>10, <1>12, SameSequence
<1>14. Held' = Held
  BY <1>1, <1>3 DEF Held, InRing, TypeOK, DataOK
<1> QED
  BY <1>2, <1>3, <1>4, <1>13, <1>14

\* irq_get hands out the oldest of the data.
LEMMA TakeHandsOut ==
    ASSUME InRing, numblocks' = numblocks,
           NEW t \in Threads, IrqTake(t)
    PROVE  /\ Waits # <<>>
           /\ Waits' = Tail(Waits)
           /\ Held' = Held \union {Head(Waits)}
           /\ debug_sequence' = debug_sequence
<1>1. blk[t] = NextRead /\ block[NextRead] = "full"
  BY DEF IrqTake, At, InRing, Ring, Counts
<1>2. /\ block' = [block EXCEPT ![NextRead] = "user"]
      /\ reading_block' = NextRead
      /\ taken' = taken + 1
      /\ UNCHANGED <<debug_sequence, content>>
  BY <1>1 DEF IrqTake
<1>3. NextRead \in 0..(numblocks - 1) /\ Distance(NextRead) = 0
      /\ numblocks \in Nat /\ numblocks > 0
  BY Indices
<1>4. FullCount \in 1..numblocks /\ FullCount' = FullCount - 1
  <2>1. 0 < FullCount
    BY <1>1, <1>3 DEF InRing, Ring, FullAreConsecutive
  <2>2. FullCount' = FullCount - 1
    BY <1>2 DEF FullCount, InRing, TypeOK, DataOK
  <2> QED
    BY <1>3, <2>1, <2>2, WaitsSequence
<1>5. /\ Waits \in Seq(Nat) /\ Len(Waits) = FullCount
      /\ \A i \in 1..FullCount : Waits[i] = content[RingSlot(i - 1)]
  BY WaitsSequence
<1>6. \A i \in 1..(FullCount - 1) : RingSlot(i - 1)' = RingSlot(i)
  <2>1. NextRead' = Successor(NextRead)
    BY <1>2 DEF NextRead, Successor
  <2>2. NextRead' = IF NextRead + 1 >= numblocks THEN 0 ELSE NextRead + 1
    BY <2>1 DEF Successor
  <2>3. \A i : RingSlot(i)' = IF NextRead' + i < numblocks THEN NextRead' + i
                              ELSE NextRead' + i - numblocks
    BY DEF RingSlot
  <2> QED
    BY <1>3, <1>4, <2>2, <2>3 DEF RingSlot
<1>7. Waits' = [i \in 1..(FullCount - 1) |-> content[RingSlot(i)]]
  BY <1>2, <1>4, <1>6 DEF Waits
<1>8. /\ Tail(Waits) \in Seq(Nat) /\ Len(Tail(Waits)) = FullCount - 1
      /\ \A i \in 1..(FullCount - 1) : Tail(Waits)[i] = Waits[i + 1]
      /\ Waits # <<>> /\ Head(Waits) = Waits[1]
  BY <1>4, <1>5
<1>9. \A i \in 1..(FullCount - 1) : Tail(Waits)[i] = content[RingSlot(i)]
  <2>1. \A i \in 1..(FullCount - 1) : i + 1 \in 1..FullCount /\ (i + 1) - 1 = i
    BY <1>4
  <2> QED
    BY <1>5, <1>8, <2>1
<1>10. \A i \in 1..(FullCount - 1) : Tail(Waits)[i] \in Nat
  BY <1>8
<1>11. Waits' = Tail(Waits)
  <2>1. Waits' \in [1..(FullCount - 1) -> Nat]
    BY <1>7, <1>9, <1>10
  <2>2. FullCount - 1 \in Nat
    BY <1>4
  <2>3. Waits' \in Seq(Nat) /\ Len(Waits') = FullCount - 1
    BY <2>1, <2>2, FamilyIsSequence
  <2> QED
    BY <1>7, <1>8, <1>9, <2>3, SameSequence
<1>12. Head(Waits) = content[NextRead]
  <2>1. RingSlot(0) = NextRead
    BY <1>3 DEF RingSlot
  <2>2. 1 \in 1..FullCount /\ 1 - 1 = 0
    BY <1>4
  <2> QED
    BY <1>5, <1>8, <2>1, <2>2
<1>13. Held' = Held \union {content[NextRead]}
  <2>1. NextRead \in Blocks
    BY <1>3, Indices
  <2>2. {x \in Blocks : block'[x] = "user"}
            = {x \in Blocks : block[x] = "user"} \union {NextRead}
    BY <1>2, <2>1 DEF InRing, TypeOK, DataOK
  <2> QED
    BY <1>2, <2>2 DEF Held
<1> QED
  BY <1>2, <1>8, <1>11, <1>12, <1>13

\* ddma_mark gives one block back, or finds nothing to give.
LEMMA MarkGivesBack ==
    ASSUME InRing, numblocks' = numblocks,
           NEW t \in Threads, MarkFree(t)
    PROVE  /\ Waits' = Waits
           /\ debug_sequence' = debug_sequence
           /\ Held' = Held \/ \E d \in Held : Held' = Held \ {d}
<1>1. UNCHANGED <<reading_block, debug_sequence, taken, content>>
  BY DEF MarkFree, CanMark, Awaited, history
<1>2. CASE block' = block
  BY <1>1, <1>2, SameQueue
<1>3. CASE CanMark(blk[t]) /\ block' = [block EXCEPT ![blk[t]] = "free"]
  <2>1. Waits' = Waits
    <3>1. /\ FullCount' = FullCount
          /\ \A i : RingSlot(i)' = RingSlot(i)
      BY <1>1, SameDistance DEF FullCount, RingSlot
    <3> QED
      BY <1>1, <3>1 DEF Waits
  <2> DEFINE U == {x \in Blocks : block[x] = "user"}
             rest == U \ {blk[t]}
             d == content[blk[t]]
  <2>2. blk[t] \in U /\ U' = rest
    BY <1>3 DEF CanMark, InRing, TypeOK, DataOK
  <2>3. Held = {content[b] : b \in U} /\ Held' = {content[b] : b \in rest}
    BY <1>1, <2>2 DEF Held
  <2>4. d \in Held
    BY <2>2, <2>3
  <2>5. rest \subseteq U
    OBVIOUS
  <2>6. Held' = Held \/ Held' = Held \ {d}
    <3>1. CASE \E b \in rest : content[b] = d
      <4>1. \A b \in U : \E c \in rest : content[c] = content[b]
        BY <3>1
      <4> HIDE DEF U, rest
      <4>2. Held \subseteq Held' /\ Held' \subseteq Held
        BY <2>3, <2>5, <4>1
      <4> QED
        BY <4>2
    <3>2. CASE \A b \in rest : content[b] # d
      <4>1. \A b \in U : content[b] = d \/ b \in rest
        OBVIOUS
      <4> HIDE DEF U, rest, d
      <4>2. Held' = Held \ {d}
        BY <2>3, <2>5, <3>2, <4>1
      <4> QED
        BY <4>2
    <3> QED
      BY <3>1, <3>2
  <2> QED
    BY <1>1, <2>1, <2>4, <2>6
<1> QED
  BY <1>2, <1>3 DEF MarkFree, CanMark, Awaited

\* The other steps of the ring: the engine, and the locks around it.
LEMMA OthersKeepQueue ==
    ASSUME InRing, numblocks' = numblocks, RingStep, ~IsrFill,
           \A t \in Threads : ~IrqTake(t) /\ ~MarkFree(t)
    PROVE  Waits' = Waits /\ Held' = Held /\ debug_sequence' = debug_sequence
<1> USE DEF InRing, TypeOK, DataOK, ring, plx, history, handler
<1>1. CASE RingUntouched
  BY <1>1, SameQueue DEF RingUntouched
<1>2. CASE HwFill
  <2>1. block[target] = "dma"
    BY <1>2 DEF HwFill, Ring, Writer, Loaded
  <2>2. \A b \in Blocks : b # target => content'[b] = content[b]
    BY <1>2 DEF HwFill
  <2>3. UNCHANGED ring /\ UNCHANGED taken
    BY <1>2 DEF HwFill
  <2>4. 0..(numblocks - 1) \subseteq Blocks
    BY Indices
  <2> QED
    BY <2>1, <2>2, <2>3, <2>4, SameQueue
<1>3. CASE IsrEnter \/ IsrBlock \/ IsrEngine \/ IsrPost
  <2>1. UNCHANGED <<block, reading_block, debug_sequence, taken, content>>
    BY <1>3 DEF IsrEnter, IsrBlock, IsrEngine, IsrPost
  <2> QED
    BY <2>1, SameQueue
<1>4. CASE IsrRestart
  <2>1. /\ block[next_block] = "free"
        /\ block' = [block EXCEPT ![next_block] = "dma"]
        /\ UNCHANGED <<reading_block, debug_sequence, taken, content>>
    BY <1>4 DEF IsrRestart, BlockToDma, Ring, Writer, InHandler
  <2> QED
    BY <2>1, SameQueue
<1>5. ASSUME NEW t \in Threads, RingThread(t)
      PROVE  Waits' = Waits /\ Held' = Held /\ debug_sequence' = debug_sequence
  <2>1. CASE MarkRestart(t)
    <3>1. /\ block[blk[t]] = "free"
          /\ block' = [block EXCEPT ![blk[t]] = "dma"]
          /\ UNCHANGED <<reading_block, debug_sequence, taken, content>>
      BY <2>1 DEF MarkRestart, BlockToDma, At, Ring, Writer, WithMarker, Marker
    <3> QED
      BY <3>1, SameQueue
  <2>2. CASE MarkEngine(t) \/ BeginTake(t)
    <3>1. UNCHANGED <<block, reading_block, debug_sequence, taken, content>>
      BY <2>2 DEF MarkEngine, BeginTake
    <3> QED
      BY <3>1, SameQueue
  <2> QED
    BY <1>5, <2>1, <2>2 DEF RingThread
<1> QED
  BY <1>1, <1>2, <1>3, <1>4, <1>5 DEF RingStep

-----------------------------------------------------------------------------
(* The refinement *)


\* ddma_start begins with an empty queue.
LEMMA StartBegins ==
    ASSUME TypeOK, IInv, HeldInv, ~Session, Session',
           NEW t \in Threads, StartEngine(t)
    PROVE  Fifo!Begin
<1>1. Ring' /\ numblocks' = numblocks /\ numblocks \in BlockCounts
  BY StartEngineBeginsRing DEF IInv, CallInv, StartEngine, At
<1>2. numblocks' \in Nat \ {0}
  BY <1>1, BlocksFacts
<1>3. debug_sequence' = 0 /\ taken' = 0
  BY DEF IInv, PreparedInv, StartEngine, At, ring, history
<1>4. FullCount' = 0
  BY <1>3 DEF FullCount
<1>5. Waits' = <<>>
  BY <1>4 DEF Waits
<1>6. Held' = {}
  BY DEF HeldInv, StartEngine, At, ring, Held
<1> QED
  BY <1>2, <1>3, <1>5, <1>6 DEF Fifo!Begin, Waits, Held

\* BlockFifo counts with a copy of its own of the library's operator.
LEMMA SameCardinality == \A S : Fifo!Cardinality(S) = Cardinality(S)
BY DEF Fifo!Cardinality, Cardinality

\* Within a session each step is one of the queue or leaves it alone.
LEMMA SessionStep ==
    ASSUME TypeOK, IInv, HeldInv, [Next]_vars, Session, Session'
    PROVE  \/ Fifo!Produce \/ Fifo!HandOut \/ Fifo!GiveBack
           \/ UNCHANGED Fifo!vars
<1>1. ~ \E t \in Threads : StartEngine(t)
  <2>1. ASSUME NEW t \in Threads, StartEngine(t)
        PROVE  FALSE
    <3>1. dmaStatus = "ready" /\ mux = t
      BY <2>1 DEF StartEngine, At, IInv, CallInv, LockInv, MuxLabels
    <3>2. PICK u \in Threads : pc[u] = "start_done"
      BY <3>1 DEF Session, At
    <3> QED
      BY <2>1, <3>1, <3>2 DEF StartEngine, At, IInv, LockInv, MuxLabels
  <2> QED
    BY <2>1
<1>2. numblocks' = numblocks /\ RingStep
  BY <1>1, SessionCases DEF IInv
<1>3. InRing
  BY SessionInRing DEF IInv
<1>4. CASE IsrFill
  <2>1. /\ Len(Waits) + Cardinality(Held) < numblocks
        /\ Waits' = Append(Waits, debug_sequence)
        /\ debug_sequence' = debug_sequence + 1
        /\ Held' = Held
    BY <1>2, <1>3, <1>4, FillProduces
  <2>2. /\ (IF Session THEN [i \in 1..FullCount |-> content[RingSlot(i - 1)]]
                       ELSE <<>>) = Waits
        /\ (IF Session THEN {content[b] : b \in {x \in Blocks : block[x] = "user"}}
                       ELSE {}) = Held
    BY DEF Waits, Held
  <2>3. /\ (IF Session THEN [i \in 1..FullCount |-> content[RingSlot(i - 1)]]
                       ELSE <<>>)' = Waits'
        /\ (IF Session THEN {content[b] : b \in {x \in Blocks : block[x] = "user"}}
                       ELSE {})' = Held'
    BY DEF Waits, Held
  <2> QED
    BY <1>2, <2>1, <2>2, <2>3, SameCardinality DEF Fifo!Produce
<1>5. CASE \E t \in Threads : IrqTake(t)
  BY <1>2, <1>3, <1>5, TakeHandsOut DEF Fifo!HandOut, Waits, Held
<1>6. CASE \E t \in Threads : MarkFree(t)
  <2>1. /\ Waits' = Waits /\ debug_sequence' = debug_sequence
        /\ Held' = Held \/ \E d \in Held : Held' = Held \ {d}
    BY <1>2, <1>3, <1>6, MarkGivesBack
  <2>2. CASE Held' = Held
    BY <1>2, <2>1, <2>2 DEF Fifo!vars, Waits, Held
  <2>3. CASE \E d \in Held : Held' = Held \ {d}
    BY <1>2, <2>1, <2>3 DEF Fifo!GiveBack, Waits, Held
  <2> QED
    BY <2>1, <2>2, <2>3
<1>7. CASE /\ ~IsrFill
           /\ \A t \in Threads : ~IrqTake(t) /\ ~MarkFree(t)
  <2>1. Waits' = Waits /\ Held' = Held /\ debug_sequence' = debug_sequence
    BY <1>2, <1>3, <1>7, OthersKeepQueue
  <2> QED
    BY <1>2, <2>1 DEF Fifo!vars, Waits, Held
<1> QED
  BY <1>4, <1>5, <1>6, <1>7

\* The demand-mode DMA implements the queue of blocks: in one session of any
\* number of threads on any machine, or in any number of sessions on a
\* uniprocessor, for rings of any size, every block of data is handed out once
\* and in order, and there are never more of them under way than blocks.
THEOREM ImplementsFifo ==
    ASSUME OneSessionOrUniprocessor
    PROVE  Spec => FifoSpec
<1>1. Init => HeldInv
  BY DEF Init, HeldInv
<1>2. TypeOK /\ IInv /\ IInv' /\ HeldInv /\ [Next]_vars => HeldInv'
  BY HeldStep
<1>3. Init => Fifo!Init
  BY DEF Init, Fifo!Init, Session
<1>4. TypeOK /\ IInv /\ HeldInv /\ [Next]_vars => [Fifo!Next]_(Fifo!vars)
  <2> SUFFICES ASSUME TypeOK, IInv, HeldInv, [Next]_vars
               PROVE  [Fifo!Next]_(Fifo!vars)
    OBVIOUS
  <2>1. CASE ~Session /\ ~Session'
    <3>1. Session = FALSE /\ Session' = FALSE
      BY <2>1 DEF Session
    <3> QED
      BY <3>1 DEF Fifo!vars
  <2>2. CASE Session /\ ~Session'
    BY <2>2 DEF Fifo!Next, Fifo!End
  <2>3. CASE ~Session /\ Session'
    <3>1. PICK t \in Threads : StartEngine(t)
      BY <2>3, SessionCases DEF IInv
    <3> QED
      BY <2>3, <3>1, StartBegins DEF Fifo!Next
  <2>4. CASE Session /\ Session'
    BY <2>4, SessionStep DEF Fifo!Next
  <2> QED
    BY <2>1, <2>2, <2>3, <2>4
<1> QED
  BY <1>1, <1>2, <1>3, <1>4, Invariance, PTL DEF Spec, FifoSpec, Fifo!Spec

-----------------------------------------------------------------------------
(* What the queue promises *)

\* The promise, of any contents q and h of the queue and of the user's hands.
Ordered(cap, n, q, h) ==
    /\ cap \in Nat /\ n \in Nat /\ q \in Seq(Nat) /\ IsFiniteSet(h)
    /\ \A i \in 1..Len(q) : q[i] = n - Len(q) + i - 1
    /\ \A d \in h : d \in Nat /\ d < n - Len(q)
    /\ Len(q) + Cardinality(h) <= cap

LEMMA EmptyIsOrdered ==
    ASSUME NEW cap \in Nat
    PROVE  Ordered(cap, 0, <<>>, {})
BY FS_EmptySet DEF Ordered

LEMMA ProduceIsOrdered ==
    ASSUME NEW cap, NEW n, NEW q, NEW h, Ordered(cap, n, q, h),
           Len(q) + Cardinality(h) < cap
    PROVE  Ordered(cap, n + 1, Append(q, n), h)
<1>1. /\ Append(q, n) \in Seq(Nat) /\ Len(Append(q, n)) = Len(q) + 1
      /\ \A i \in 1..Len(q) + 1 : Append(q, n)[i] = IF i <= Len(q) THEN q[i] ELSE n
  BY DEF Ordered
<1>2. Len(q) \in Nat /\ Cardinality(h) \in Nat
  BY FS_CardinalityType DEF Ordered
<1>3. \A i \in 1..Len(q) + 1 : Append(q, n)[i] = n + 1 - (Len(q) + 1) + i - 1
  <2> SUFFICES ASSUME NEW i \in 1..Len(q) + 1
               PROVE  Append(q, n)[i] = n + 1 - (Len(q) + 1) + i - 1
    OBVIOUS
  <2>1. CASE i <= Len(q)
    BY <1>1, <1>2, <2>1 DEF Ordered
  <2>2. CASE i = Len(q) + 1
    BY <1>1, <1>2, <2>2 DEF Ordered
  <2> QED
    BY <1>2, <2>1, <2>2
<1>4. \A d \in h : d \in Nat /\ d < n + 1 - (Len(q) + 1)
  BY <1>2 DEF Ordered
<1>5. cap \in Nat /\ n + 1 \in Nat /\ IsFiniteSet(h) /\ (Len(q) + 1) + Cardinality(h) <= cap
  BY <1>2 DEF Ordered
<1>6. \A i \in 1..Len(Append(q, n)) :
          Append(q, n)[i] = n + 1 - Len(Append(q, n)) + i - 1
  BY <1>1, <1>3
<1> QED
  BY <1>1, <1>4, <1>5, <1>6 DEF Ordered

LEMMA HandOutIsOrdered ==
    ASSUME NEW cap, NEW n, NEW q, NEW h, Ordered(cap, n, q, h), q # <<>>
    PROVE  Ordered(cap, n, Tail(q), h \union {Head(q)})
<1>1. /\ Len(q) \in Nat \ {0} /\ Head(q) = q[1] /\ Head(q) \in Nat
      /\ Tail(q) \in Seq(Nat) /\ Len(Tail(q)) = Len(q) - 1
      /\ \A i \in 1..Len(q) - 1 : Tail(q)[i] = q[i + 1]
  BY DEF Ordered
<1>2. Head(q) = n - Len(q)
  BY <1>1 DEF Ordered
<1>3. \A i \in 1..Len(Tail(q)) : Tail(q)[i] = n - Len(Tail(q)) + i - 1
  <2> SUFFICES ASSUME NEW i \in 1..Len(q) - 1
               PROVE  Tail(q)[i] = n - (Len(q) - 1) + i - 1
    BY <1>1
  <2>1. i + 1 \in 1..Len(q)
    BY <1>1
  <2>2. q[i + 1] = n - Len(q) + (i + 1) - 1
    BY <2>1 DEF Ordered
  <2> QED
    BY <1>1, <2>2 DEF Ordered
<1>4. \A d \in h \union {Head(q)} : d \in Nat /\ d < n - Len(Tail(q))
  BY <1>1, <1>2 DEF Ordered
<1>5. Head(q) \notin h
  BY <1>1, <1>2 DEF Ordered
<1>6. /\ IsFiniteSet(h \union {Head(q)})
      /\ Cardinality(h \union {Head(q)}) = Cardinality(h) + 1
  BY <1>5, FS_AddElement DEF Ordered
<1>7. Cardinality(h) \in Nat
  BY FS_CardinalityType DEF Ordered
<1> QED
  BY <1>1, <1>3, <1>4, <1>6, <1>7 DEF Ordered

LEMMA GiveBackIsOrdered ==
    ASSUME NEW cap, NEW n, NEW q, NEW h, Ordered(cap, n, q, h), NEW d \in h
    PROVE  Ordered(cap, n, q, h \ {d})
<1>1. IsFiniteSet(h \ {d}) /\ Cardinality(h \ {d}) = Cardinality(h) - 1
  BY FS_RemoveElement DEF Ordered
<1>2. Cardinality(h) \in Nat /\ Len(q) \in Nat
  BY FS_CardinalityType DEF Ordered
<1> QED
  BY <1>1, <1>2 DEF Ordered

\* What the substitution of INSTANCE makes of the queue.
QueueCapacity == IF Session THEN numblocks ELSE 0
QueueProduced == IF Session THEN debug_sequence ELSE 0
QueueFull == IF Session THEN Waits ELSE <<>>
QueueHeld == IF Session THEN Held ELSE {}
QueueInv == Ordered(QueueCapacity, QueueProduced, QueueFull, QueueHeld)

LEMMA QueueStep ==
    ASSUME QueueInv, [Fifo!Next]_(Fifo!vars)
    PROVE  QueueInv'
<1> USE DEF QueueCapacity, QueueProduced, QueueFull, QueueHeld
<1>1. CASE Fifo!Begin
  BY <1>1, EmptyIsOrdered DEF Fifo!Begin, QueueInv, Waits, Held
<1>2. CASE Fifo!End
  BY <1>2, EmptyIsOrdered DEF Fifo!End, QueueInv, Waits, Held
<1>3. CASE Fifo!Produce
  <2>1. /\ Len(QueueFull) + Cardinality(QueueHeld) < QueueCapacity
        /\ QueueCapacity' = QueueCapacity /\ QueueHeld' = QueueHeld
        /\ QueueProduced' = QueueProduced + 1
        /\ QueueFull' = Append(QueueFull, QueueProduced)
    BY <1>3, SameCardinality DEF Fifo!Produce, Waits, Held
  <2> HIDE DEF QueueCapacity, QueueProduced, QueueFull, QueueHeld
  <2> QED
    BY <2>1, ProduceIsOrdered DEF QueueInv
<1>4. CASE Fifo!HandOut
  <2>1. /\ QueueFull # <<>>
        /\ QueueCapacity' = QueueCapacity /\ QueueProduced' = QueueProduced
        /\ QueueFull' = Tail(QueueFull)
        /\ QueueHeld' = QueueHeld \union {Head(QueueFull)}
    BY <1>4 DEF Fifo!HandOut, Waits, Held
  <2> HIDE DEF QueueCapacity, QueueProduced, QueueFull, QueueHeld
  <2> QED
    BY <2>1, HandOutIsOrdered DEF QueueInv
<1>5. CASE Fifo!GiveBack
  <2>1. /\ QueueCapacity' = QueueCapacity /\ QueueProduced' = QueueProduced
        /\ QueueFull' = QueueFull
        /\ \E d \in QueueHeld : QueueHeld' = QueueHeld \ {d}
    BY <1>5 DEF Fifo!GiveBack, Waits, Held
  <2> HIDE DEF QueueCapacity, QueueProduced, QueueFull, QueueHeld
  <2> QED
    BY <2>1, GiveBackIsOrdered DEF QueueInv
<1>6. CASE UNCHANGED Fifo!vars
  BY <1>6 DEF Fifo!vars, QueueInv, Waits, Held
<1> QED
  BY <1>1, <1>2, <1>3, <1>4, <1>5, <1>6 DEF Fifo!Next

\* What the user is promised holds of the ring: what he has not yet been given
\* is all that the front end has delivered since what he was given last, in its
\* order, none of it is in his hands, and both fit into the ring.
THEOREM PromiseHolds ==
    ASSUME OneSessionOrUniprocessor
    PROVE  Spec => []Fifo!Promise
<1>1. Fifo!Init => QueueInv
  <2> SUFFICES ASSUME Fifo!Init PROVE QueueInv
    OBVIOUS
  <2>1. QueueCapacity = 0 /\ QueueProduced = 0 /\ QueueFull = <<>> /\ QueueHeld = {}
    BY DEF Fifo!Init, QueueCapacity, QueueProduced, QueueFull, QueueHeld, Waits, Held
  <2> QED
    BY <2>1, EmptyIsOrdered DEF QueueInv
<1>2. QueueInv /\ [Fifo!Next]_(Fifo!vars) => QueueInv'
  BY QueueStep
<1>3. QueueInv => Fifo!Promise
  <2> SUFFICES ASSUME QueueInv PROVE Fifo!Promise
    OBVIOUS
  <2> DEFINE q == QueueFull
  <2>1. /\ q = [i \in 1..Len(q) |-> QueueProduced - Len(q) + i - 1]
        /\ \A d \in QueueHeld : d \in Nat /\ d < QueueProduced - Len(q)
        /\ Len(q) + Cardinality(QueueHeld) <= QueueCapacity
    <3> HIDE DEF q
    <3>1. /\ q \in Seq(Nat) /\ \A i \in 1..Len(q) : q[i] = QueueProduced - Len(q) + i - 1
          /\ \A d \in QueueHeld : d \in Nat /\ d < QueueProduced - Len(q)
          /\ Len(q) + Cardinality(QueueHeld) <= QueueCapacity
      BY DEF QueueInv, Ordered, q
    <3>2. q = [i \in 1..Len(q) |-> q[i]]
      BY <3>1
    <3> QED
      BY <3>1, <3>2
  <2> QED
    BY <2>1, SameCardinality
       DEF Fifo!Promise, QueueCapacity, QueueProduced, QueueFull, QueueHeld, Waits, Held
<1> QED
  BY <1>1, <1>2, <1>3, ImplementsFifo, PTL DEF FifoSpec, Fifo!Spec
=============================================================================
