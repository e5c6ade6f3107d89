-------------------------- MODULE DemandDmaProofs --------------------------
(***************************************************************************)
(* Proofs about DemandDma: type correctness, and the inductive invariant of *)
(* DemandDmaInv with what follows from it.                                 *)
(***************************************************************************)
EXTENDS DemandDmaInv, TLAPS

-----------------------------------------------------------------------------
(* The ring arithmetic *)

\* The indices of a ring are natural numbers and begin with 0.
LEMMA BlocksFacts ==
    /\ Blocks \subseteq Nat
    /\ 0 \in Blocks
    /\ \A n \in BlockCounts : n \in Nat /\ n > 0 /\ 0..(n - 1) \subseteq Blocks
<1>1. \A n \in BlockCounts : n \in Nat /\ n > 0
  BY BoundsAssumption
<1>2. \A n \in BlockCounts : 0..(n - 1) \subseteq Nat /\ 0 \in 0..(n - 1)
  BY <1>1
<1>3. \A n \in BlockCounts : 0..(n - 1) \subseteq Blocks
  BY DEF Blocks
<1>4. Blocks \subseteq Nat
  BY <1>2 DEF Blocks
<1>5. 0 \in Blocks
  BY <1>2, <1>3, BoundsAssumption
<1> QED
  BY <1>1, <1>3, <1>4, <1>5

\* The index after an index, or after -1, is an index.
LEMMA SuccessorType ==
    ASSUME numblocks \in BlockCounts \union {0},
           NEW b \in Blocks \union {-1}
    PROVE  Successor(b) \in Blocks
<1>1. CASE b + 1 >= numblocks
  BY <1>1, BlocksFacts DEF Successor
<1>2. CASE ~(b + 1 >= numblocks)
  <2>1. b \in Int /\ b >= -1
    BY BlocksFacts
  <2>2. numblocks \in BlockCounts
    BY <1>2, <2>1
  <2>3. b + 1 \in 0..(numblocks - 1)
    BY <1>2, <2>1, <2>2, BlocksFacts
  <2> QED
    BY <1>2, <2>2, <2>3, BlocksFacts DEF Successor
<1> QED
  BY <1>1, <1>2

-----------------------------------------------------------------------------
(* The actions of a step *)

ThreadAction(t) ==
    \/ OpenFile(t) \/ Release(t) \/ ReleaseUnmap(t) \/ ReleaseClose(t)
    \/ \E n \in BlockCounts \union {0} : Map(t, n)
    \/ StartReset(t) \/ StartEngine(t) \/ StartDone(t)
    \/ StopDisable(t) \/ StopAbort(t) \/ StopDone(t)
    \/ WaitFinished(t) \/ WaitSleep(t) \/ Signal(t)
    \/ \E b \in Blocks : Mark(t, b)
    \/ MarkFree(t) \/ MarkRestart(t) \/ MarkEngine(t)
    \/ IrqWait(t) \/ IrqGet(t) \/ IrqTake(t)
    \/ \E mask \in SUBSET Bits : IrqAck(t, mask)

\* Every step is one of the actions or a stuttering step.
LEMMA StepCases ==
    ASSUME [Next]_vars
    PROVE  \/ HwFill \/ HwDoorbell
           \/ IsrEnter \/ IsrFill \/ IsrBlock \/ IsrRestart \/ IsrEngine
           \/ IsrPost
           \/ CpuFree /\ (ThreadFetch \/ ThreadUpdate \/ ThreadWake)
           \/ CpuFree /\ \E t \in Threads : ThreadAction(t)
           \/ UNCHANGED vars
BY DEF Next, IsrStep, IrqThreadStep, UserCall, CallStep, ThreadAction

-----------------------------------------------------------------------------
(* Type correctness *)

\* What goes on at a label stays well-typed.
LEMMA GotoType ==
    ASSUME DataOK, NEW t \in Threads, NEW label \in Labels,
           NEW b \in Blocks, GotoWith(t, label, b)
    PROVE  /\ pc' \in [Threads -> Labels]
           /\ blk' \in [Threads -> Blocks]
           /\ releasing' \in [Threads -> BOOLEAN]
BY DEF DataOK, GotoWith

LEMMA GotoType2 ==
    ASSUME DataOK, NEW t \in Threads, NEW label \in Labels, Goto(t, label)
    PROVE  /\ pc' \in [Threads -> Labels]
           /\ blk' \in [Threads -> Blocks]
           /\ releasing' \in [Threads -> BOOLEAN]
<1>1. (IF label = "idle" THEN 0 ELSE blk[t]) \in Blocks
  BY BlocksFacts DEF DataOK
<1> QED
  BY <1>1, GotoType DEF Goto

LEMMA AutoackedType ==
    ASSUME DataOK, NEW t \in Threads, Autoacked(t)
    PROVE  pending' \in SUBSET Bits
BY FilesAssumption DEF DataOK, Autoacked, AfterAck, IrqPending, Bits

\* Every step keeps the flags Boolean.
LEMMA FlagsStep ==
    ASSUME FlagsOK, [Next]_vars
    PROVE  FlagsOK'
<1> USE DEF FlagsOK, ring, plx, config, history, irqs, handler, user, locks
<1>1. CASE HwFill \/ HwDoorbell
  BY <1>1 DEF HwFill, HwDoorbell
<1>2. CASE IsrEnter \/ IsrFill \/ IsrBlock \/ IsrRestart \/ IsrEngine \/ IsrPost
  BY <1>2 DEF IsrEnter, IsrFill, InUse, IsrBlock, IsrRestart, IsrEngine,
              IsrPost, EngineStart, BlockToDma
<1>3. CASE ThreadFetch \/ ThreadUpdate \/ ThreadWake
  BY <1>3 DEF ThreadFetch, ThreadUpdate, ThreadWake
<1>4. ASSUME NEW t \in Threads, ThreadAction(t)
      PROVE  FlagsOK'
  <2>1. CASE \/ OpenFile(t) \/ Release(t) \/ ReleaseUnmap(t) \/ ReleaseClose(t)
             \/ \E n \in BlockCounts \union {0} : Map(t, n)
    BY <2>1 DEF OpenFile, Release, Cleanup, ReleaseUnmap, ReleaseClose, Map
  <2>2. CASE StartReset(t) \/ StartEngine(t) \/ StartDone(t)
    BY <2>2 DEF StartReset, ResetRing, StartEngine, StartDone, EngineStart
  <2>3. CASE StopDisable(t) \/ StopAbort(t) \/ StopDone(t)
    BY <2>3 DEF StopDisable, StopAbort, Abort, StopDone
  <2>4. CASE WaitFinished(t) \/ WaitSleep(t) \/ Signal(t)
    BY <2>4 DEF WaitFinished, WaitSleep, Signal
  <2>5. CASE \/ \E b \in Blocks : Mark(t, b)
             \/ MarkFree(t) \/ MarkRestart(t) \/ MarkEngine(t)
    BY <2>5 DEF Mark, MarkFree, CanMark, Awaited, MarkRestart, MarkEngine,
                EngineStart
  <2>6. CASE \/ IrqWait(t) \/ IrqGet(t) \/ IrqTake(t)
             \/ \E mask \in SUBSET Bits : IrqAck(t, mask)
    BY <2>6 DEF IrqWait, IrqGet, HasData, IrqTake, IrqAck
  <2> QED
    BY <1>4, <2>1, <2>2, <2>3, <2>4, <2>5, <2>6 DEF ThreadAction
<1>5. CASE UNCHANGED vars
  BY <1>5 DEF vars
<1> QED
  BY <1>1, <1>2, <1>3, <1>4, <1>5, StepCases

\* Every step keeps the other variables in their types.
LEMMA DataStep ==
    ASSUME DataOK, [Next]_vars
    PROVE  DataOK'
<1> USE BlocksFacts
<1> USE DEF DataOK, ring, plx, config, history, irqs, handler, user, locks
<1>1. CASE HwFill \/ HwDoorbell
  <2>1. CASE HwFill
    BY <2>1 DEF HwFill
  <2>2. CASE HwDoorbell
    BY <2>2 DEF HwDoorbell, Bits
  <2> QED
    BY <1>1, <2>1, <2>2
<1>2. CASE IsrEnter
  BY <1>2 DEF IsrEnter, At, Labels
<1>3. CASE IsrFill
  <2>1. Successor(writing_block) \in Blocks
    BY SuccessorType
  <2> QED
    BY <1>3, <2>1 DEF IsrFill, InUse
<1>4. CASE IsrBlock \/ IsrRestart \/ IsrEngine \/ IsrPost
  BY <1>4 DEF IsrBlock, IsrRestart, IsrEngine, IsrPost, EngineStart,
     BlockToDma, Bits
<1>5. CASE ThreadFetch \/ ThreadUpdate \/ ThreadWake
  BY <1>5 DEF ThreadFetch, ThreadUpdate, ThreadWake, At, Labels
<1>6. ASSUME NEW t \in Threads, ThreadAction(t)
      PROVE  DataOK'
  <2>1. CASE OpenFile(t)
    BY <2>1, FilesAssumption DEF OpenFile
  <2>2. CASE Release(t)
    BY <2>2 DEF Release, Cleanup, Labels
  <2>3. CASE ReleaseUnmap(t)
    BY <2>3, GotoType2 DEF ReleaseUnmap, Labels
  <2>4. CASE ReleaseClose(t)
    BY <2>4 DEF ReleaseClose, Labels
  <2>5. CASE \E n \in BlockCounts \union {0} : Map(t, n)
    BY <2>5, FilesAssumption DEF Map
  <2>6. CASE StartReset(t)
    BY <2>6, GotoType2 DEF StartReset, ResetRing, Labels
  <2>7. CASE StartEngine(t) \/ StartDone(t)
    BY <2>7, GotoType2 DEF StartEngine, StartDone, EngineStart, Labels
  <2>8. CASE StopDisable(t) \/ StopAbort(t) \/ StopDone(t)
    BY <2>8, GotoType2 DEF StopDisable, StopAbort, Abort, StopDone, Labels
  <2>9. CASE WaitFinished(t) \/ WaitSleep(t) \/ Signal(t)
    BY <2>9, GotoType2 DEF WaitFinished, WaitSleep, Signal, Labels
  <2>10. CASE \E b \in Blocks : Mark(t, b)
    BY <2>10, GotoType DEF Mark, Labels
  <2>11. CASE MarkFree(t) \/ MarkRestart(t) \/ MarkEngine(t)
    BY <2>11, GotoType2 DEF MarkFree, CanMark, Awaited, MarkRestart,
                            MarkEngine, BlockToDma, EngineStart, Labels
  <2>12. CASE IrqWait(t)
    BY <2>12, GotoType2 DEF IrqWait, Labels
  <2>13. CASE IrqGet(t)
    <3>1. CASE GotoWith(t, "take", Successor(reading_block)) /\ UNCHANGED <<ring, pending>>
      <4>1. Successor(reading_block) \in Blocks
        BY SuccessorType
      <4>2. "take" \in Labels
        BY DEF Labels
      <4> QED
        BY <2>13, <3>1, <4>1, <4>2, GotoType DEF IrqGet, HasData
    <3>2. CASE Goto(t, "idle") /\ Autoacked(t) /\ UNCHANGED <<ring, seminfo>>
      <4>1. "idle" \in Labels
        BY DEF Labels
      <4> QED
        BY <2>13, <3>2, <4>1, GotoType2, AutoackedType DEF IrqGet, HasData
    <3> QED
      BY <2>13, <3>1, <3>2 DEF IrqGet, HasData
  <2>14. CASE IrqTake(t)
    BY <2>14, GotoType2, AutoackedType DEF IrqTake, Labels
  <2>15. CASE \E mask \in SUBSET Bits : IrqAck(t, mask)
    BY <2>15 DEF IrqAck, AfterAck, Bits
  <2> QED
    BY <1>6, <2>1, <2>2, <2>3, <2>4, <2>5, <2>6, <2>7, <2>8, <2>9, <2>10,
       <2>11, <2>12, <2>13, <2>14, <2>15 DEF ThreadAction
<1>7. CASE UNCHANGED vars
  BY <1>7 DEF vars
<1> QED
  BY <1>1, <1>2, <1>3, <1>4, <1>5, <1>6, <1>7, StepCases

\* In every reachable state every variable of the driver, of the chip and of
\* the calls under way has its type: no index leaves the ring, whatever the
\* number of blocks, threads and files.
THEOREM TypeCorrect == Spec => []TypeOK
<1>1. Init => TypeOK
  BY BlocksFacts, FilesAssumption
     DEF Init, TypeOK, FlagsOK, DataOK, Labels
<1>2. TypeOK /\ [Next]_vars => TypeOK'
  BY FlagsStep, DataStep DEF TypeOK
<1> QED
  BY <1>1, <1>2, PTL DEF Spec

-----------------------------------------------------------------------------
(* The locks *)

\* A step of thread t puts it at a label and leaves the others alone.
LEMMA GotoEffect ==
    ASSUME DataOK, NEW t \in Threads, NEW label, Goto(t, label)
    PROVE  pc'[t] = label /\ \A u \in Threads \ {t} : pc'[u] = pc[u]
BY DEF Goto, GotoWith, DataOK

LEMMA GotoWithEffect ==
    ASSUME DataOK, NEW t \in Threads, NEW label, NEW b, GotoWith(t, label, b)
    PROVE  /\ pc'[t] = label /\ blk'[t] = b
           /\ \A u \in Threads \ {t} : pc'[u] = pc[u] /\ blk'[u] = blk[u]
BY DEF GotoWith, DataOK

LEMMA LockStep ==
    ASSUME TypeOK, LockInv, [Next]_vars
    PROVE  LockInv'
<1> USE DEF TypeOK, DataOK, LockInv, MuxLabels
<1> USE DEF ring, plx, config, history, irqs, handler, user, locks
<1>1. CASE \/ HwFill \/ HwDoorbell
           \/ IsrFill \/ IsrBlock \/ IsrRestart \/ IsrEngine \/ IsrPost
  BY <1>1 DEF HwFill, HwDoorbell, IsrFill, InUse, IsrBlock, IsrRestart,
              IsrEngine, IsrPost
<1>2. CASE IsrEnter
  BY <1>2 DEF IsrEnter, At
<1>3. CASE ThreadFetch \/ ThreadUpdate \/ ThreadWake
  BY <1>3 DEF ThreadFetch, ThreadUpdate, ThreadWake, At
<1>4. ASSUME NEW t \in Threads, ThreadAction(t)
      PROVE  LockInv'
  <2> USE GotoEffect, GotoWithEffect, FilesAssumption DEF At, Enter
  <2>1. CASE OpenFile(t) \/ Release(t)
    BY <2>1 DEF OpenFile, Release, Cleanup
  <2>2. CASE ReleaseUnmap(t) \/ ReleaseClose(t)
    BY <2>2 DEF ReleaseUnmap, ReleaseClose
  <2>3. CASE \E n \in BlockCounts \union {0} : Map(t, n)
    BY <2>3 DEF Map
  <2>4. CASE StartReset(t) \/ StartEngine(t) \/ StartDone(t)
    BY <2>4 DEF StartReset, ResetRing, StartEngine, StartDone, MuxFree
  <2>5. CASE StopDisable(t) \/ StopAbort(t) \/ StopDone(t)
    BY <2>5 DEF StopDisable, StopAbort, Abort, StopDone, MuxFree
  <2>6. CASE WaitFinished(t) \/ WaitSleep(t) \/ Signal(t)
    BY <2>6 DEF WaitFinished, WaitSleep, Signal, MuxFree
  <2>7. CASE \E b \in Blocks : Mark(t, b)
    BY <2>7 DEF Mark
  <2>8. CASE MarkFree(t) \/ MarkRestart(t) \/ MarkEngine(t)
    BY <2>8 DEF MarkFree, CanMark, Awaited, MarkRestart, MarkEngine
  <2>9. CASE IrqWait(t)
    BY <2>9 DEF IrqWait
  <2>10. CASE IrqGet(t)
    BY <2>10 DEF IrqGet, HasData
  <2>11. CASE IrqTake(t)
    BY <2>11 DEF IrqTake
  <2>12. CASE \E mask \in SUBSET Bits : IrqAck(t, mask)
    BY <2>12 DEF IrqAck
  <2> QED
    BY <1>4, <2>1, <2>2, <2>3, <2>4, <2>5, <2>6, <2>7, <2>8, <2>9, <2>10,
       <2>11, <2>12 DEF ThreadAction
<1>5. CASE UNCHANGED vars
  BY <1>5 DEF vars
<1> QED
  BY <1>1, <1>2, <1>3, <1>4, <1>5, StepCases

-----------------------------------------------------------------------------
(* What start and stop rely on *)

LEMMA CallInvStep ==
    ASSUME TypeOK, LockInv, CallInv, [Next]_vars
    PROVE  CallInv'
<1> USE DEF TypeOK, DataOK, LockInv, CallInv, MuxLabels
<1> USE DEF ring, plx, config, history, irqs, handler, user, locks
<1>1. CASE HwFill
  BY <1>1 DEF HwFill
<1>2. CASE HwDoorbell \/ IsrFill \/ IsrBlock \/ IsrRestart \/ IsrPost
  BY <1>2 DEF HwDoorbell, IsrFill, InUse, IsrBlock, IsrRestart, IsrPost
<1>3. CASE IsrEnter
  BY <1>3 DEF IsrEnter, At
<1>4. CASE IsrEngine
  BY <1>4 DEF IsrEngine, EngineStart
<1>5. CASE ThreadFetch \/ ThreadUpdate \/ ThreadWake
  BY <1>5 DEF ThreadFetch, ThreadUpdate, ThreadWake, At
<1>6. ASSUME NEW t \in Threads, ThreadAction(t)
      PROVE  CallInv'
  <2> USE GotoEffect, GotoWithEffect, FilesAssumption DEF At, Enter
  <2>1. CASE OpenFile(t) \/ Release(t)
    BY <2>1 DEF OpenFile, Release, Cleanup
  <2>2. CASE ReleaseUnmap(t) \/ ReleaseClose(t)
    BY <2>2 DEF ReleaseUnmap, ReleaseClose, MuxFree
  <2>3. CASE \E n \in BlockCounts \union {0} : Map(t, n)
    BY <2>3 DEF Map, MuxFree
  <2>4. CASE StartReset(t) \/ StartEngine(t) \/ StartDone(t)
    BY <2>4 DEF StartReset, ResetRing, StartEngine, StartDone, EngineStart,
                MuxFree
  <2>5. CASE StopDisable(t) \/ StopAbort(t) \/ StopDone(t)
    <3>1. CASE StopDisable(t)
      BY <3>1 DEF StopDisable, MuxFree
    <3>2. CASE StopAbort(t)
      <4>1. ~(active' /\ latched')
        BY <3>2 DEF StopAbort, Abort
      <4>2. UNCHANGED <<dmaStatus, numblocks, hook>>
        BY <3>2 DEF StopAbort, Abort
      <4>3. pc'[t] \in {"stop_done", "unmap", "idle"} /\ pc[t] = "stop_abort"
        BY <3>2 DEF StopAbort, Abort
      <4>4. \A u \in Threads \ {t} : pc'[u] = pc[u]
        BY <3>2 DEF StopAbort, Abort
      <4> QED
        BY <4>1, <4>2, <4>3, <4>4
    <3>3. CASE StopDone(t)
      BY <3>3 DEF StopDone
    <3> QED
      BY <2>5, <3>1, <3>2, <3>3
  <2>6. CASE WaitFinished(t) \/ WaitSleep(t) \/ Signal(t)
    <3>1. CASE WaitFinished(t)
      <4>1. UNCHANGED <<active, latched, numblocks, hook>> /\ dmaStatus' = "ready"
        BY <3>1 DEF WaitFinished
      <4>2. dmaStatus # "invalid" \/ pc[t] = "wait_done"
        BY <3>1 DEF WaitFinished
      <4>3. pc'[t] = "idle" /\ \A u \in Threads \ {t} : pc'[u] = pc[u]
        BY <3>1 DEF WaitFinished
      <4>4. numblocks \in BlockCounts
        BY <4>2
      <4>5. \A u \in Threads \ {t} : pc[u] \notin MuxLabels
        BY <3>1 DEF WaitFinished, MuxFree
      <4> QED
        BY <4>1, <4>3, <4>4, <4>5
    <3>2. CASE WaitSleep(t)
      BY <3>2 DEF WaitSleep, MuxFree
    <3>3. CASE Signal(t)
      BY <3>3 DEF Signal
    <3> QED
      BY <2>6, <3>1, <3>2, <3>3
  <2>7. CASE \E b \in Blocks : Mark(t, b)
    BY <2>7 DEF Mark
  <2>8. CASE MarkFree(t) \/ MarkRestart(t) \/ MarkEngine(t)
    BY <2>8 DEF MarkFree, CanMark, Awaited, MarkRestart, MarkEngine,
                EngineStart
  <2>9. CASE IrqWait(t) \/ IrqTake(t)
    BY <2>9 DEF IrqWait, IrqTake
  <2>10. CASE IrqGet(t)
    BY <2>10 DEF IrqGet, HasData
  <2>11. CASE \E mask \in SUBSET Bits : IrqAck(t, mask)
    BY <2>11 DEF IrqAck
  <2> QED
    BY <1>6, <2>1, <2>2, <2>3, <2>4, <2>5, <2>6, <2>7, <2>8, <2>9, <2>10,
       <2>11 DEF ThreadAction
<1>7. CASE UNCHANGED vars
  BY <1>7 DEF vars
<1> QED
  BY <1>1, <1>2, <1>3, <1>4, <1>5, <1>6, <1>7, StepCases

\* Before the first start nothing can begin but that start.
LEMMA FirstStep ==
    ASSUME TypeOK, FirstInv, [Next]_vars
    PROVE  FirstInv'
<1> SUFFICES ASSUME starts' = 0
             PROVE  Calm' /\ dmaStatus' # "running"
                    /\ \A t \in Threads : pc'[t] \notin MuxLabels
  BY DEF FirstInv
<1> USE DEF TypeOK, DataOK, FirstInv, Calm, MuxLabels
<1> USE DEF ring, plx, config, history, irqs, handler, user, locks
<1>1. CASE \/ HwFill \/ HwDoorbell \/ IsrEnter
           \/ IsrFill \/ IsrBlock \/ IsrRestart \/ IsrEngine \/ IsrPost
  BY <1>1 DEF HwFill, HwDoorbell, IsrEnter, IsrFill, InUse, IsrBlock,
              IsrRestart, IsrEngine, IsrPost
<1>2. CASE ThreadFetch \/ ThreadUpdate \/ ThreadWake
  BY <1>2 DEF ThreadFetch, ThreadUpdate, ThreadWake, At
<1>3. ASSUME NEW t \in Threads, ThreadAction(t)
      PROVE  Calm' /\ dmaStatus' # "running"
             /\ \A u \in Threads : pc'[u] \notin MuxLabels
  <2> USE GotoEffect, GotoWithEffect DEF At, Enter
  <2>1. CASE OpenFile(t) \/ Release(t)
    BY <2>1 DEF OpenFile, Release, Cleanup
  <2>2. CASE ReleaseUnmap(t) \/ ReleaseClose(t)
    BY <2>2 DEF ReleaseUnmap, ReleaseClose
  <2>3. CASE \E n \in BlockCounts \union {0} : Map(t, n)
    BY <2>3 DEF Map
  <2>4. CASE StartReset(t) \/ StartEngine(t) \/ StartDone(t)
    BY <2>4 DEF StartReset, ResetRing, StartEngine, StartDone
  <2>5. CASE StopDisable(t) \/ StopAbort(t) \/ StopDone(t)
    BY <2>5 DEF StopDisable, StopAbort, Abort, StopDone
  <2>6. CASE WaitFinished(t) \/ WaitSleep(t) \/ Signal(t)
    BY <2>6 DEF WaitFinished, WaitSleep, Signal
  <2>7. CASE \/ \E b \in Blocks : Mark(t, b)
             \/ MarkFree(t) \/ MarkRestart(t) \/ MarkEngine(t)
    BY <2>7 DEF Mark, MarkFree, CanMark, Awaited, MarkRestart, MarkEngine
  <2>8. CASE IrqWait(t)
    BY <2>8 DEF IrqWait
  <2>9. CASE IrqGet(t) \/ IrqTake(t)
    BY <2>9 DEF IrqGet, HasData, IrqTake
  <2>10. CASE \E mask \in SUBSET Bits : IrqAck(t, mask)
    BY <2>10 DEF IrqAck
  <2> QED
    BY <1>3, <2>1, <2>2, <2>3, <2>4, <2>5, <2>6, <2>7, <2>8, <2>9, <2>10
       DEF ThreadAction
<1>4. CASE UNCHANGED vars
  BY <1>4 DEF vars
<1> QED
  BY <1>1, <1>2, <1>3, <1>4, StepCases

\* ddma_start finds all calm: it is the first start, or the last session is
\* over on a uniprocessor.
LEMMA CalmAtStart ==
    ASSUME TypeOK, LockInv, CallInv, FirstInv, CalmInv,
           OneSessionOrUniprocessor, CpuFree,
           NEW t \in Threads, StartReset(t)
    PROVE  Calm
<1>1. CASE MaxStarts <= 1
  <2>1. starts = 0
    BY <1>1, BoundsAssumption DEF StartReset, ResetRing, TypeOK, DataOK
  <2> QED
    BY <2>1 DEF FirstInv
<1>2. CASE Uniprocessor
  <2>1. dmaStatus = "ready" /\ \A u \in Threads : pc[u] = "idle"
    BY <1>2 DEF Uniprocessor, StartReset, ResetRing, Enter, At
  <2>2. isr = "idle"
    BY <1>2 DEF CpuFree, Uniprocessor
  <2> QED
    BY <1>2, <2>1, <2>2 DEF CalmInv, Calm
<1> QED
  BY <1>1, <1>2 DEF OneSessionOrUniprocessor

\* Only StartReset leads to start_engine, and only it counts a start.
LEMMA OnlyResetPrepares ==
    ASSUME TypeOK, [Next]_vars
    PROVE  \/ /\ starts' = starts
              /\ \A s \in Threads : pc'[s] = "start_engine" => pc[s] = "start_engine"
           \/ \E t \in Threads : CpuFree /\ StartReset(t)
<1> DEFINE Kept == /\ starts' = starts
                   /\ \A s \in Threads :
                        pc'[s] = "start_engine" => pc[s] = "start_engine"
<1> USE DEF TypeOK, DataOK, At
<1> USE DEF ring, plx, config, history, irqs, handler, user, locks
<1>1. CASE \/ HwFill \/ HwDoorbell \/ IsrEnter
           \/ IsrFill \/ IsrBlock \/ IsrRestart \/ IsrEngine \/ IsrPost
  BY <1>1 DEF HwFill, HwDoorbell, IsrEnter, IsrFill, InUse, IsrBlock,
              IsrRestart, IsrEngine, IsrPost
<1>2. CASE ThreadFetch \/ ThreadUpdate \/ ThreadWake
  BY <1>2 DEF ThreadFetch, ThreadUpdate, ThreadWake
<1>3. ASSUME NEW t \in Threads, CpuFree, ThreadAction(t)
      PROVE  Kept \/ StartReset(t)
  <2> USE GotoEffect, GotoWithEffect
  <2>1. CASE OpenFile(t) \/ Release(t)
    BY <2>1 DEF OpenFile, Release, Cleanup
  <2>2. CASE ReleaseUnmap(t) \/ ReleaseClose(t)
    BY <2>2 DEF ReleaseUnmap, ReleaseClose
  <2>3. CASE \E n \in BlockCounts \union {0} : Map(t, n)
    BY <2>3 DEF Map
  <2>4. CASE StartEngine(t) \/ StartDone(t)
    BY <2>4 DEF StartEngine, StartDone
  <2>5. CASE StopDisable(t) \/ StopAbort(t) \/ StopDone(t)
    BY <2>5 DEF StopDisable, StopAbort, Abort, StopDone
  <2>6. CASE WaitFinished(t) \/ WaitSleep(t) \/ Signal(t)
    BY <2>6 DEF WaitFinished, WaitSleep, Signal
  <2>7. CASE \/ \E b \in Blocks : Mark(t, b)
             \/ MarkFree(t) \/ MarkRestart(t) \/ MarkEngine(t)
    BY <2>7 DEF Mark, MarkFree, CanMark, Awaited, MarkRestart, MarkEngine
  <2>8. CASE IrqWait(t)
    BY <2>8 DEF IrqWait
  <2>9. CASE IrqGet(t) \/ IrqTake(t)
    BY <2>9 DEF IrqGet, HasData, IrqTake
  <2>10. CASE \E mask \in SUBSET Bits : IrqAck(t, mask)
    BY <2>10 DEF IrqAck
  <2> QED
    BY <1>3, <2>1, <2>2, <2>3, <2>4, <2>5, <2>6, <2>7, <2>8, <2>9, <2>10
       DEF ThreadAction
<1>4. CASE UNCHANGED vars
  BY <1>4 DEF vars
<1> QED
  BY <1>1, <1>2, <1>3, <1>4, StepCases

\* A step of start_dma() or of the interrupt handler does not exist while
\* ddma_start has the ring prepared.
LEMMA PreparedStep ==
    ASSUME TypeOK, LockInv, CallInv, FirstInv, PreparedInv, CalmInv,
           OneSessionOrUniprocessor, [Next]_vars
    PROVE  PreparedInv'
<1> DEFINE Ready == /\ Calm
                    /\ block[0] = "dma"
                    /\ \A b \in 1..(numblocks - 1) : block[b] = "free"
                    /\ reading_block = -1 /\ writing_block = 0
                    /\ ~is_blocked
                    /\ debug_sequence = 0 /\ filled = 0 /\ taken = 0
<1>1. SUFFICES ASSUME NEW s \in Threads, pc'[s] = "start_engine"
               PROVE  Ready'
  BY DEF PreparedInv
<1>2. ASSUME NEW t \in Threads, CpuFree, StartReset(t)
      PROVE  Ready'
  <2>1. Calm
    BY <1>2, CalmAtStart
  <2>2. numblocks \in BlockCounts
    BY <1>2 DEF StartReset, ResetRing, CallInv
  <2>3. 0..(numblocks - 1) \subseteq Blocks /\ 0 \in Blocks /\ numblocks \in Nat
    BY <2>2, BlocksFacts
  <2>4. block'[0] = "dma" /\ \A b \in 1..(numblocks - 1) : block'[b] = "free"
    BY <1>2, <2>3, BlocksFacts DEF StartReset, ResetRing
  <2>5. Calm'
    BY <1>2, <2>1, GotoEffect
       DEF Calm, StartReset, ResetRing, TypeOK, DataOK, plx, handler
  <2> QED
    BY <1>2, <2>4, <2>5 DEF StartReset, ResetRing
<1>3. CASE pc[s] = "start_engine"
  <2>1. Ready /\ mux = s /\ dmaStatus = "ready"
    BY <1>3 DEF PreparedInv, LockInv, CallInv, MuxLabels
  <2>2. s # NoThread
    BY FilesAssumption
  <2> HIDE DEF Ready
  <2> USE <2>1, <2>2
  <2> USE DEF ring, plx, config, history, irqs, handler, user, locks
  <2>3. CASE \/ HwFill \/ HwDoorbell \/ IsrEnter
             \/ IsrFill \/ IsrBlock \/ IsrRestart \/ IsrEngine \/ IsrPost
    BY <2>3 DEF HwFill, HwDoorbell, IsrEnter, IsrFill, InUse, IsrBlock,
                IsrRestart, IsrEngine, IsrPost, Ready, Calm
  <2>4. CASE ThreadFetch \/ ThreadUpdate \/ ThreadWake
    BY <2>4 DEF ThreadFetch, ThreadUpdate, ThreadWake, At, Ready, Calm
  <2>5. ASSUME NEW t \in Threads, CpuFree, ThreadAction(t)
        PROVE  Ready'
    <3> USE GotoEffect, GotoWithEffect DEF At, Enter, Ready, Calm, TypeOK, DataOK
    <3>1. CASE OpenFile(t) \/ Release(t)
      BY <3>1 DEF OpenFile, Release, Cleanup
    <3>2. CASE ReleaseUnmap(t) \/ ReleaseClose(t)
      BY <3>2 DEF ReleaseUnmap, ReleaseClose, MuxFree
    <3>3. CASE \E n \in BlockCounts \union {0} : Map(t, n)
      BY <3>3 DEF Map, MuxFree
    <3>4. CASE StartReset(t) \/ StartEngine(t) \/ StartDone(t)
      BY <3>4, <1>1 DEF StartReset, ResetRing, StartEngine, StartDone,
                        MuxFree, LockInv, MuxLabels
    <3>5. CASE StopDisable(t) \/ StopAbort(t) \/ StopDone(t)
      BY <3>5 DEF StopDisable, StopAbort, Abort, StopDone, MuxFree, LockInv,
                  MuxLabels
    <3>6. CASE WaitFinished(t) \/ WaitSleep(t) \/ Signal(t)
      BY <3>6 DEF WaitFinished, WaitSleep, Signal, MuxFree, LockInv, MuxLabels
    <3>7. CASE \/ \E b \in Blocks : Mark(t, b)
               \/ MarkFree(t) \/ MarkRestart(t) \/ MarkEngine(t)
      BY <3>7 DEF Mark, MarkFree, CanMark, Awaited, MarkRestart, MarkEngine
    <3>8. CASE IrqWait(t)
      BY <3>8 DEF IrqWait
    <3>9. CASE IrqGet(t) \/ IrqTake(t)
      BY <3>9 DEF IrqGet, HasData, IrqTake
    <3>10. CASE \E mask \in SUBSET Bits : IrqAck(t, mask)
      BY <3>10 DEF IrqAck
    <3> QED
      BY <2>5, <3>1, <3>2, <3>3, <3>4, <3>5, <3>6, <3>7, <3>8, <3>9, <3>10
         DEF ThreadAction
  <2>6. CASE UNCHANGED vars
    BY <2>6 DEF vars, Ready, Calm
  <2> QED
    BY <2>3, <2>4, <2>5, <2>6, StepCases
<1>4. CASE pc[s] # "start_engine"
  <2>1. \E t \in Threads : CpuFree /\ StartReset(t)
    BY <1>1, <1>4, OnlyResetPrepares
  <2> QED
    BY <1>2, <2>1
<1> QED
  BY <1>3, <1>4

-----------------------------------------------------------------------------
(* Sessions on a uniprocessor *)

\* Whatever ends a session on a uniprocessor leaves nothing behind.
LEMMA CalmStep ==
    ASSUME TypeOK, LockInv, CallInv, PreparedInv, CalmInv, [Next]_vars
    PROVE  CalmInv'
<1> SUFFICES ASSUME Uniprocessor
             PROVE  CalmInv'
  BY DEF CalmInv, Uniprocessor
<1> DEFINE
      A == isr # "idle" => Session
      B == \A t \in Threads :
            /\ pc[t] \in {"mark", "mark_restart", "mark_engine", "take"}
                  => dmaStatus = "running"
            /\ pc[t] \in {"stop_abort", "stop_done"} => ~enabled
            /\ pc[t] \in {"stop_done", "wait_done"} => ~active
      C == \/ dmaStatus = "running"
           \/ \E t \in Threads : pc[t] \in {"start_done", "stop_abort"}
           \/ ~active /\ ~enabled
<1>1. A /\ B /\ C
  BY DEF CalmInv
<1>2. ASSUME A', B', C'
      PROVE  CalmInv'
  BY <1>2 DEF CalmInv
<1> USE DEF TypeOK, DataOK, At
<1> USE DEF ring, plx, config, history, irqs, handler, user, locks
<1>3. CASE HwFill
  BY <1>1, <1>2, <1>3 DEF HwFill, Session
<1>4. CASE HwDoorbell
  BY <1>1, <1>2, <1>4 DEF HwDoorbell, Session
<1>5. CASE IsrEnter
  <2>1. CASE hook
    BY <1>1, <1>2, <1>5, <2>1 DEF IsrEnter, Session, CallInv
  <2>2. CASE ~hook
    <3>1. A'
      BY <1>5, <2>2 DEF IsrEnter
    <3>2. C'
      BY <1>1, <1>5, <2>2 DEF IsrEnter
    <3>3. ~active
      BY <1>5 DEF IsrEnter, CallInv
    <3>4. B'
      BY <1>1, <1>5, <2>2, <3>3 DEF IsrEnter
    <3> QED
      BY <1>2, <3>1, <3>2, <3>4
  <2> QED
    BY <2>1, <2>2
<1>6. CASE IsrFill \/ IsrBlock \/ IsrRestart \/ IsrPost
  BY <1>1, <1>2, <1>6 DEF IsrFill, InUse, IsrBlock, IsrRestart, IsrPost,
                          Session
<1>7. CASE IsrEngine
  BY <1>1, <1>2, <1>7 DEF IsrEngine, Session, CallInv
<1>8. ASSUME CpuFree, ThreadFetch \/ ThreadUpdate \/ ThreadWake
      PROVE  CalmInv'
  <2>1. isr = "idle"
    BY <1>8 DEF CpuFree, Uniprocessor
  <2> QED
    BY <1>1, <1>2, <1>8, <2>1 DEF ThreadFetch, ThreadUpdate, ThreadWake
<1>9. ASSUME NEW t \in Threads, CpuFree, ThreadAction(t)
      PROVE  CalmInv'
  <2>1. isr = "idle" /\ \A u \in Threads : u = t
    BY <1>9 DEF CpuFree, Uniprocessor
  <2> USE <1>1, <1>2, <2>1, GotoEffect, GotoWithEffect DEF Enter
  <2>2. CASE OpenFile(t) \/ Release(t)
    BY <2>2 DEF OpenFile, Release, Cleanup
  <2>3. CASE ReleaseUnmap(t) \/ ReleaseClose(t)
    BY <2>3 DEF ReleaseUnmap, ReleaseClose
  <2>4. CASE \E n \in BlockCounts \union {0} : Map(t, n)
    BY <2>4 DEF Map
  <2>5. CASE StartReset(t)
    BY <2>5 DEF StartReset, ResetRing
  <2>6. CASE StartEngine(t) \/ StartDone(t)
    BY <2>6 DEF StartEngine, StartDone
  <2>7. CASE StopDisable(t)
    BY <2>7 DEF StopDisable
  <2>8. CASE StopAbort(t)
    <3>1. pc[t] = "stop_abort" /\ ~enabled /\ dmaStatus = "running"
      BY <2>8 DEF StopAbort, Abort, CallInv
    <3>2. UNCHANGED <<enabled, dmaStatus, isr>>
      BY <2>8 DEF StopAbort, Abort
    <3>3. (pc'[t] = "stop_done" /\ ~active') \/ pc'[t] \in {"unmap", "idle"}
      BY <2>8 DEF StopAbort, Abort
    <3> QED
      BY <3>1, <3>2, <3>3
  <2>9. CASE StopDone(t)
    BY <2>9 DEF StopDone
  <2>10. CASE WaitFinished(t)
    BY <2>10 DEF WaitFinished
  <2>11. CASE WaitSleep(t) \/ Signal(t)
    BY <2>11 DEF WaitSleep, Signal
  <2>12. CASE \E b \in Blocks : Mark(t, b)
    BY <2>12 DEF Mark
  <2>13. CASE MarkFree(t) \/ MarkRestart(t) \/ MarkEngine(t)
    BY <2>13 DEF MarkFree, CanMark, Awaited, MarkRestart, MarkEngine
  <2>14. CASE IrqWait(t)
    BY <2>14 DEF IrqWait
  <2>15. CASE IrqGet(t)
    BY <2>15 DEF IrqGet, HasData
  <2>16. CASE IrqTake(t)
    BY <2>16 DEF IrqTake
  <2>17. CASE \E mask \in SUBSET Bits : IrqAck(t, mask)
    BY <2>17 DEF IrqAck
  <2> QED
    BY <1>9, <2>2, <2>3, <2>4, <2>5, <2>6, <2>7, <2>8, <2>9, <2>10, <2>11,
       <2>12, <2>13, <2>14, <2>15, <2>16, <2>17 DEF ThreadAction
<1>10. CASE UNCHANGED vars
  BY <1>1, <1>2, <1>10 DEF vars, Session
<1> QED
  BY <1>3, <1>4, <1>5, <1>6, <1>7, <1>8, <1>9, <1>10, StepCases

-----------------------------------------------------------------------------
(* Steps within a session *)

\* A step that touches neither the ring nor the engine, and in which no thread
\* enters or leaves a call that does.
Busy == {"mark_restart", "mark_engine", "take"}
RingUntouched ==
    /\ UNCHANGED <<ring, plx, history, handler>>
    /\ \A t \in Threads :
        /\ pc[t] \in Busy <=> pc'[t] \in Busy
        /\ pc[t] \in Busy => pc'[t] = pc[t] /\ blk'[t] = blk[t]

\* irq_get finds a full block.
BeginTake(t) ==
    /\ block[NextRead] = "full"
    /\ pc[t] \notin Busy
    /\ seminfo = NoThread
    /\ GotoWith(t, "take", NextRead)
    /\ UNCHANGED <<ring, plx, history, handler>>

RingThread(t) ==
    \/ MarkFree(t) \/ MarkRestart(t) \/ MarkEngine(t)
    \/ BeginTake(t) \/ IrqTake(t)

RingStep ==
    \/ RingUntouched
    \/ HwFill
    \/ IsrEnter \/ IsrFill \/ IsrBlock \/ IsrRestart \/ IsrEngine \/ IsrPost
    \/ \E t \in Threads : RingThread(t)

\* A session begins with StartEngine only; within it the number of blocks
\* does not change, and every step is a step of the ring.
LEMMA SessionCases ==
    ASSUME TypeOK, LockInv, CallInv, [Next]_vars, Session'
    PROVE  \/ \E t \in Threads : StartEngine(t)
           \/ Session /\ numblocks' = numblocks /\ hook /\ RingStep
<1> DEFINE Goal == \/ \E t \in Threads : StartEngine(t)
                   \/ Session /\ numblocks' = numblocks /\ hook /\ RingStep
<1> USE DEF ring, plx, config, history, irqs, handler, user, locks
<1>1. CASE \/ HwFill \/ IsrFill \/ IsrBlock \/ IsrRestart \/ IsrEngine
           \/ IsrPost
  <2>1. UNCHANGED <<config, pc>>
    BY <1>1 DEF HwFill, IsrFill, InUse, IsrBlock, IsrRestart, IsrEngine,
                IsrPost
  <2> QED
    BY <1>1, <2>1 DEF Session, At, RingStep
<1>2. CASE IsrEnter
  <2>1. UNCHANGED config
    BY <1>2 DEF IsrEnter
  <2>2. \A t \in Threads : pc'[t] = "start_done" => pc[t] = "start_done"
    BY <1>2 DEF IsrEnter, TypeOK, DataOK
  <2> QED
    BY <1>2, <2>1, <2>2 DEF Session, At, RingStep
<1>3. CASE HwDoorbell \/ UNCHANGED vars
  BY <1>3 DEF HwDoorbell, vars, Session, At, RingStep, RingUntouched
<1>4. CASE ThreadFetch \/ ThreadUpdate \/ ThreadWake
  BY <1>4 DEF ThreadFetch, ThreadUpdate, ThreadWake, Session, At, RingStep,
     RingUntouched, Busy, TypeOK, DataOK
<1>5. ASSUME NEW t \in Threads, ThreadAction(t)
      PROVE  Goal
  <2> USE GotoEffect, GotoWithEffect DEF At, Enter, TypeOK, DataOK
  \* The calls that leave ring, engine and session alone.
  <2>1. ASSUME UNCHANGED <<ring, plx, history, handler, numblocks, hook>>,
               dmaStatus' = dmaStatus \/ pc[t] = "start_done",
               pc[t] \notin Busy, pc'[t] \notin Busy,
               pc'[t] = "start_done" => pc[t] = "start_done",
               \A u \in Threads \ {t} : pc'[u] = pc[u] /\ blk'[u] = blk[u]
        PROVE  Goal
    BY <2>1 DEF Session, RingStep, RingUntouched, Busy
  <2> HIDE DEF Goal
  <2>2. \A label : Goto(t, label) =>
            \A u \in Threads \ {t} : pc'[u] = pc[u] /\ blk'[u] = blk[u]
    BY DEF Goto, GotoWith
  <2>3. CASE OpenFile(t) \/ Release(t) \/ ReleaseClose(t)
    BY <2>1, <2>3 DEF OpenFile, Release, Cleanup, ReleaseClose, Busy
  <2>4. CASE ReleaseUnmap(t)
    <3>1. \A u \in Threads : pc[u] # "start_done" /\ pc'[u] # "start_done"
      BY <2>4, FilesAssumption DEF ReleaseUnmap, MuxFree, LockInv, MuxLabels
    <3>2. CASE dmaStatus = "ready"
      BY <2>4, <3>1, <3>2 DEF ReleaseUnmap, Session
    <3>3. CASE dmaStatus # "ready"
      BY <2>1, <2>2, <2>4, <3>3 DEF ReleaseUnmap, Busy
    <3> QED
      BY <3>2, <3>3
  <2>5. CASE \E n \in BlockCounts \union {0} : Map(t, n)
    BY <2>5, FilesAssumption DEF Map, MuxFree, Session, LockInv, MuxLabels
  <2>6. CASE StartReset(t)
    <3>1. dmaStatus' = "ready" /\ mux = NoThread
      BY <2>6 DEF StartReset, ResetRing, MuxFree
    <3>2. \A u \in Threads : pc'[u] # "start_done"
      BY <2>6, <3>1, FilesAssumption DEF StartReset, ResetRing, LockInv,
                                         MuxLabels
    <3> QED
      BY <3>1, <3>2 DEF Session
  <2>7. CASE StartEngine(t)
    BY <2>7 DEF Goal
  <2>8. CASE StartDone(t)
    BY <2>1, <2>2, <2>8 DEF StartDone, Busy
  <2>9. CASE StopDisable(t)
    BY <2>9 DEF StopDisable, Session
  <2>10. CASE StopAbort(t) \/ StopDone(t)
    <3>1. ~hook'
      BY <2>10 DEF StopAbort, Abort, StopDone, CallInv
    <3> QED
      BY <3>1 DEF Session
  <2>11. CASE WaitFinished(t)
    <3>1. dmaStatus' = "ready" /\ pc'[t] = "idle"
      BY <2>11 DEF WaitFinished
    <3>2. \A u \in Threads \ {t} : pc'[u] = pc[u] /\ pc[u] # "start_done"
      BY <2>11, FilesAssumption DEF WaitFinished, MuxFree, LockInv, MuxLabels
    <3> QED
      BY <3>1, <3>2 DEF Session
  <2>12. CASE WaitSleep(t) \/ Signal(t)
    BY <2>1, <2>2, <2>12 DEF WaitSleep, Signal, Busy
  <2>13. CASE \E b \in Blocks : Mark(t, b)
    BY <2>1, <2>13 DEF Mark, Busy
  <2>14. CASE MarkFree(t) \/ MarkRestart(t) \/ MarkEngine(t) \/ IrqTake(t)
    <3>1. UNCHANGED config
      BY <2>14 DEF MarkFree, CanMark, Awaited, MarkRestart, MarkEngine,
                   IrqTake
    <3>2. \A u \in Threads : pc'[u] = "start_done" => pc[u] = "start_done"
      BY <2>14 DEF MarkFree, CanMark, Awaited, MarkRestart, MarkEngine,
                   IrqTake
    <3> QED
      BY <2>14, <3>1, <3>2 DEF Session, RingStep, RingThread, Goal
  <2>15. CASE IrqWait(t)
    <3>1. pc[t] \in {"idle", "look"} /\ pc'[t] \in {"get", "asleep"}
      BY <2>15 DEF IrqWait
    <3> QED
      BY <2>1, <2>2, <2>15, <3>1 DEF IrqWait, Busy
  <2>16. CASE IrqGet(t)
    <3>1. CASE BeginTake(t) /\ UNCHANGED config
      BY <3>1 DEF BeginTake, Session, RingStep, RingThread, Goal
    <3>2. CASE Goto(t, "idle") /\ UNCHANGED ring
      BY <2>1, <2>2, <2>16, <3>2 DEF IrqGet, HasData, Busy
    <3> QED
      BY <2>16, <3>1, <3>2 DEF IrqGet, HasData, BeginTake, NextRead, Busy
  <2>17. CASE \E mask \in SUBSET Bits : IrqAck(t, mask)
    BY <2>1, <2>17 DEF IrqAck, Busy
  <2> QED
    BY <1>5, <2>3, <2>4, <2>5, <2>6, <2>7, <2>8, <2>9, <2>10, <2>11, <2>12,
       <2>13, <2>14, <2>15, <2>16, <2>17 DEF ThreadAction
<1> QED
  BY <1>1, <1>2, <1>3, <1>4, <1>5, StepCases

-----------------------------------------------------------------------------
(* Distances in the ring *)

\* The ring as the steps of a session find it.
InRing == TypeOK /\ LockInv /\ numblocks \in BlockCounts /\ Ring

LEMMA Indices ==
    ASSUME InRing
    PROVE  /\ numblocks \in Nat /\ numblocks > 0
           /\ 0..(numblocks - 1) \subseteq Blocks
           /\ writing_block \in 0..(numblocks - 1)
           /\ NextRead \in 0..(numblocks - 1)
           /\ \A b \in 0..(numblocks - 1) : Distance(b) \in 0..(numblocks - 1)
           /\ \A b \in 0..(numblocks - 1) : Distance(b) = 0 <=> b = NextRead
<1>1. numblocks \in Nat /\ numblocks > 0 /\ 0..(numblocks - 1) \subseteq Blocks
  BY BlocksFacts DEF InRing
<1>2. writing_block \in 0..(numblocks - 1)
  BY <1>1, BlocksFacts DEF InRing, TypeOK, DataOK, Ring, Counts
<1>3. reading_block \in Int /\ -1 <= reading_block /\ reading_block < numblocks
  BY <1>1, BlocksFacts DEF InRing, TypeOK, DataOK, Ring, Counts
<1>4. NextRead \in 0..(numblocks - 1)
  BY <1>1, <1>3 DEF NextRead, Successor
<1>5. \A b \in 0..(numblocks - 1) :
        Distance(b) \in 0..(numblocks - 1) /\ (Distance(b) = 0 <=> b = NextRead)
  BY <1>1, <1>4 DEF Distance
<1> QED
  BY <1>1, <1>2, <1>4, <1>5

\* Two blocks are at different distances from the block to be read.
LEMMA DistanceInjective ==
    ASSUME InRing, NEW b \in 0..(numblocks - 1), NEW c \in 0..(numblocks - 1),
           Distance(b) = Distance(c)
    PROVE  b = c
BY Indices DEF Distance

\* The next block of the ring is one further away, or is the one to be read.
LEMMA DistanceSuccessor ==
    ASSUME InRing, NEW b \in 0..(numblocks - 1)
    PROVE  /\ Successor(b) \in 0..(numblocks - 1)
           /\ IF Distance(b) = numblocks - 1
              THEN Successor(b) = NextRead
              ELSE Distance(Successor(b)) = Distance(b) + 1
<1>1. Successor(b) \in 0..(numblocks - 1)
  BY Indices DEF Successor
<1>2. CASE Distance(b) = numblocks - 1
  BY <1>1, <1>2, Indices DEF Distance, Successor
<1>3. CASE Distance(b) # numblocks - 1
  BY <1>1, <1>3, Indices DEF Distance, Successor
<1> QED
  BY <1>1, <1>2, <1>3

\* Who does not move reading_block does not change the distances.
LEMMA SameDistance ==
    ASSUME reading_block' = reading_block, numblocks' = numblocks
    PROVE  /\ NextRead' = NextRead
           /\ \A b : Distance(b)' = Distance(b)
BY DEF NextRead, Successor, Distance

\* Giving the next block to the user brings every other block one nearer.
LEMMA NextDistance ==
    ASSUME InRing, reading_block' = NextRead, numblocks' = numblocks
    PROVE  /\ NextRead' \in 0..(numblocks - 1)
           /\ \A b \in 0..(numblocks - 1) :
                 Distance(b)' = IF b = NextRead THEN numblocks - 1
                                ELSE Distance(b) - 1
<1>1. NextRead' = Successor(NextRead)
  BY DEF NextRead, Successor
<1>2. NextRead' = IF NextRead + 1 >= numblocks THEN 0 ELSE NextRead + 1
  BY <1>1 DEF Successor
<1>3. \A b \in 0..(numblocks - 1) :
         Distance(b)' = IF b >= NextRead' THEN b - NextRead' ELSE b - NextRead' + numblocks
  BY DEF Distance
<1> QED
  BY <1>2, <1>3, Indices DEF Distance

-----------------------------------------------------------------------------
(* The steps of the ring keep it in order *)

LEMMA UntouchedKeepsRing ==
    ASSUME InRing, numblocks' = numblocks, RingUntouched
    PROVE  Ring'
<1>1. UNCHANGED <<ring, plx, history, handler, numblocks>>
      /\ \A t \in Threads :
            /\ pc[t] \in Busy <=> pc'[t] \in Busy
            /\ pc[t] \in Busy => pc'[t] = pc[t] /\ blk'[t] = blk[t]
  BY DEF RingUntouched
<1>2. NextRead' = NextRead /\ (\A b : Distance(b)' = Distance(b))
      /\ FullCount' = FullCount
  BY <1>1, SameDistance DEF ring, history, FullCount
<1> USE DEF ring, plx, history, handler
<1>3. Counts'
  BY <1>1, <1>2 DEF InRing, Ring, Counts, Busy
<1>4. Fills'
  BY <1>1 DEF InRing, Ring, Fills, Uncounted
<1>5. \A t \in Threads : /\ Marker(t)' <=> Marker(t)
                         /\ Marker(t) => pc'[t] = pc[t] /\ blk'[t] = blk[t]
  BY <1>1 DEF Marker, Busy
<1>6. Writer'
  BY <1>1, <1>5 DEF InRing, Ring, Writer, Loaded, InHandler, WithMarker
<1>7. FullAreConsecutive' /\ FullInArrivalOrder'
  BY <1>1, <1>2 DEF InRing, Ring, FullAreConsecutive, FullInArrivalOrder
<1> QED
  BY <1>3, <1>4, <1>6, <1>7 DEF Ring

\* The data of the next block arrives.
LEMMA HwFillKeepsRing ==
    ASSUME InRing, numblocks' = numblocks, HwFill
    PROVE  Ring'
<1> USE DEF ring, plx, history, handler, user
<1>1. /\ active /\ enabled /\ Loaded
      /\ UNCHANGED <<ring, target, enabled, taken, isr, next_block, pc, blk>>
      /\ content' = [content EXCEPT ![writing_block] = filled]
      /\ filled' = filled + 1
      /\ active' = FALSE
  BY DEF HwFill, InRing, Ring, Writer, Loaded
<1>2. NextRead' = NextRead /\ (\A b : Distance(b)' = Distance(b))
      /\ FullCount' = FullCount
  BY <1>1, SameDistance DEF FullCount
<1>3. Counts'
  BY <1>1, <1>2 DEF InRing, Ring, Counts
<1>4. Fills'
  <2>1. isr # "fill"
    BY <1>1 DEF Loaded
  <2>2. ~Uncounted
    BY <1>1, <2>1 DEF Uncounted
  <2>3. filled = debug_sequence
    BY <2>2 DEF InRing, Ring, Fills, TypeOK, DataOK
  <2>4. content'[writing_block] = debug_sequence
    BY <1>1, <2>3, Indices DEF InRing, TypeOK, DataOK
  <2>5. Uncounted'
    BY <1>1 DEF Uncounted
  <2> QED
    BY <1>1, <2>3, <2>4, <2>5 DEF Fills
<1>5. Writer'
  BY <1>1 DEF InRing, Ring, Writer, Loaded, InHandler, WithMarker, Marker
<1>6. FullAreConsecutive'
  BY <1>1, <1>2 DEF InRing, Ring, FullAreConsecutive
<1>7. FullInArrivalOrder'
  <2>1. block[writing_block] # "full"
    BY <1>1 DEF Loaded
  <2> QED
    BY <1>1, <1>2, <2>1, Indices
       DEF InRing, Ring, FullInArrivalOrder, TypeOK, DataOK
<1> QED
  BY <1>3, <1>4, <1>5, <1>6, <1>7 DEF Ring

\* The interrupt handler takes the engine.
LEMMA IsrEnterKeepsRing ==
    ASSUME InRing, CallInv, hook, numblocks' = numblocks, IsrEnter
    PROVE  Ring'
<1> USE DEF ring, plx, history, handler
<1>1. /\ enabled /\ ~active /\ Loaded
      /\ UNCHANGED <<ring, active, target, content, filled, taken, next_block,
                     pc, blk>>
      /\ enabled' = FALSE
      /\ isr' = "fill"
  BY DEF IsrEnter, InRing, Ring, Writer, CallInv
<1>2. NextRead' = NextRead /\ (\A b : Distance(b)' = Distance(b))
      /\ FullCount' = FullCount
  BY <1>1, SameDistance DEF FullCount
<1>3. Counts'
  BY <1>1, <1>2 DEF InRing, Ring, Counts
<1>4. Fills'
  <2>1. Uncounted /\ Uncounted'
    BY <1>1 DEF Uncounted
  <2> QED
    BY <1>1, <2>1 DEF InRing, Ring, Fills
<1>5. Writer'
  BY <1>1 DEF InRing, Ring, Writer, Loaded, InHandler, WithMarker, Marker
<1>6. FullAreConsecutive' /\ FullInArrivalOrder'
  BY <1>1, <1>2 DEF InRing, Ring, FullAreConsecutive, FullInArrivalOrder
<1> QED
  BY <1>3, <1>4, <1>5, <1>6 DEF Ring

\* First section of the hook: the block written becomes the last full one.
LEMMA IsrFillKeepsRing ==
    ASSUME InRing, numblocks' = numblocks, IsrFill
    PROVE  Ring'
<1> DEFINE w == writing_block
           next == Successor(writing_block)
<1> USE DEF ring, plx, history, handler, user
<1>1. /\ isr = "fill"
      /\ InHandler /\ ~enabled /\ ~active
      /\ block[w] = "dma"
  BY DEF IsrFill, InUse, InRing, Ring, Writer, InHandler, Loaded
<1>2. /\ UNCHANGED <<reading_block, is_blocked, active, target, enabled,
                     content, filled, taken, pc, blk>>
      /\ block' = [block EXCEPT ![w] = "full"]
      /\ writing_block' = next
      /\ next_block' = next
      /\ isr' = IF block'[next] # "free" THEN "block" ELSE "restart"
      /\ debug_sequence' = debug_sequence + 1
  BY DEF IsrFill, InUse
<1>3. w \in 0..(numblocks - 1) /\ next \in 0..(numblocks - 1)
      /\ 0..(numblocks - 1) \subseteq Blocks
      /\ numblocks \in Nat
  BY Indices, DistanceSuccessor
<1>4. NextRead' = NextRead /\ \A b : Distance(b)' = Distance(b)
  BY <1>2, SameDistance
<1>5. FullCount' = FullCount + 1 /\ FullCount \in Nat
  BY <1>2, <1>3 DEF FullCount, InRing, Ring, Counts, TypeOK, DataOK
<1>6. FullCount < numblocks /\ Distance(w) = FullCount
  <2>1. ~(Distance(w) < FullCount)
    BY <1>1, <1>3 DEF InRing, Ring, FullAreConsecutive
  <2>2. Distance(w) < numblocks
    BY <1>3, Indices
  <2> QED
    BY <2>1, <2>2 DEF InRing, Ring, FullAreConsecutive
<1>7. /\ block'[w] = "full"
      /\ \A b \in 0..(numblocks - 1) \ {w} : block'[b] = block[b]
  BY <1>2, <1>3 DEF InRing, TypeOK, DataOK
<1>8. Counts'
  <2>1. FullCount' \in 0..numblocks'
    BY <1>3, <1>5, <1>6
  <2>2. reading_block' < numblocks' /\ writing_block' < numblocks'
    BY <1>2, <1>3 DEF InRing, Ring, Counts
  <2>3. \A b \in 0..(numblocks - 1) : block'[b] # "dma"
    BY <1>3, <1>7 DEF InRing, Ring, Counts
  <2>4. \A t \in Threads : pc'[t] = "take" =>
            blk'[t] = NextRead' /\ block'[NextRead] = "full"
    BY <1>2, <1>4, <1>7, Indices DEF InRing, Ring, Counts
  <2> QED
    BY <1>4, <2>1, <2>2, <2>3, <2>4 DEF Counts
<1>9. Fills'
  <2>1. ~Uncounted' /\ Uncounted
    BY <1>1, <1>2 DEF Uncounted
  <2> QED
    BY <1>2, <2>1 DEF InRing, Ring, Fills, TypeOK, DataOK
<1>10. Writer'
  <2>1. block'[next] # "dma"
    BY <1>3, <1>7 DEF InRing, Ring, Counts
  <2>2. ~enabled' /\ ~active' /\ ~is_blocked'
    BY <1>1, <1>2 DEF InHandler
  <2>3. \A t \in Threads : ~Marker(t)'
    BY <1>1, <1>2 DEF InHandler, Marker
  <2>4. InHandler'
    BY <1>2, <2>1, <2>2, <2>3 DEF InHandler
  <2> QED
    BY <2>2, <2>3, <2>4 DEF Writer
<1>11. FullAreConsecutive'
  <2>1. ASSUME NEW b \in 0..(numblocks - 1)
        PROVE  block'[b] = "full" <=> Distance(b) < FullCount + 1
    <3>1. CASE b = w
      BY <1>5, <1>6, <1>7, <3>1
    <3>2. CASE b # w
      <4>1. Distance(b) # FullCount
        BY <1>3, <1>6, <3>2, DistanceInjective
      <4>2. block'[b] = block[b] /\ Distance(b) \in Nat
        BY <1>3, <1>7, <3>2, Indices
      <4>3. block[b] = "full" <=> Distance(b) < FullCount
        BY DEF InRing, Ring, FullAreConsecutive
      <4> QED
        BY <1>5, <4>1, <4>2, <4>3
    <3> QED
      BY <3>1, <3>2
  <2>2. \/ FullCount + 1 < numblocks /\ Distance(next) = FullCount + 1
        \/ FullCount + 1 = numblocks /\ next = NextRead
    BY <1>3, <1>5, <1>6, DistanceSuccessor
  <2> QED
    BY <1>2, <1>4, <1>5, <2>1, <2>2 DEF FullAreConsecutive
<1>12. FullInArrivalOrder'
  <2>1. content[w] = debug_sequence
    BY <1>1 DEF InRing, Ring, Fills, Uncounted
  <2>2. debug_sequence = taken + Distance(w)
    BY <1>6, <1>5 DEF FullCount, InRing, TypeOK, DataOK
  <2> QED
    BY <1>2, <1>4, <1>7, <2>1, <2>2 DEF InRing, Ring, FullInArrivalOrder
<1> QED
  BY <1>8, <1>9, <1>10, <1>11, <1>12 DEF Ring

\* Second section of the hook: the engine waits for writing_block.
LEMMA IsrBlockKeepsRing ==
    ASSUME InRing, numblocks' = numblocks, IsrBlock
    PROVE  Ring'
<1> USE DEF ring, plx, history, handler, user
<1>1. /\ isr = "block" /\ isr' = "post" /\ is_blocked' = TRUE
      /\ InHandler /\ ~enabled /\ ~active
      /\ UNCHANGED <<block, reading_block, writing_block, debug_sequence,
                     active, target, enabled, content, filled, taken,
                     next_block, pc, blk>>
  BY DEF IsrBlock, InRing, Ring, Writer, Loaded
<1>2. NextRead' = NextRead /\ (\A b : Distance(b)' = Distance(b))
      /\ FullCount' = FullCount
  BY <1>1, SameDistance DEF FullCount
<1>3. Counts'
  BY <1>1, <1>2 DEF InRing, Ring, Counts
<1>4. Fills'
  BY <1>1 DEF InRing, Ring, Fills, Uncounted
<1>5. Writer'
  BY <1>1 DEF InRing, Ring, Writer, Loaded, InHandler, WithMarker, Marker
<1>6. FullAreConsecutive' /\ FullInArrivalOrder'
  BY <1>1, <1>2 DEF InRing, Ring, FullAreConsecutive, FullInArrivalOrder
<1> QED
  BY <1>3, <1>4, <1>5, <1>6 DEF Ring

\* start_dma() of the handler or of a marker: writing_block goes to the engine.
LEMMA BlockToDmaKeepsOrder ==
    ASSUME InRing, numblocks' = numblocks,
           block[writing_block] = "free",
           BlockToDma(writing_block),
           UNCHANGED <<reading_block, writing_block, debug_sequence, content,
                       taken>>,
           \A t \in Threads : pc'[t] = "take" <=> pc[t] = "take",
           \A t \in Threads : pc[t] = "take" => blk'[t] = blk[t]
    PROVE  /\ Counts' /\ FullAreConsecutive' /\ FullInArrivalOrder'
           /\ block'[writing_block] = "dma"
<1>1. NextRead' = NextRead /\ (\A b : Distance(b)' = Distance(b))
      /\ FullCount' = FullCount
  BY SameDistance DEF FullCount
<1>2. /\ block'[writing_block] = "dma"
      /\ \A b \in 0..(numblocks - 1) : b # writing_block => block'[b] = block[b]
  BY Indices DEF BlockToDma, InRing, TypeOK, DataOK
<1>3. Counts'
  BY <1>1, <1>2, Indices DEF InRing, Ring, Counts
<1>4. FullAreConsecutive'
  BY <1>1, <1>2 DEF InRing, Ring, FullAreConsecutive
<1>5. FullInArrivalOrder'
  BY <1>1, <1>2 DEF InRing, Ring, FullInArrivalOrder
<1> QED
  BY <1>2, <1>3, <1>4, <1>5

LEMMA IsrRestartKeepsRing ==
    ASSUME InRing, numblocks' = numblocks, IsrRestart
    PROVE  Ring'
<1> USE DEF ring, plx, history, handler, user
<1>1. /\ isr = "restart" /\ isr' = "engine"
      /\ InHandler /\ ~enabled /\ ~active
      /\ next_block = writing_block /\ block[writing_block] = "free"
      /\ BlockToDma(writing_block)
      /\ UNCHANGED <<reading_block, writing_block, is_blocked, debug_sequence,
                     active, target, enabled, content, filled, taken,
                     next_block, pc, blk>>
  BY DEF IsrRestart, InRing, Ring, Writer, Loaded, InHandler
<1>2. /\ Counts' /\ FullAreConsecutive' /\ FullInArrivalOrder'
      /\ block'[writing_block] = "dma"
  BY <1>1, BlockToDmaKeepsOrder
<1>3. Fills'
  BY <1>1 DEF InRing, Ring, Fills, Uncounted
<1>4. Writer'
  BY <1>1, <1>2 DEF InRing, Ring, Writer, Loaded, InHandler, WithMarker, Marker
<1> QED
  BY <1>2, <1>3, <1>4 DEF Ring

\* The accesses to the chip by whoever owns the engine load it again.
LEMMA EngineStartKeepsRing ==
    ASSUME InRing, numblocks' = numblocks,
           ~enabled, EngineStart(writing_block),
           UNCHANGED <<ring, history, next_block>>,
           isr # "fill", isr' \in {"idle", "post"}, ~is_blocked,
           block[writing_block] = "dma",
           \A t \in Threads : pc'[t] \notin {"mark_restart", "mark_engine"},
           \A t \in Threads : pc'[t] = "take" <=> pc[t] = "take",
           \A t \in Threads : pc[t] = "take" => blk'[t] = blk[t]
    PROVE  Ring'
<1> USE DEF ring, history
<1>1. active' = TRUE /\ enabled' = TRUE /\ target' = writing_block
  BY DEF EngineStart
<1>2. NextRead' = NextRead /\ (\A b : Distance(b)' = Distance(b))
      /\ FullCount' = FullCount
  BY SameDistance DEF FullCount
<1>3. Counts'
  BY <1>2 DEF InRing, Ring, Counts
<1>4. Fills'
  <2>1. ~Uncounted /\ ~Uncounted'
    BY <1>1 DEF Uncounted
  <2> QED
    BY <2>1 DEF InRing, Ring, Fills
<1>5. Writer'
  BY <1>1 DEF Writer, Loaded, InHandler, WithMarker, Marker
<1>6. FullAreConsecutive' /\ FullInArrivalOrder'
  BY <1>2 DEF InRing, Ring, FullAreConsecutive, FullInArrivalOrder
<1> QED
  BY <1>3, <1>4, <1>5, <1>6 DEF Ring

LEMMA IsrEngineKeepsRing ==
    ASSUME InRing, numblocks' = numblocks, IsrEngine
    PROVE  Ring'
<1> USE DEF user, history
<1>1. /\ isr = "engine" /\ isr' = "post"
      /\ InHandler /\ ~enabled /\ ~is_blocked
      /\ next_block = writing_block /\ block[writing_block] = "dma"
      /\ EngineStart(writing_block)
      /\ UNCHANGED <<ring, history, next_block, pc, blk>>
  BY DEF IsrEngine, InRing, Ring, Writer, Loaded, InHandler
<1>2. \A t \in Threads : pc'[t] \notin {"mark_restart", "mark_engine"}
  BY <1>1 DEF InHandler, Marker
<1> QED
  BY <1>1, <1>2, EngineStartKeepsRing

LEMMA IsrPostKeepsRing ==
    ASSUME InRing, numblocks' = numblocks, IsrPost
    PROVE  Ring'
<1> USE DEF ring, plx, history, user
<1>1. /\ isr = "post" /\ isr' = "idle"
      /\ UNCHANGED <<ring, plx, history, pc, blk>>
  BY DEF IsrPost
<1>2. NextRead' = NextRead /\ (\A b : Distance(b)' = Distance(b))
      /\ FullCount' = FullCount
  BY <1>1, SameDistance DEF FullCount
<1>3. Counts'
  BY <1>1, <1>2 DEF InRing, Ring, Counts
<1>4. Fills'
  BY <1>1 DEF InRing, Ring, Fills, Uncounted
<1>5. Writer'
  BY <1>1 DEF InRing, Ring, Writer, Loaded, InHandler, WithMarker, Marker
<1>6. FullAreConsecutive' /\ FullInArrivalOrder'
  BY <1>1, <1>2 DEF InRing, Ring, FullAreConsecutive, FullInArrivalOrder
<1> QED
  BY <1>3, <1>4, <1>5, <1>6 DEF Ring

\* The user gives a block back; if the engine waits for it, the caller is the
\* one to restart the engine.
LEMMA MarkFreeKeepsRing ==
    ASSUME InRing, numblocks' = numblocks, NEW t \in Threads, MarkFree(t)
    PROVE  Ring'
<1> DEFINE restart == is_blocked /\ blk[t] = writing_block
<1> USE DEF ring, plx, history, handler, user
<1>1. /\ pc[t] = "mark"
      /\ UNCHANGED <<reading_block, writing_block, debug_sequence, active,
                     target, enabled, content, filled, taken, isr, next_block>>
  BY DEF MarkFree, CanMark, Awaited, At
<1>2. NextRead' = NextRead /\ (\A b : Distance(b)' = Distance(b))
      /\ FullCount' = FullCount
  BY <1>1, SameDistance DEF FullCount
<1>3. \A u \in Threads \ {t} : pc'[u] = pc[u] /\ blk'[u] = blk[u]
  BY DEF MarkFree, CanMark, Awaited, Goto, GotoWith, InRing, TypeOK, DataOK
<1>4. pc'[t] \in {"idle", "mark_restart"}
  BY GotoEffect DEF MarkFree, CanMark, Awaited, InRing, TypeOK
<1>5. \A b \in Blocks : \/ block'[b] = block[b]
                        \/ block[b] = "user" /\ block'[b] = "free"
  BY DEF MarkFree, CanMark, Awaited, InRing, TypeOK, DataOK
<1>6. Counts'
  BY <1>1, <1>2, <1>3, <1>4, <1>5, Indices DEF InRing, Ring, Counts
<1>7. Fills'
  BY <1>1 DEF InRing, Ring, Fills, Uncounted
<1>8. FullAreConsecutive' /\ FullInArrivalOrder'
  BY <1>1, <1>2, <1>5, Indices
     DEF InRing, Ring, FullAreConsecutive, FullInArrivalOrder
<1>9. Writer'
  <2>1. block[writing_block] \in {"dma", "free", "full"} =>
            block'[writing_block] = block[writing_block]
    BY <1>5, Indices
  <2>2. block[writing_block] # "dma" => block'[writing_block] # "dma"
    BY <1>5, Indices
  <2>3. CASE pc'[t] = "mark_restart"
    <3>1. /\ is_blocked /\ blk[t] = writing_block
          /\ block[writing_block] = "user"
          /\ block' = [block EXCEPT ![writing_block] = "free"]
          /\ ~is_blocked'
      BY <1>1, <2>3, GotoEffect DEF MarkFree, CanMark, Awaited, InRing, TypeOK
    <3>2. block'[writing_block] = "free" /\ blk'[t] = writing_block
      BY <3>1, <2>3, Indices
         DEF MarkFree, CanMark, Awaited, Goto, GotoWith, InRing, TypeOK,
             DataOK
    <3>3. ~enabled /\ ~active /\ \A u \in Threads : ~Marker(u)
      BY <3>1 DEF InRing, Ring, Writer, Loaded
    <3>4. isr \notin {"fill", "block", "restart", "engine"}
      BY <3>1 DEF InRing, Ring, Writer, InHandler
    <3> QED
      BY <1>1, <1>3, <2>3, <3>1, <3>2, <3>3, <3>4
         DEF Writer, WithMarker, Marker
  <2>4. CASE pc'[t] = "idle"
    <3>1. is_blocked' = is_blocked
      BY <2>4, GotoEffect DEF MarkFree, CanMark, Awaited, InRing, TypeOK,
                              FlagsOK
    <3>2. \A u \in Threads : /\ Marker(u)' <=> Marker(u)
                             /\ Marker(u) => pc'[u] = pc[u] /\ blk'[u] = blk[u]
      BY <1>1, <1>3, <2>4 DEF Marker
    <3> QED
      BY <1>1, <2>1, <2>2, <3>1, <3>2
         DEF InRing, Ring, Writer, Loaded, InHandler, WithMarker
  <2> QED
    BY <1>4, <2>3, <2>4
<1> QED
  BY <1>6, <1>7, <1>8, <1>9 DEF Ring

LEMMA MarkRestartKeepsRing ==
    ASSUME InRing, numblocks' = numblocks, NEW t \in Threads, MarkRestart(t)
    PROVE  Ring'
<1> USE DEF ring, plx, history, handler
<1>1. /\ pc[t] = "mark_restart" /\ WithMarker(t)
      /\ blk[t] = writing_block /\ block[writing_block] = "free"
      /\ BlockToDma(writing_block)
      /\ UNCHANGED <<reading_block, writing_block, is_blocked, debug_sequence,
                     active, target, enabled, content, filled, taken, isr,
                     next_block>>
  BY DEF MarkRestart, At, InRing, Ring, Writer, WithMarker, Marker
<1>2. pc'[t] = "mark_engine" /\ blk'[t] = blk[t]
      /\ \A u \in Threads \ {t} : pc'[u] = pc[u] /\ blk'[u] = blk[u]
  BY DEF MarkRestart, Goto, GotoWith, InRing, TypeOK, DataOK
<1>3. /\ Counts' /\ FullAreConsecutive' /\ FullInArrivalOrder'
      /\ block'[writing_block] = "dma"
  BY <1>1, <1>2, BlockToDmaKeepsOrder
<1>4. Fills'
  BY <1>1 DEF InRing, Ring, Fills, Uncounted
<1>5. Writer'
  <2>1. ~enabled /\ ~active /\ ~is_blocked
    BY <1>1 DEF InRing, Ring, Writer, Loaded, Marker
  <2>2. isr \notin {"fill", "block", "restart", "engine"}
    BY <1>1 DEF InRing, Ring, Writer, InHandler, Marker
  <2>3. \A u \in Threads : Marker(u)' => u = t
    BY <1>1, <1>2 DEF WithMarker, Marker
  <2> QED
    BY <1>1, <1>2, <1>3, <2>1, <2>2, <2>3 DEF Writer, WithMarker
<1> QED
  BY <1>3, <1>4, <1>5 DEF Ring

LEMMA MarkEngineKeepsRing ==
    ASSUME InRing, numblocks' = numblocks, NEW t \in Threads, MarkEngine(t)
    PROVE  Ring'
<1> USE DEF handler
<1>1. /\ pc[t] = "mark_engine" /\ WithMarker(t)
      /\ blk[t] = writing_block /\ block[writing_block] = "dma"
      /\ EngineStart(writing_block)
      /\ UNCHANGED <<ring, history, isr, next_block>>
  BY DEF MarkEngine, At, InRing, Ring, Writer, WithMarker, Marker
<1>2. pc'[t] = "idle"
      /\ \A u \in Threads \ {t} : pc'[u] = pc[u] /\ blk'[u] = blk[u]
  BY DEF MarkEngine, Goto, GotoWith, InRing, TypeOK, DataOK
<1>3. ~enabled /\ ~is_blocked
  BY <1>1 DEF InRing, Ring, Writer, Loaded, Marker
<1>4. isr \notin {"fill", "block", "restart", "engine"}
  BY <1>1 DEF InRing, Ring, Writer, InHandler, Marker
<1>5. isr' \in {"idle", "post"}
  BY <1>1, <1>4 DEF InRing, TypeOK, DataOK
<1>6. \A u \in Threads : pc'[u] \notin {"mark_restart", "mark_engine"}
  BY <1>1, <1>2 DEF WithMarker, Marker
<1> QED
  BY <1>1, <1>2, <1>3, <1>4, <1>5, <1>6, EngineStartKeepsRing

\* irq_get looks at the next block: what it found stays true while it holds
\* sem_irqinfo.
LEMMA BeginTakeKeepsRing ==
    ASSUME InRing, numblocks' = numblocks, NEW t \in Threads, BeginTake(t)
    PROVE  Ring'
<1> USE DEF ring, plx, history, handler
<1>1. /\ UNCHANGED <<ring, plx, history, handler>>
      /\ block[NextRead] = "full" /\ pc[t] \notin Busy
  BY DEF BeginTake
<1>2. pc'[t] = "take" /\ blk'[t] = NextRead
      /\ \A u \in Threads \ {t} : pc'[u] = pc[u] /\ blk'[u] = blk[u]
  BY DEF BeginTake, GotoWith, InRing, TypeOK, DataOK
<1>3. NextRead' = NextRead /\ (\A b : Distance(b)' = Distance(b))
      /\ FullCount' = FullCount
  BY <1>1, SameDistance DEF FullCount
<1>4. Counts'
  BY <1>1, <1>2, <1>3 DEF InRing, Ring, Counts
<1>5. Fills'
  BY <1>1 DEF InRing, Ring, Fills, Uncounted
<1>6. \A u \in Threads : /\ Marker(u)' <=> Marker(u)
                         /\ Marker(u) => pc'[u] = pc[u] /\ blk'[u] = blk[u]
  BY <1>1, <1>2 DEF Marker, Busy
<1>7. Writer'
  BY <1>1, <1>6 DEF InRing, Ring, Writer, Loaded, InHandler, WithMarker
<1>8. FullAreConsecutive' /\ FullInArrivalOrder'
  BY <1>1, <1>3 DEF InRing, Ring, FullAreConsecutive, FullInArrivalOrder
<1> QED
  BY <1>4, <1>5, <1>7, <1>8 DEF Ring

\* The block leaves the head of the queue.
LEMMA IrqTakeKeepsRing ==
    ASSUME InRing, numblocks' = numblocks, NEW t \in Threads, IrqTake(t)
    PROVE  Ring'
<1> DEFINE head == NextRead
<1> USE DEF ring, plx, history, handler
<1>1. /\ pc[t] = "take" /\ seminfo = t
      /\ blk[t] = head /\ block[head] = "full"
  BY DEF IrqTake, At, InRing, Ring, Counts, LockInv
<1>2. /\ block' = [block EXCEPT ![head] = "user"]
      /\ reading_block' = head
      /\ taken' = taken + 1
      /\ UNCHANGED <<writing_block, is_blocked, debug_sequence, active, target,
                     enabled, content, filled, isr, next_block>>
  BY <1>1 DEF IrqTake
<1>3. pc'[t] = "idle"
      /\ \A u \in Threads \ {t} : pc'[u] = pc[u] /\ blk'[u] = blk[u]
  BY DEF IrqTake, Goto, GotoWith, InRing, TypeOK, DataOK
<1>4. \A u \in Threads : pc'[u] # "take"
  BY <1>1, <1>3 DEF InRing, LockInv
<1>5. /\ NextRead' \in 0..(numblocks - 1)
      /\ \A b \in 0..(numblocks - 1) :
            Distance(b)' = IF b = head THEN numblocks - 1 ELSE Distance(b) - 1
  BY <1>2, NextDistance
<1>6. head \in 0..(numblocks - 1) /\ numblocks \in Nat /\ numblocks > 0
      /\ writing_block \in 0..(numblocks - 1)
      /\ \A b \in 0..(numblocks - 1) :
            /\ b \in Blocks
            /\ Distance(b) \in 0..(numblocks - 1)
            /\ Distance(b) = 0 <=> b = head
  BY Indices
<1>7. /\ block'[head] = "user"
      /\ \A b \in 0..(numblocks - 1) : b # head => block'[b] = block[b]
  BY <1>2, <1>6 DEF InRing, TypeOK, DataOK
<1>8. /\ FullCount \in 1..numblocks
      /\ FullCount' = FullCount - 1
  <2>1. Distance(head) = 0 /\ 0 < FullCount
    BY <1>1, <1>6 DEF InRing, Ring, FullAreConsecutive
  <2>2. FullCount' = FullCount - 1
    BY <1>2 DEF FullCount, InRing, TypeOK, DataOK
  <2> QED
    BY <1>6, <2>1, <2>2 DEF InRing, Ring, Counts
<1>9. Counts'
  <2>1. FullCount' \in 0..numblocks'
    BY <1>6, <1>8
  <2>2. reading_block' < numblocks' /\ writing_block' < numblocks'
    BY <1>2, <1>6
  <2>3. \A b \in 0..(numblocks - 1) : block'[b] = "dma" => b = writing_block'
    BY <1>2, <1>7 DEF InRing, Ring, Counts
  <2> QED
    BY <1>4, <2>1, <2>2, <2>3 DEF Counts
<1>10. Fills'
  BY <1>2 DEF InRing, Ring, Fills, Uncounted
<1>11. Writer'
  <2>1. block[writing_block] # "full" =>
            block'[writing_block] = block[writing_block]
    BY <1>1, <1>6, <1>7
  <2>2. block[writing_block] # "dma" => block'[writing_block] # "dma"
    BY <1>6, <1>7
  <2>3. \A u \in Threads : /\ Marker(u)' <=> Marker(u)
                           /\ Marker(u) => pc'[u] = pc[u] /\ blk'[u] = blk[u]
    BY <1>1, <1>3 DEF Marker
  <2> QED
    BY <1>2, <2>1, <2>2, <2>3
       DEF InRing, Ring, Writer, Loaded, InHandler, WithMarker
<1>12. FullAreConsecutive'
  <2>1. ASSUME NEW b \in 0..(numblocks - 1)
        PROVE  block'[b] = "full" <=> Distance(b)' < FullCount - 1
    <3>1. CASE b = head
      BY <1>5, <1>6, <1>7, <1>8, <3>1
    <3>2. CASE b # head
      BY <1>5, <1>6, <1>7, <1>8, <3>2 DEF InRing, Ring, FullAreConsecutive
    <3> QED
      BY <3>1, <3>2
  <2>2. FullCount - 1 < numblocks /\ Distance(writing_block)' = FullCount - 1
    <3>1. \A b : b = writing_block' => Distance(writing_block)' = Distance(b)'
      BY DEF Distance
    <3>2. Distance(writing_block)' = IF writing_block = head THEN numblocks - 1
                                    ELSE Distance(writing_block) - 1
      BY <1>2, <1>5, <1>6, <3>1
    <3>3. CASE writing_block = head
      <4>1. FullCount = numblocks
        BY <1>6, <1>8, <3>3 DEF InRing, Ring, FullAreConsecutive
      <4> QED
        BY <1>6, <3>2, <3>3, <4>1
    <3>4. CASE writing_block # head
      <4>1. Distance(writing_block) = FullCount
        BY <3>4 DEF InRing, Ring, FullAreConsecutive
      <4> QED
        BY <1>6, <1>8, <3>2, <3>4, <4>1
    <3> QED
      BY <3>3, <3>4
  <2> QED
    BY <1>2, <1>8, <2>1, <2>2 DEF FullAreConsecutive
<1>13. FullInArrivalOrder'
  BY <1>2, <1>5, <1>6, <1>7 DEF InRing, Ring, FullInArrivalOrder, TypeOK, DataOK
<1> QED
  BY <1>9, <1>10, <1>11, <1>12, <1>13 DEF Ring

\* The session begins with an empty ring and the engine in block 0.
LEMMA StartEngineBeginsRing ==
    ASSUME TypeOK, CallInv, PreparedInv,
           NEW t \in Threads, StartEngine(t)
    PROVE  Ring'
<1> USE DEF ring, history, handler
<1>1. /\ Calm /\ block[0] = "dma"
      /\ \A b \in 1..(numblocks - 1) : block[b] = "free"
      /\ reading_block = -1 /\ writing_block = 0 /\ ~is_blocked
      /\ debug_sequence = 0 /\ filled = 0 /\ taken = 0
      /\ numblocks \in BlockCounts
  BY DEF StartEngine, At, PreparedInv, CallInv
<1>2. /\ UNCHANGED <<ring, history, handler, numblocks>>
      /\ active' = TRUE /\ enabled' = TRUE /\ target' = 0
  BY DEF StartEngine, EngineStart
<1>3. pc'[t] = "start_done"
      /\ \A u \in Threads \ {t} : pc'[u] = pc[u]
  BY GotoEffect DEF StartEngine, TypeOK
<1>4. \A u \in Threads : pc'[u] \notin {"mark_restart", "mark_engine", "take"}
  BY <1>1, <1>3 DEF Calm
<1>5. numblocks \in Nat /\ numblocks > 0
  BY <1>1, BlocksFacts
<1>6. NextRead' = 0 /\ FullCount' = 0
  BY <1>1, <1>2, <1>5 DEF NextRead, Successor, FullCount
<1>7. \A b \in Nat : Distance(b)' = b
  BY <1>6 DEF Distance
<1>8. \A b \in 0..(numblocks - 1) : block[b] = "dma" => b = 0
  BY <1>1, <1>5
<1>9. \A b \in 0..(numblocks - 1) : block[b] # "full"
  <2>1. ASSUME NEW b \in 0..(numblocks - 1)
        PROVE  b = 0 \/ b \in 1..(numblocks - 1)
    BY <1>5
  <2> QED
    BY <1>1, <2>1
<1>10. Counts'
  BY <1>1, <1>2, <1>4, <1>5, <1>6, <1>8 DEF Counts
<1>11. Fills'
  <2>1. ~Uncounted'
    BY <1>1, <1>2 DEF Uncounted, Calm
  <2> QED
    BY <1>1, <1>2, <2>1 DEF Fills
<1>12. Writer'
  BY <1>1, <1>2, <1>4 DEF Writer, Loaded, Marker, Calm
<1>13. FullAreConsecutive'
  <2>1. Distance(writing_block)' = 0
    BY <1>1, <1>2, <1>6 DEF Distance
  <2>2. \A b \in 0..(numblocks - 1) : ~(Distance(b)' < 0)
    BY <1>5, <1>7
  <2> QED
    BY <1>2, <1>5, <1>6, <1>9, <2>1, <2>2 DEF FullAreConsecutive
<1>14. FullInArrivalOrder'
  BY <1>2, <1>9 DEF FullInArrivalOrder
<1> QED
  BY <1>10, <1>11, <1>12, <1>13, <1>14 DEF Ring

\* A session knows its number of blocks.
LEMMA SessionInRing ==
    ASSUME TypeOK, LockInv, CallInv, RingInv, Session
    PROVE  InRing
BY DEF Session, At, CallInv, RingInv, InRing

LEMMA RingInvStep ==
    ASSUME TypeOK, LockInv, CallInv, PreparedInv, RingInv, [Next]_vars
    PROVE  RingInv'
<1> SUFFICES ASSUME Session'
             PROVE  Ring'
  BY DEF RingInv
<1>1. CASE \E t \in Threads : StartEngine(t)
  BY <1>1, StartEngineBeginsRing
<1>2. CASE Session /\ numblocks' = numblocks /\ hook /\ RingStep
  <2>1. InRing
    BY <1>2, SessionInRing
  <2> QED
    BY <1>2, <2>1, UntouchedKeepsRing, HwFillKeepsRing, IsrEnterKeepsRing,
       IsrFillKeepsRing, IsrBlockKeepsRing, IsrRestartKeepsRing,
       IsrEngineKeepsRing, IsrPostKeepsRing, MarkFreeKeepsRing,
       MarkRestartKeepsRing, MarkEngineKeepsRing, BeginTakeKeepsRing,
       IrqTakeKeepsRing DEF RingStep, RingThread
<1> QED
  BY <1>1, <1>2, SessionCases

-----------------------------------------------------------------------------
(* The theorems *)

LEMMA InitInv == Init => IInv
BY BoundsAssumption, FilesAssumption
   DEF Init, IInv, LockInv, CallInv, FirstInv, PreparedInv, CalmInv, RingInv,
       Calm, MuxLabels, Session, At

LEMMA InvStep ==
    ASSUME OneSessionOrUniprocessor, TypeOK, IInv, [Next]_vars
    PROVE  IInv'
BY LockStep, CallInvStep, FirstStep, PreparedStep, CalmStep, RingInvStep
   DEF IInv

\* The inductive invariant: any number of sessions on a uniprocessor, or one
\* session of any number of threads with the interrupt handler next to them.
THEOREM Invariance ==
    ASSUME OneSessionOrUniprocessor
    PROVE  Spec => [](TypeOK /\ IInv)
<1>1. Init => TypeOK /\ IInv
  BY InitInv, BlocksFacts, FilesAssumption
     DEF Init, TypeOK, FlagsOK, DataOK, Labels
<1>2. TypeOK /\ IInv /\ [Next]_vars => (TypeOK /\ IInv)'
  BY InvStep, FlagsStep, DataStep DEF TypeOK
<1> QED
  BY <1>1, <1>2, PTL DEF Spec

\* During a session the full blocks are consecutive and as many as the
\* counters of the handler and of irq_get say.
THEOREM RingOrderHolds ==
    ASSUME OneSessionOrUniprocessor
    PROVE  Spec => []RingOrder
<1>1. TypeOK /\ IInv => RingOrder
  BY DEF IInv, RingInv, Ring, RingOrder
<1> QED
  BY <1>1, Invariance, PTL

\* The full blocks hold the data in the order of its arrival.
THEOREM DataInOrderHolds ==
    ASSUME OneSessionOrUniprocessor
    PROVE  Spec => []DataInOrder
<1>1. TypeOK /\ IInv => DataInOrder
  BY DEF IInv, RingInv, Ring, DataInOrder
<1> QED
  BY <1>1, Invariance, PTL

\* The engine writes into writing_block and into no block that is full or the
\* user's, whoever of handler and ddma_mark started it last.
THEOREM EngineInOwnBlockHolds ==
    ASSUME OneSessionOrUniprocessor
    PROVE  Spec => []EngineInOwnBlock
<1>1. TypeOK /\ IInv => EngineInOwnBlock
  BY DEF IInv, RingInv, Ring, Writer, Loaded, EngineInOwnBlock
<1> QED
  BY <1>1, Invariance, PTL

-----------------------------------------------------------------------------
(* What the user is given, and keeps *)

\* Only irq_get hands out a block.
LEMMA OnlyTakeHandsOut ==
    ASSUME TypeOK, [Next]_vars, taken' = taken + 1
    PROVE  \E t \in Threads : IrqTake(t)
<1> taken \in Nat
  BY DEF TypeOK, DataOK
<1> USE DEF ring, plx, config, history, irqs, handler, user, locks
<1>1. CASE \/ HwFill \/ HwDoorbell \/ IsrEnter
           \/ IsrFill \/ IsrBlock \/ IsrRestart \/ IsrEngine \/ IsrPost
  BY <1>1 DEF HwFill, HwDoorbell, IsrEnter, IsrFill, InUse, IsrBlock,
              IsrRestart, IsrEngine, IsrPost
<1>2. CASE ThreadFetch \/ ThreadUpdate \/ ThreadWake
  BY <1>2 DEF ThreadFetch, ThreadUpdate, ThreadWake
<1>3. ASSUME NEW t \in Threads, ThreadAction(t)
      PROVE  IrqTake(t)
  <2>1. CASE OpenFile(t) \/ Release(t) \/ ReleaseUnmap(t) \/ ReleaseClose(t)
    BY <2>1 DEF OpenFile, Release, Cleanup, ReleaseUnmap, ReleaseClose
  <2>2. CASE \E n \in BlockCounts \union {0} : Map(t, n)
    BY <2>2 DEF Map
  <2>3. CASE StartReset(t) \/ StartEngine(t) \/ StartDone(t)
    BY <2>3 DEF StartReset, ResetRing, StartEngine, StartDone
  <2>4. CASE StopDisable(t) \/ StopAbort(t) \/ StopDone(t)
    BY <2>4 DEF StopDisable, StopAbort, Abort, StopDone
  <2>5. CASE WaitFinished(t) \/ WaitSleep(t) \/ Signal(t)
    BY <2>5 DEF WaitFinished, WaitSleep, Signal
  <2>6. CASE \/ \E b \in Blocks : Mark(t, b)
             \/ MarkFree(t) \/ MarkRestart(t) \/ MarkEngine(t)
    BY <2>6 DEF Mark, MarkFree, CanMark, Awaited, MarkRestart, MarkEngine
  <2>7. CASE \/ IrqWait(t) \/ IrqGet(t)
             \/ \E mask \in SUBSET Bits : IrqAck(t, mask)
    <3>1. UNCHANGED history \/ IrqGet(t)
      BY <2>7 DEF IrqWait, IrqAck
    <3>2. IrqGet(t) => UNCHANGED history
      BY DEF IrqGet, HasData
    <3> QED
      BY <3>1, <3>2
  <2> QED
    BY <1>3, <2>1, <2>2, <2>3, <2>4, <2>5, <2>6, <2>7 DEF ThreadAction
<1>4. CASE UNCHANGED vars
  BY <1>4 DEF vars
<1> QED
  BY <1>1, <1>2, <1>3, <1>4, StepCases

\* The n-th block a user gets in a session holds the n-th block of data.
THEOREM HandsOutInOrderHolds ==
    ASSUME OneSessionOrUniprocessor
    PROVE  Spec => HandsOutInOrder
<1>1. ASSUME TypeOK, IInv, [Next]_vars, Session, taken' = taken + 1
      PROVE  content[reading_block'] = taken
  <2>1. PICK t \in Threads : IrqTake(t)
    BY <1>1, OnlyTakeHandsOut
  <2>2. InRing
    BY <1>1, SessionInRing DEF IInv
  <2>3. reading_block' = NextRead /\ block[NextRead] = "full"
    BY <2>1, <2>2 DEF IrqTake, At, InRing, Ring, Counts
  <2>4. content[NextRead] = taken + Distance(NextRead)
    BY <2>2, <2>3, Indices DEF InRing, Ring, FullInArrivalOrder
  <2>5. Distance(NextRead) = 0
    BY <2>2, Indices
  <2> QED
    BY <1>1, <2>3, <2>4, <2>5 DEF TypeOK, DataOK
<1>2. TypeOK /\ IInv /\ [Next]_vars
        => [Session /\ taken' = taken + 1 => content[reading_block'] = taken]_vars
  BY <1>1
<1> QED
  BY <1>2, Invariance, PTL DEF Spec, HandsOutInOrder

\* What a step of the ring does to a block in the user's hands.
LEMMA RingStepKeepsUser ==
    ASSUME InRing, CallInv, numblocks' = numblocks, RingStep,
           NEW b \in Blocks, block[b] = "user"
    PROVE  block'[b] \in {"user", "free"} /\ content'[b] = content[b]
<1> USE DEF InRing, TypeOK, DataOK
<1> USE DEF ring, plx, history, handler
<1>1. CASE RingUntouched
  BY <1>1 DEF RingUntouched
<1>2. CASE HwFill
  <2>1. block[target] = "dma"
    BY <1>2 DEF HwFill, Ring, Writer, Loaded
  <2> QED
    BY <1>2, <2>1 DEF HwFill
<1>3. CASE IsrFill
  <2>1. block[writing_block] = "dma"
    BY <1>3 DEF IsrFill, InUse, Ring, Writer, InHandler
  <2> QED
    BY <1>3, <2>1 DEF IsrFill, InUse
<1>4. CASE IsrEnter \/ IsrBlock \/ IsrEngine \/ IsrPost
  BY <1>4 DEF IsrEnter, IsrBlock, IsrEngine, IsrPost
<1>5. CASE IsrRestart
  <2>1. block[next_block] = "free"
    BY <1>5 DEF IsrRestart, Ring, Writer, InHandler
  <2> QED
    BY <1>5, <2>1 DEF IsrRestart, BlockToDma
<1>6. ASSUME NEW t \in Threads, RingThread(t)
      PROVE  block'[b] \in {"user", "free"} /\ content'[b] = content[b]
  <2>1. CASE MarkFree(t)
    BY <2>1 DEF MarkFree, CanMark, Awaited
  <2>2. CASE MarkRestart(t)
    <3>1. block[blk[t]] = "free"
      BY <2>2 DEF MarkRestart, At, Ring, Writer, WithMarker, Marker
    <3> QED
      BY <2>2, <3>1 DEF MarkRestart, BlockToDma
  <2>3. CASE MarkEngine(t) \/ BeginTake(t)
    BY <2>3 DEF MarkEngine, BeginTake
  <2>4. CASE IrqTake(t)
    BY <2>4 DEF IrqTake
  <2> QED
    BY <1>6, <2>1, <2>2, <2>3, <2>4 DEF RingThread
<1> QED
  BY <1>1, <1>2, <1>3, <1>4, <1>5, <1>6 DEF RingStep

\* During a session nobody but the user takes a block from the user, and the
\* engine does not overwrite it.
THEOREM UserBlockKeptHolds ==
    ASSUME OneSessionOrUniprocessor
    PROVE  Spec => UserBlockKept
<1>1. ASSUME TypeOK, IInv, [Next]_vars, Session, Session',
             NEW b \in Blocks, block[b] = "user"
      PROVE  block'[b] \in {"user", "free"} /\ content'[b] = content[b]
  <2>1. InRing
    BY <1>1, SessionInRing DEF IInv
  <2>2. ~ \E t \in Threads : StartEngine(t)
    <3>1. ASSUME NEW t \in Threads, StartEngine(t)
          PROVE  FALSE
      <4>1. dmaStatus = "ready" /\ mux = t
        BY <1>1, <3>1 DEF StartEngine, At, IInv, CallInv, LockInv, MuxLabels
      <4>2. PICK u \in Threads : pc[u] = "start_done"
        BY <1>1, <4>1 DEF Session, At
      <4> QED
        BY <1>1, <3>1, <4>1, <4>2 DEF StartEngine, At, IInv, LockInv, MuxLabels
    <3> QED
      BY <3>1
  <2>3. numblocks' = numblocks /\ RingStep
    BY <1>1, <2>2, SessionCases DEF IInv
  <2> QED
    BY <1>1, <2>1, <2>3, RingStepKeepsUser DEF IInv
<1>2. TypeOK /\ IInv /\ [Next]_vars
        => [Session /\ Session' =>
              \A b \in Blocks : block[b] = "user" =>
                 block'[b] \in {"user", "free"} /\ content'[b] = content[b]]_vars
  BY <1>1
<1> QED
  BY <1>2, Invariance, PTL DEF Spec, UserBlockKept
=============================================================================
