----------------------- MODULE DemandDmaMemoryProofs -----------------------
(***************************************************************************)
(* What becomes of the user's pages: that they belong to an open file      *)
(* (OwnerIsOpen), that only its calls can start the engine or stop it      *)
(* (EngineInv), that the engine is idle when they may be freed             *)
(* (StoppedIsIdle), that it never writes into a block it was not given     *)
(* (NoForeignWrite), and that it waits only for blocks in use              *)
(* (BlockedWaits).                                                         *)
(***************************************************************************)
EXTENDS DemandDmaProofs

-----------------------------------------------------------------------------
(* The owner *)

\* A step of thread t leaves the flag of release alone.
LEMMA GotoReleasing ==
    ASSUME NEW t \in Threads, NEW label, Goto(t, label)
    PROVE  releasing' = releasing
BY DEF Goto, GotoWith

LEMMA OwnerStep ==
    ASSUME ~AbortCanFail, TypeOK, LockInv, CallInv, OwnerInv, [Next]_vars
    PROVE  OwnerInv'
<1> USE DEF TypeOK, DataOK, LockInv, CallInv, OwnerInv, OwnerIsOpen, MuxLabels
<1> USE DEF ring, plx, config, history, irqs, handler, user, locks
<1>1. CASE \/ HwFill \/ HwDoorbell
           \/ IsrFill \/ IsrBlock \/ IsrRestart \/ IsrEngine \/ IsrPost
  BY <1>1 DEF HwFill, HwDoorbell, IsrFill, InUse, IsrBlock, IsrRestart,
              IsrEngine, IsrPost
<1>2. CASE IsrEnter
  BY <1>2 DEF IsrEnter, At
<1>3. CASE ThreadFetch \/ ThreadUpdate \/ ThreadWake
  BY <1>3 DEF ThreadFetch, ThreadUpdate, ThreadWake, At
<1>4. ASSUME NEW t \in Threads, ThreadAction(t)
      PROVE  OwnerInv'
  <2> USE GotoEffect, GotoWithEffect, GotoReleasing, FilesAssumption DEF At, Enter
  <2>1. CASE OpenFile(t)
    BY <2>1 DEF OpenFile
  <2>2. CASE Release(t)
    BY <2>2 DEF Release, Cleanup
  <2>3. CASE ReleaseUnmap(t)
    BY <2>3 DEF ReleaseUnmap, MuxFree
  <2>4. CASE ReleaseClose(t)
    BY <2>4 DEF ReleaseClose
  <2>5. CASE \E n \in BlockCounts \union {0} : Map(t, n)
    BY <2>5 DEF Map, MuxFree, Foreign
  <2>6. CASE StartReset(t) \/ StartEngine(t) \/ StartDone(t)
    BY <2>6 DEF StartReset, ResetRing, StartEngine, StartDone, MuxFree, Foreign
  <2>7. CASE StopDisable(t)
    BY <2>7 DEF StopDisable, MuxFree
  <2>8. CASE StopAbort(t)
    BY <2>8 DEF StopAbort, Abort
  <2>9. CASE StopDone(t)
    BY <2>9 DEF StopDone
  <2>10. CASE WaitFinished(t) \/ WaitSleep(t) \/ Signal(t)
    BY <2>10 DEF WaitFinished, WaitSleep, Signal, MuxFree
  <2>11. CASE \E b \in Blocks : Mark(t, b)
    BY <2>11 DEF Mark, GotoWith
  <2>12. CASE MarkFree(t) \/ MarkRestart(t) \/ MarkEngine(t)
    BY <2>12 DEF MarkFree, CanMark, Awaited, MarkRestart, MarkEngine
  <2>13. CASE IrqWait(t)
    BY <2>13 DEF IrqWait
  <2>14. CASE IrqGet(t)
    BY <2>14 DEF IrqGet, HasData, GotoWith
  <2>15. CASE IrqTake(t)
    BY <2>15 DEF IrqTake
  <2>16. CASE \E mask \in SUBSET Bits : IrqAck(t, mask)
    BY <2>16 DEF IrqAck
  <2> QED
    BY <1>4, <2>1, <2>2, <2>3, <2>4, <2>5, <2>6, <2>7, <2>8, <2>9, <2>10,
       <2>11, <2>12, <2>13, <2>14, <2>15, <2>16 DEF ThreadAction
<1>5. CASE UNCHANGED vars
  BY <1>5 DEF vars
<1> QED
  BY <1>1, <1>2, <1>3, <1>4, <1>5, StepCases

\* What the calls rely on, whatever the schedule and the number of threads.
LEMMA CallsHold == Spec => [](TypeOK /\ LockInv /\ CallInv)
<1>1. Init => TypeOK /\ LockInv /\ CallInv
  BY BlocksFacts, FilesAssumption
     DEF Init, TypeOK, FlagsOK, DataOK, Labels, LockInv, CallInv, MuxLabels
<1>2. TypeOK /\ LockInv /\ CallInv /\ [Next]_vars
        => (TypeOK /\ LockInv /\ CallInv)'
  BY FlagsStep, DataStep, LockStep, CallInvStep DEF TypeOK
<1> QED
  BY <1>1, <1>2, PTL DEF Spec

\* If an abort always stops the engine, the mapped blocks belong to an open
\* file: any number of files and of threads may race to map, start, stop and
\* close, on any machine, and release leaves nothing behind.
THEOREM OwnerIsOpenHolds ==
    ASSUME ~AbortCanFail
    PROVE  Spec => []OwnerIsOpen
<1>1. Init => OwnerInv
  BY FilesAssumption DEF Init, OwnerInv, OwnerIsOpen, MuxLabels
<1>2. TypeOK /\ LockInv /\ CallInv /\ OwnerInv /\ [Next]_vars => OwnerInv'
  BY OwnerStep
<1>3. OwnerInv => OwnerIsOpen
  BY DEF OwnerInv
<1> QED
  BY <1>1, <1>2, <1>3, CallsHold, PTL DEF Spec

-----------------------------------------------------------------------------
(* The engine and the calls of competing processes *)

\* A call that neither starts nor stops the engine.
LEMMA ElsewhereKeepsEngine ==
    ASSUME TypeOK, EngineInv, NEW t \in Threads, NEW label \in Labels,
           pc[t] \notin MuxLabels \union MarkLabels \/ (pc[t] = "wait_dma" /\ label = "idle"),
           label \notin MuxLabels \union MarkLabels,
           NEW b, GotoWith(t, label, b),
           UNCHANGED <<plx, config, handler>>
    PROVE  EngineInv'
<1> USE DEF TypeOK, DataOK, EngineInv, MuxLabels, MarkLabels, plx, config, handler
<1>1. /\ pc'[t] = label
      /\ \A u \in Threads \ {t} : pc'[u] = pc[u] /\ blk'[u] = blk[u]
  BY DEF GotoWith
<1>2. Session => Session'
  BY <1>1 DEF Session, At
<1>3. (\E u \in Threads : pc[u] \in {"start_done", "stop_abort"})
        => \E u \in Threads : pc'[u] \in {"start_done", "stop_abort"}
  BY <1>1
<1> QED
  BY <1>1, <1>2, <1>3

\* What the calls must know of each other: only the owner's thread is in a call
\* that starts or stops the engine, and while it is there nobody else can map,
\* start or stop.
LEMMA EngineStep ==
    ASSUME PrivateFiles, TypeOK, LockInv, CallInv, EngineInv, [Next]_vars
    PROVE  EngineInv'
<1> USE DEF TypeOK, DataOK, LockInv, CallInv, EngineInv, MuxLabels, MarkLabels,
            Session, At
<1> USE DEF ring, plx, config, history, irqs, handler, user, locks
<1> USE BlocksFacts
<1>1. CASE HwFill \/ HwDoorbell
  BY <1>1 DEF HwFill, HwDoorbell
<1>2. CASE IsrEnter
  BY <1>2 DEF IsrEnter
<1>3. CASE IsrFill
  BY <1>3 DEF IsrFill, InUse, Successor
<1>4. CASE IsrBlock \/ IsrRestart \/ IsrPost
  BY <1>4 DEF IsrBlock, IsrRestart, IsrPost
<1>5. CASE IsrEngine
  BY <1>5 DEF IsrEngine, EngineStart
<1>6. CASE ThreadFetch \/ ThreadUpdate \/ ThreadWake
  BY <1>6 DEF ThreadFetch, ThreadUpdate, ThreadWake
<1>7. ASSUME CpuFree, NEW t \in Threads, ThreadAction(t)
      PROVE  EngineInv'
  <2>1. isr = "idle" /\ \A u \in Threads : FdOf[u] = FdOf[t] => u = t
    BY <1>7 DEF PrivateFiles, CpuFree
  <2> USE <2>1, GotoEffect, GotoWithEffect, FilesAssumption DEF Enter
  <2>2. CASE OpenFile(t)
    BY <2>2 DEF OpenFile
  <2>3. CASE Release(t)
    BY <2>3 DEF Release, Cleanup
  <2>4. CASE ReleaseUnmap(t)
    <3>1. /\ \A u \in Threads : pc[u] \notin MuxLabels
          /\ UNCHANGED <<plx, owner, numblocks, hook, isr, next_block>>
          /\ dmaStatus' = dmaStatus \/ dmaStatus = "ready"
          /\ pc'[t] = "close" /\ \A u \in Threads \ {t} : pc'[u] = pc[u]
          /\ blk' = [blk EXCEPT ![t] = blk[t]]
      BY <2>4 DEF ReleaseUnmap, MuxFree, Goto, GotoWith
    <3>2. dmaStatus = "ready" => ~active /\ ~enabled
      BY <3>1
    <3> QED
      BY <3>1, <3>2
  <2>5. CASE ReleaseClose(t)
    BY <2>5 DEF ReleaseClose
  <2>6. CASE \E n \in BlockCounts \union {0} : Map(t, n)
    BY <2>6 DEF Map, MuxFree, Foreign
  <2>7. CASE StartReset(t)
    BY <2>7 DEF StartReset, ResetRing, MuxFree, Foreign
  <2>8. CASE StartEngine(t)
    BY <2>8 DEF StartEngine, EngineStart
  <2>9. CASE StartDone(t)
    BY <2>9 DEF StartDone
  <2>10. CASE StopDisable(t)
    BY <2>10 DEF StopDisable, MuxFree
  <2>11. CASE StopAbort(t)
    BY <2>11 DEF StopAbort, Abort
  <2>12. CASE StopDone(t)
    BY <2>12 DEF StopDone
  <2>13. CASE WaitFinished(t)
    BY <2>13 DEF WaitFinished, MuxFree
  <2>14. CASE WaitSleep(t)
    BY <2>14 DEF WaitSleep, MuxFree
  <2>15. CASE Signal(t)
    BY <2>15, ElsewhereKeepsEngine DEF Signal, Goto, Labels
  <2>16. CASE \E b \in Blocks : Mark(t, b)
    BY <2>16 DEF Mark
  <2>17. CASE MarkFree(t)
    BY <2>17 DEF MarkFree, CanMark, Awaited, Goto, GotoWith
  <2>18. CASE MarkRestart(t)
    BY <2>18 DEF MarkRestart, Goto, GotoWith
  <2>19. CASE MarkEngine(t)
    BY <2>19 DEF MarkEngine, EngineStart
  <2>20. CASE IrqWait(t)
    BY <2>20, ElsewhereKeepsEngine DEF IrqWait, Goto, Labels
  <2>21. CASE IrqGet(t)
    BY <2>21, ElsewhereKeepsEngine DEF IrqGet, HasData, Goto, Labels
  <2>22. CASE IrqTake(t)
    BY <2>22, ElsewhereKeepsEngine DEF IrqTake, Goto, Labels
  <2>23. CASE \E mask \in SUBSET Bits : IrqAck(t, mask)
    BY <2>23 DEF IrqAck
  <2> QED
    BY <1>7, <2>2, <2>3, <2>4, <2>5, <2>6, <2>7, <2>8, <2>9, <2>10, <2>11,
       <2>12, <2>13, <2>14, <2>15, <2>16, <2>17, <2>18, <2>19, <2>20, <2>21,
       <2>22, <2>23 DEF ThreadAction
<1>8. CASE UNCHANGED vars
  BY <1>8 DEF vars
<1> QED
  BY <1>1, <1>2, <1>3, <1>4, <1>5, <1>6, <1>7, <1>8, StepCases

\* Any number of processes on a uniprocessor.
LEMMA EngineHolds ==
    ASSUME PrivateFiles
    PROVE  Spec => [](TypeOK /\ LockInv /\ CallInv /\ EngineInv)
<1>1. Init => EngineInv
  BY DEF Init, EngineInv, MuxLabels, MarkLabels
<1>2. TypeOK /\ LockInv /\ CallInv /\ EngineInv /\ [Next]_vars => EngineInv'
  BY EngineStep
<1> QED
  BY <1>1, <1>2, CallsHold, PTL DEF Spec

\* Of the processes that compete for the DMA only the one whose file owns it
\* is in a call that can start the engine or has to stop it, the mapping stays
\* while it is there, and the engine runs between the calls only if the DMA
\* does, also after an abort that has failed (sis1100_ddma_startstop.c:116-120,
\* 214-225).
THEOREM EngineInvHolds ==
    ASSUME PrivateFiles
    PROVE  Spec => []EngineInv
BY EngineHolds, PTL

\* On a uniprocessor a DMA that is not running leaves the engine idle, so
\* ddma_map may free the pages: after any number of sessions of any number of
\* processes, with an abort that may fail, whatever the handler interrupts.
THEOREM StoppedIsIdleHolds ==
    ASSUME PrivateFiles
    PROVE  Spec => []StoppedIsIdle
<1>1. LockInv /\ EngineInv => StoppedIsIdle
  BY FilesAssumption DEF LockInv, EngineInv, MuxLabels, StoppedIsIdle
<1> QED
  BY <1>1, EngineHolds, PTL

-----------------------------------------------------------------------------
(* The engine and the user's memory *)

\* Outside of sessions the engine may still run, when ddma_stop has removed
\* the hook but not yet aborted, or the abort has failed; the calls that may
\* run then do not touch its block.
LEMMA WriteStep ==
    ASSUME Uniprocessor, TypeOK, IInv, IInv', WriteInv, [Next]_vars
    PROVE  WriteInv'
\* Within a session the order of the ring gives the engine its block.
<1>1. CASE Session'
  BY <1>1 DEF IInv, RingInv, Ring, Counts, Writer, Loaded, WithMarker, Marker,
              WriteInv, NoForeignWrite
<1>2. CASE ~Session'
  <2> USE DEF TypeOK, DataOK, WriteInv, NoForeignWrite, At
  <2> USE DEF ring, plx, config, history, irqs, handler, user, locks
  <2>1. isr' = "idle"
    BY <1>2 DEF IInv, CalmInv
  <2>2. ~(IsrFill \/ IsrBlock \/ IsrRestart \/ IsrEngine)
    BY <2>1 DEF IsrFill, IsrBlock, IsrRestart, IsrEngine
  <2>3. CASE HwFill \/ HwDoorbell \/ IsrEnter \/ IsrPost
    BY <2>3 DEF HwFill, HwDoorbell, IsrEnter, IsrPost
  <2>4. CASE ThreadFetch \/ ThreadUpdate \/ ThreadWake
    BY <2>4 DEF ThreadFetch, ThreadUpdate, ThreadWake
  <2>5. ASSUME NEW t \in Threads, ThreadAction(t)
        PROVE  WriteInv'
    <3>1. \A u \in Threads : u = t
      BY DEF Uniprocessor
    <3>2. dmaStatus # "running" /\ pc[t] \notin {"start_done", "stop_abort"}
            => ~active
      BY <3>1 DEF IInv, CalmInv
    <3> USE <3>1, GotoEffect, GotoWithEffect DEF Enter
    <3>3. CASE OpenFile(t) \/ Release(t) \/ ReleaseClose(t)
      BY <3>3 DEF OpenFile, Release, Cleanup, ReleaseClose
    <3>4. CASE ReleaseUnmap(t)
      BY <3>2, <3>4 DEF ReleaseUnmap
    <3>5. CASE \E n \in BlockCounts \union {0} : Map(t, n)
      BY <3>2, <3>5 DEF Map
    <3>6. CASE StartReset(t)
      BY <3>2, <3>6 DEF StartReset, ResetRing
    <3>7. ~StartEngine(t)
      BY <1>2 DEF StartEngine, Session
    <3>8. CASE StartDone(t)
      BY <3>8 DEF StartDone
    <3>9. CASE StopDisable(t) \/ StopDone(t)
      BY <3>9 DEF StopDisable, StopDone
    <3>10. CASE StopAbort(t)
      BY <3>10 DEF StopAbort, Abort
    <3>11. CASE WaitFinished(t) \/ WaitSleep(t) \/ Signal(t)
      BY <3>11 DEF WaitFinished, WaitSleep, Signal
    <3>12. CASE \E b \in Blocks : Mark(t, b)
      BY <3>12 DEF Mark
    <3>13. CASE MarkFree(t)
      BY <3>13 DEF MarkFree, CanMark, Awaited
    <3>14. CASE MarkRestart(t)
      BY <3>14 DEF MarkRestart, BlockToDma, Goto, GotoWith
    <3>15. CASE MarkEngine(t)
      BY <3>15 DEF MarkEngine, EngineStart
    <3>16. CASE IrqWait(t)
      BY <3>16 DEF IrqWait
    <3>17. CASE IrqGet(t)
      BY <3>17 DEF IrqGet, HasData
    <3>18. CASE IrqTake(t)
      BY <3>18 DEF IrqTake
    <3>19. CASE \E mask \in SUBSET Bits : IrqAck(t, mask)
      BY <3>19 DEF IrqAck
    <3> QED
      BY <2>5, <3>3, <3>4, <3>5, <3>6, <3>7, <3>8, <3>9, <3>10, <3>11, <3>12,
         <3>13, <3>14, <3>15, <3>16, <3>17, <3>18, <3>19 DEF ThreadAction
  <2>6. CASE UNCHANGED vars
    BY <2>6 DEF vars
  <2> QED
    BY <2>2, <2>3, <2>4, <2>5, <2>6, StepCases
<1> QED
  BY <1>1, <1>2

\* On a uniprocessor the engine writes only into the block it was given: in
\* every session, after every ddma_stop, and after one whose abort failed.
THEOREM NoForeignWriteHolds ==
    ASSUME Uniprocessor
    PROVE  Spec => []NoForeignWrite
<1>1. Init => WriteInv
  BY DEF Init, WriteInv, NoForeignWrite
<1>2. OneSessionOrUniprocessor
  BY DEF OneSessionOrUniprocessor
<1>3. TypeOK /\ IInv /\ IInv' /\ WriteInv /\ [Next]_vars => WriteInv'
  BY WriteStep
<1>4. WriteInv => NoForeignWrite
  BY DEF WriteInv
<1> QED
  BY <1>1, <1>2, <1>3, <1>4, Invariance, PTL DEF Spec

-----------------------------------------------------------------------------
(* The DMA that waits *)

\* On a uniprocessor ddma_mark frees no block in the middle of the handler.
LEMMA MarkIsAtomic ==
    ASSUME ~Smp, TypeOK, [Next]_vars, NEW t \in Threads, MarkFree(t)
    PROVE  isr = "idle"
<1> USE DEF ring, plx, config, history, irqs, handler, user, locks
<1>1. pc[t] = "mark" /\ pc'[t] # "mark"
  BY GotoEffect DEF MarkFree, CanMark, Awaited, At, TypeOK
<1>2. ~(IsrFill \/ IsrBlock \/ IsrRestart \/ IsrEngine \/ IsrPost \/ HwFill)
  BY <1>1 DEF IsrFill, InUse, IsrBlock, IsrRestart, IsrEngine, IsrPost, HwFill
<1>3. ~ UNCHANGED vars
  BY <1>1 DEF vars
<1> QED
  BY <1>2, <1>3, StepCases DEF CpuFree, HwDoorbell, IsrEnter

\* Between the handler's look at the next block and its is_blocked no thread
\* runs on a uniprocessor, so the ddma_mark that frees the block comes before
\* the look or after is_blocked.
LEMMA WaitStep ==
    ASSUME ~Smp, TypeOK, IInv, WaitInv, [Next]_vars
    PROVE  WaitInv'
<1> SUFFICES ASSUME Session', is_blocked' \/ isr' = "block"
             PROVE  block'[writing_block'] # "free"
  BY DEF WaitInv
<1> USE DEF TypeOK, DataOK, At
<1> USE DEF ring, plx, config, history, irqs, handler, user, locks
<1>1. CASE \E t \in Threads : StartEngine(t)
  BY <1>1 DEF StartEngine, IInv, PreparedInv, Calm
<1>2. CASE Session /\ numblocks' = numblocks /\ RingStep
  <2>1. InRing
    BY <1>2, SessionInRing DEF IInv
  <2> USE <1>2, <2>1 DEF WaitInv
  <2>2. CASE RingUntouched
    BY <2>2 DEF RingUntouched
  <2>3. CASE HwFill \/ IsrEnter \/ IsrBlock \/ IsrPost \/ IsrEngine
    BY <2>3 DEF HwFill, IsrEnter, IsrBlock, IsrPost, IsrEngine
  <2>4. CASE IsrFill
    <3>1. ~is_blocked
      BY <2>4 DEF IsrFill, InRing, Ring, Writer, InHandler
    <3> QED
      BY <2>4, <3>1 DEF IsrFill, InUse
  <2>5. CASE IsrRestart
    BY <2>5 DEF IsrRestart, BlockToDma
  <2>6. ASSUME NEW t \in Threads, RingThread(t)
        PROVE  block'[writing_block'] # "free"
    <3>1. CASE MarkFree(t)
      BY <3>1, MarkIsAtomic DEF MarkFree, CanMark, Awaited
    <3>2. CASE MarkRestart(t)
      BY <3>2 DEF MarkRestart, BlockToDma
    <3>3. CASE MarkEngine(t) \/ BeginTake(t)
      BY <3>3 DEF MarkEngine, BeginTake
    <3>4. CASE IrqTake(t)
      BY <3>4 DEF IrqTake
    <3> QED
      BY <2>6, <3>1, <3>2, <3>3, <3>4 DEF RingThread
  <2> QED
    BY <2>2, <2>3, <2>4, <2>5, <2>6 DEF RingStep
<1> QED
  BY <1>1, <1>2, SessionCases DEF IInv

\* On a uniprocessor a DMA that is blocked waits for a block in use, so the
\* ddma_mark that frees it finds is_blocked and restarts the engine: in any
\* number of sessions of one thread, or in one session of any number of them.
THEOREM BlockedWaitsHolds ==
    ASSUME ~Smp, OneSessionOrUniprocessor
    PROVE  Spec => []BlockedWaits
<1>1. Init => WaitInv
  BY DEF Init, WaitInv
<1>2. TypeOK /\ IInv /\ WaitInv /\ [Next]_vars => WaitInv'
  BY WaitStep
<1>3. WaitInv => BlockedWaits
  BY DEF WaitInv, BlockedWaits
<1> QED
  BY <1>1, <1>2, <1>3, Invariance, PTL DEF Spec
=============================================================================
