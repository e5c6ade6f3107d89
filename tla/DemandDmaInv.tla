---------------------------- MODULE DemandDmaInv ----------------------------
(***************************************************************************)
(* The inductive invariant behind RingOrder, DataInOrder and                *)
(* EngineInOwnBlock.  It says who may start the engine at every moment of a *)
(* session (the interrupt handler or one thread in sis1100_ddma_mark(),     *)
(* never both), and what is left behind between two sessions.  Further      *)
(* invariants follow, of which EngineInv is behind StoppedIsIdle.           *)
(***************************************************************************)
EXTENDS DemandDma

\* A uniprocessor and one user thread: nothing runs next to a call but the
\* interrupt handler and the irq thread.
Uniprocessor == ~Smp /\ \A t, u \in Threads : t = u

\* The schedules the invariant covers: any number of sessions on a
\* uniprocessor, or one session of any number of threads on any machine.
OneSessionOrUniprocessor == MaxStarts <= 1 \/ Uniprocessor

\* Threads that hold dma->mux, and those on the way to start_dma().
MuxLabels == {"start_engine", "start_done", "stop_abort", "stop_done",
              "wait_dma", "wait_done"}
Marker(t) == pc[t] \in {"mark_restart", "mark_engine"}

\* The locks are held by the threads that are inside them.
LockInv ==
    \A t \in Threads :
        /\ pc[t] \in MuxLabels <=> mux = t
        /\ pc[t] = "take" <=> seminfo = t

\* What the callers of start and stop rely on.
CallInv ==
    /\ dmaStatus # "invalid" => numblocks \in BlockCounts
    /\ ~(active /\ latched)
    /\ \A t \in Threads :
        /\ pc[t] \in {"stop_abort", "stop_done", "wait_done"} => ~hook
        /\ pc[t] \in {"start_engine", "start_done"} => dmaStatus = "ready"
        /\ pc[t] \in {"stop_abort", "stop_done", "wait_dma", "wait_done"}
              => dmaStatus = "running"
        /\ pc[t] = "start_done" => hook

\* No transfer is under way and no step is left over that could start one or
\* take a block.
Calm ==
    /\ isr = "idle"
    /\ ~active
    /\ ~enabled
    /\ \A t \in Threads :
          pc[t] \notin {"mark", "mark_restart", "mark_engine", "take"}

\* Before the first start all is calm.
FirstInv ==
    starts = 0 =>
        /\ Calm
        /\ dmaStatus # "running"
        /\ \A t \in Threads : pc[t] \notin MuxLabels

\* ddma_start has prepared the ring and nothing has touched it since.
PreparedInv ==
    (\E t \in Threads : pc[t] = "start_engine") =>
        /\ Calm
        /\ block[0] = "dma"
        /\ \A b \in 1..(numblocks - 1) : block[b] = "free"
        /\ reading_block = -1
        /\ writing_block = 0
        /\ ~is_blocked
        /\ debug_sequence = 0
        /\ filled = 0
        /\ taken = 0

\* On a uniprocessor every session is followed by calm.
CalmInv ==
    Uniprocessor =>
        /\ isr # "idle" => Session
        /\ \A t \in Threads :
            /\ pc[t] \in {"mark", "mark_restart", "mark_engine", "take"}
                  => dmaStatus = "running"
            /\ pc[t] \in {"stop_abort", "stop_done"} => ~enabled
            /\ pc[t] \in {"stop_done", "wait_done"} => ~active
        /\ \/ dmaStatus = "running"
           \/ \E t \in Threads : pc[t] \in {"start_done", "stop_abort"}
           \/ ~active /\ ~enabled

\* The indices and the calls under way agree with the states of the blocks.
Counts ==
    /\ FullCount \in 0..numblocks
    /\ reading_block < numblocks
    /\ writing_block < numblocks
    /\ \A b \in 0..(numblocks - 1) : block[b] = "dma" => b = writing_block
    /\ \A t \in Threads :
          pc[t] = "take" => blk[t] = NextRead /\ block[NextRead] = "full"

\* The fill the interrupt handler has still to count.
Uncounted == (enabled /\ ~active) \/ isr = "fill"
Fills ==
    /\ filled = debug_sequence + IF Uncounted THEN 1 ELSE 0
    /\ Uncounted => content[writing_block] = debug_sequence

\* The engine belongs to one party at a time.  It is loaded, or the handler
\* has its block, or it waits for a block, or one thread is about to start it.
Loaded ==
    /\ isr \in {"idle", "post"}
    /\ ~is_blocked
    /\ \A t \in Threads : ~Marker(t)
    /\ target = writing_block
    /\ block[writing_block] = "dma"
InHandler ==
    /\ ~is_blocked
    /\ \A t \in Threads : ~Marker(t)
    /\ isr \in {"restart", "engine"} => next_block = writing_block
    /\ isr \in {"fill", "engine"} => block[writing_block] = "dma"
    /\ isr = "restart" => block[writing_block] = "free"
    /\ isr = "block" => block[writing_block] # "dma"
WithMarker(t) ==
    /\ blk[t] = writing_block
    /\ pc[t] = "mark_restart" => block[writing_block] = "free"
    /\ pc[t] = "mark_engine" => block[writing_block] = "dma"
    /\ \A u \in Threads : Marker(u) => u = t
Writer ==
    /\ active => enabled
    /\ enabled => Loaded
    /\ isr \in {"fill", "block", "restart", "engine"} => InHandler
    /\ is_blocked => /\ block[writing_block] # "dma"
                     /\ \A t \in Threads : ~Marker(t)
    /\ \A t \in Threads : Marker(t) => WithMarker(t)

\* What holds throughout a session.
Ring == Counts /\ Fills /\ Writer /\ FullAreConsecutive /\ FullInArrivalOrder
RingInv == Session => Ring

IInv ==
    /\ LockInv
    /\ CallInv
    /\ FirstInv
    /\ PreparedInv
    /\ CalmInv
    /\ RingInv
-----------------------------------------------------------------------------
(* Further invariants, of which all but OwnerInv and EngineInv rest on IInv  *)

\* Who is in a call has its file open; release runs alone on its file and
\* knows what the file owns.  (A failing abort breaks this: cleanup_fd goes on
\* and closes the file of a running DMA.)
OwnerInv ==
    /\ OwnerIsOpen
    /\ \A t \in Threads :
        /\ pc[t] # "idle" => FdOf[t] \in open
        /\ pc[t] \in MuxLabels => owner = FdOf[t]
        /\ releasing[t] =>
              /\ pc[t] \in {"cleanup", "stop_abort", "stop_done", "unmap", "close"}
              /\ \A u \in Threads \ {t} :
                    FdOf[u] = FdOf[t] => pc[u] = "idle" /\ ~releasing[u]
        /\ pc[t] \in {"cleanup", "unmap", "close"} => releasing[t]
        /\ pc[t] = "cleanup" => dmaStatus = "running" /\ owner = FdOf[t]
        /\ pc[t] = "unmap" => dmaStatus = "ready" /\ owner = FdOf[t]
        /\ pc[t] = "close" => dmaStatus = "invalid" \/ owner # FdOf[t]

\* In and out of sessions: the engine, and the call that is about to start it,
\* have a block of their own, and irq_get takes a full one.
WriteInv ==
    /\ NoForeignWrite
    /\ \A t \in Threads :
        /\ pc[t] = "mark_engine" => block[blk[t]] = "dma"
        /\ pc[t] = "take" => block[blk[t]] = "full"

\* The handler decides to wait for a block, and the DMA waits for it, only as
\* long as the block is in use.
WaitInv ==
    Session /\ (is_blocked \/ isr = "block") => block[writing_block] # "free"

\* The blocks in the user's hands are blocks of the ring, and ddma_start finds
\* none that a session before left there.
HeldInv ==
    /\ Session \/ Uniprocessor =>
          \A b \in Blocks : block[b] = "user" => b < numblocks
    /\ Uniprocessor => \A t \in Threads : pc[t] = "take" => blk[t] < numblocks
    /\ starts = 0 \/ (\E t \in Threads : pc[t] = "start_engine") =>
          \A b \in Blocks : block[b] # "user"

\* A uniprocessor, and no file that two threads share: any number of processes
\* may compete for the DMA.
PrivateFiles == ~Smp /\ \A t, u \in Threads : FdOf[t] = FdOf[u] => t = u

\* Places of a ddma_mark on its way to the engine.
MarkLabels == {"mark", "mark_restart", "mark_engine"}

\* Of competing processes only the owner's is ever in a call that starts the
\* engine or has to stop it, and the mapping stays while it is there: the check
\* of dma->owner at the head of each call holds to its end
\* (sis1100_ddma_startstop.c:116-120, 201-205, 314-322), although ddma_mark
\* does not take dma->mux.  Between the calls the engine runs only if the DMA
\* does, and never without a mapping, also after an abort that has failed.
EngineInv ==
    /\ active => dmaStatus # "invalid" /\ target < numblocks
    /\ isr # "idle" => Session
    /\ isr \in {"block", "restart", "engine"} => next_block < numblocks
    /\ \A t \in Threads :
        /\ pc[t] \in MuxLabels \union MarkLabels => owner = FdOf[t]
        /\ pc[t] \in MarkLabels => dmaStatus = "running" /\ blk[t] < numblocks
        /\ pc[t] \in {"stop_abort", "stop_done"} => ~enabled
        /\ pc[t] \in {"stop_done", "wait_done"} => ~active
    /\ \/ dmaStatus = "running"
       \/ \E t \in Threads : pc[t] \in {"start_done", "stop_abort"}
       \/ ~active /\ ~enabled

=============================================================================
