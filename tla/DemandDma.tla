----------------------------- MODULE DemandDma -----------------------------
(***************************************************************************)
(* The demand-mode DMA of the sis1100 driver: a ring of user-space blocks   *)
(* that the PLX chip fills one after the other.  Modelled are              *)
(*   - the ioctls of sis1100_ddma_map.c and sis1100_ddma_startstop.c;      *)
(*   - plxirq_dma0_hook(), which the interrupt handler calls when a block  *)
(*     is complete, with the gap between its two spinlocked sections;      *)
(*   - the interrupt thread, which turns the event into a pending bit;     *)
(*   - sis1100_irq_wait/get/ack for a ZEL LVD front end, which hand the    *)
(*     blocks to the user in order;                                        *)
(*   - open and release of the device files.                               *)
(* A step is what a CPU does without a point at which another CPU, or (on  *)
(* a uniprocessor) the interrupt handler, could see a difference.          *)
(***************************************************************************)
EXTENDS Naturals, Integers, FiniteSets

CONSTANTS
    Threads,       \* the user threads that issue ioctls
    Fds,           \* the open files (struct sis1100_fdata) they may use
    FdOf,          \* the file each thread uses
    NoFd,          \* "no file": the owner pointer refers to no open file
    BlockCounts,   \* the block numbers the user may ask for in ddma_map
    Owned,         \* the interrupt bits reserved by each file (irq_ctl)
    Autoack,       \* sc->autoack_mask, as set by irq_ctl
    Doorbells,     \* does the front end raise interrupts of its own?
    Smp,           \* may user threads run while the interrupt handler does?
    AbortCanFail,  \* can the abort in ddma_stop fail to stop the engine?
    MaxFills,      \* bound: blocks the hardware fills between two starts
    MaxStarts      \* bound: calls of ddma_start that succeed

Bits == {"ddma", "remote"}     \* ZELLVD_DDMA_IRQ and the doorbell bits
NoThread == "nobody"           \* a lock that is free

ASSUME FilesAssumption ==
    /\ NoThread \notin Threads
    /\ NoFd \notin Fds
    /\ FdOf \in [Threads -> Fds]
    /\ Owned \in [Fds -> SUBSET Bits]
    /\ Autoack \in SUBSET Bits

ASSUME BoundsAssumption ==
    /\ BlockCounts \subseteq Nat \ {0}
    /\ BlockCounts # {}
    /\ Doorbells \in BOOLEAN
    /\ Smp \in BOOLEAN
    /\ AbortCanFail \in BOOLEAN
    /\ MaxFills \in Nat
    /\ MaxStarts \in Nat

\* The indices any mapping may use.
Blocks == UNION {0..(n - 1) : n \in BlockCounts}

VARIABLES
    dmaStatus,      \* dma->status
    owner,          \* dma->owner
    numblocks,      \* dma->numblocks
    block,          \* dma->block[i].status; "none" where no block is mapped
    reading_block,  \* last block given to the user, -1 after a start
    writing_block,  \* block written by the DMA or awaited by it
    is_blocked,     \* the DMA waits for writing_block
    debug_sequence, \* blocks completed since the last start
    hook,           \* sc->plxirq_dma0_hook is installed
    mux,            \* thread that holds dma->mux, or NoThread
    seminfo,        \* thread that holds sc->sem_irqinfo, or NoThread
    active,         \* PLX channel 0: a transfer is under way
    target,         \* PLX channel 0: block of the loaded descriptor chain
    latched,        \* PLX channel 0: interrupt latched, not yet cleared
    enabled,        \* INTCSR: interrupts of DMA channel 0 enabled
    isr,            \* interrupt handler: where it is
    next_block,     \* interrupt handler: local variable of the hook
    command,        \* sc->handlercommand.command
    irq_thread,     \* irq thread: where it is
    new_irqs,       \* irq thread: the command it works on
    pending,        \* sc->pending_irqs
    pc,             \* user threads: where they are
    blk,            \* user threads: the block they work on
    releasing,      \* user threads: the file is being released
    open,           \* files that are open
    filled,         \* history: blocks the hardware filled since the last start
    taken,          \* history: blocks given to the user since the last start
    content,        \* history: which fill each block's data comes from
    starts          \* history: successful calls of ddma_start

ring    == <<block, reading_block, writing_block, is_blocked, debug_sequence>>
plx     == <<active, target, latched, enabled>>
config  == <<dmaStatus, owner, numblocks, hook, starts>>
history == <<filled, taken, content>>
irqs    == <<command, irq_thread, new_irqs, pending>>
handler == <<isr, next_block>>
user    == <<pc, blk, releasing>>
locks   == <<mux, seminfo>>
vars == <<ring, plx, config, history, irqs, handler, locks, user, open>>

-----------------------------------------------------------------------------
(* Helpers *)

\* next_block = b+1; if (next_block >= numblocks) next_block = 0
Successor(b) == IF b + 1 >= numblocks THEN 0 ELSE b + 1

\* On a uniprocessor no thread runs until the interrupt handler returns.
CpuFree == Smp \/ isr = "idle"

At(t, label) == pc[t] = label

\* Thread t goes on at a label, working on block b.
GotoWith(t, label, b) ==
    /\ pc' = [pc EXCEPT ![t] = label]
    /\ blk' = [blk EXCEPT ![t] = b]
    /\ releasing' = releasing
Goto(t, label) == GotoWith(t, label, IF label = "idle" THEN 0 ELSE blk[t])

\* Thread t enters the driver; its file is open and is not being released.
Enter(t) ==
    /\ At(t, "idle")
    /\ FdOf[t] \in open
    /\ \A u \in Threads : FdOf[u] = FdOf[t] => ~releasing[u]

\* mutex_lock(&dma->mux) succeeds.
MuxFree == mux = NoThread

\* Mutation: only a running DMA is protected.
ForeignWhileRunning(t) == dmaStatus = "running" /\ owner # FdOf[t]

\* The check at the head of map, start and stop: "is an other process using
\* dma?"
Foreign(t) == dmaStatus # "invalid" /\ owner # FdOf[t]

\* start_dma(), the part under dma->spin
BlockToDma(b) == block' = [block EXCEPT ![b] = "dma"]

\* start_dma(), the accesses to the PLX: clear and enable the interrupt,
\* load the descriptor address, start
EngineStart(b) ==
    /\ latched' = FALSE
    /\ enabled' = TRUE
    /\ target' = b
    /\ active' = TRUE

-----------------------------------------------------------------------------
Init ==
    /\ dmaStatus = "invalid"
    /\ owner = NoFd
    /\ numblocks = 0
    /\ block = [b \in Blocks |-> "none"]
    /\ reading_block = -1
    /\ writing_block = 0
    /\ is_blocked = FALSE
    /\ debug_sequence = 0
    /\ hook = FALSE
    /\ mux = NoThread
    /\ seminfo = NoThread
    /\ active = FALSE
    /\ target = 0
    /\ latched = FALSE
    /\ enabled = FALSE
    /\ isr = "idle"
    /\ next_block = 0
    /\ command = {}
    /\ irq_thread = "idle"
    /\ new_irqs = {}
    /\ pending = {}
    /\ pc = [t \in Threads |-> "idle"]
    /\ blk = [t \in Threads |-> 0]
    /\ releasing = [t \in Threads |-> FALSE]
    /\ open = {}
    /\ filled = 0
    /\ taken = 0
    /\ content = [b \in Blocks |-> 0]
    /\ starts = 0

-----------------------------------------------------------------------------
(* The front end and the PLX chip *)

\* The front end has delivered the last word of the block.
HwFill ==
    /\ active
    /\ filled < MaxFills
    /\ active' = FALSE
    /\ latched' = TRUE
    /\ content' = [content EXCEPT ![target] = filled]
    /\ filled' = filled + 1
    /\ UNCHANGED <<ring, target, enabled, config, taken, irqs, handler,
                   locks, user, open>>

\* A doorbell interrupt of the front end, handled by sis1100_intr().
HwDoorbell ==
    /\ isr = "idle"
    /\ Doorbells
    /\ "remote" \notin command
    /\ command' = command \union {"remote"}
    /\ UNCHANGED <<ring, plx, config, history, irq_thread, new_irqs, pending,
                   handler, locks, user, open>>

-----------------------------------------------------------------------------
(* sis1100_intr() and plxirq_dma0_hook() *)

\* Without a hook the handler only records got_dma0, which no one awaits
\* here but a sleeper in ddma_wait.
IsrEnter ==
    /\ isr = "idle"
    /\ latched /\ enabled
    /\ enabled' = FALSE
    /\ IF hook
       THEN isr' = "fill" /\ UNCHANGED pc
       ELSE /\ UNCHANGED isr
            /\ pc' = [t \in Threads |->
                        IF At(t, "wait_dma") THEN "wait_done" ELSE pc[t]]
    /\ UNCHANGED <<ring, active, target, latched, config, history, irqs,
                   next_block, locks, blk, releasing, open>>

\* Mutation: a block in the user's hands does not count as used.
InUseUnlessUser(status) == status \notin {"free", "user"}

\* Mutation: a full block does not count as used.
InUseUnlessFull(status) == status \notin {"free", "full"}

\* dma->block[next_block].status != dma_free
InUse(status) == status # "free"

\* First section under dma->spin.
IsrFill ==
    /\ isr = "fill"
    /\ LET next == Successor(writing_block)
           used == InUse(block'[next])
       IN  /\ block' = [block EXCEPT ![writing_block] = "full"]
           /\ writing_block' = next
           /\ next_block' = next
           /\ isr' = IF used THEN "block" ELSE "restart"
    /\ debug_sequence' = debug_sequence + 1
    /\ UNCHANGED <<reading_block, is_blocked, plx, config, history, irqs,
                   locks, user, open>>

\* The next block was in use: second section under dma->spin.
IsrBlock ==
    /\ isr = "block"
    /\ is_blocked' = TRUE
    /\ isr' = "post"
    /\ UNCHANGED <<block, reading_block, writing_block, debug_sequence, plx,
                   config, history, irqs, next_block, locks, user, open>>

\* The next block was free: start_dma(next_block).
IsrRestart ==
    /\ isr = "restart"
    /\ BlockToDma(next_block)
    /\ isr' = "engine"
    /\ UNCHANGED <<reading_block, writing_block, is_blocked, debug_sequence,
                   plx, config, history, irqs, next_block, locks, user,
                   open>>

IsrEngine ==
    /\ isr = "engine"
    /\ EngineStart(next_block)
    /\ isr' = "post"
    /\ UNCHANGED <<ring, config, history, irqs, next_block, locks, user,
                   open>>

\* handlercommand.command |= handlercomm_ddma; wake the irq thread.
IsrPost ==
    /\ isr = "post"
    /\ command' = command \union {"ddma"}
    /\ isr' = "idle"
    /\ next_block' = 0
    /\ UNCHANGED <<ring, plx, config, history, irq_thread, new_irqs, pending,
                   locks, user, open>>

-----------------------------------------------------------------------------
(* sis1100_irq_thread() *)

ThreadFetch ==
    /\ irq_thread = "idle"
    /\ command # {}
    /\ irq_thread' = "update"
    /\ new_irqs' = command
    /\ command' = {}
    /\ UNCHANGED <<ring, plx, config, history, pending, handler, locks, user,
                   open>>

\* Mutation: only the end of a block wakes the sleepers.
ThreadUpdateNoWake ==
    /\ irq_thread = "update"
    /\ seminfo = NoThread
    /\ pending' = pending \union new_irqs
    /\ irq_thread' = IF "ddma" \in new_irqs THEN "wake" ELSE "idle"
    /\ UNCHANGED <<ring, plx, config, history, command, new_irqs, handler,
                   locks, user, open>>

\* Under sem_irqinfo; sis1100_ddma_handler() and zellvd_rem_irq_handler()
\* contribute one bit each.
ThreadUpdate ==
    /\ irq_thread = "update"
    /\ seminfo = NoThread
    /\ pending' = pending \union new_irqs
    /\ irq_thread' = "wake"
    /\ UNCHANGED <<ring, plx, config, history, command, new_irqs, handler,
                   locks, user, open>>

\* wake_up_interruptible(&remoteirq_wait): every sleeper looks again.
ThreadWake ==
    /\ irq_thread = "wake"
    /\ pc' = [t \in Threads |-> IF At(t, "asleep") THEN "look" ELSE pc[t]]
    /\ irq_thread' = "idle"
    /\ new_irqs' = {}
    /\ UNCHANGED <<ring, plx, config, history, command, pending, handler,
                   locks, blk, releasing, open>>

-----------------------------------------------------------------------------
(* sis1100_open() and sis1100_release() *)

OpenFile(t) ==
    /\ At(t, "idle")
    /\ FdOf[t] \notin open
    /\ open' = open \union {FdOf[t]}
    /\ UNCHANGED <<ring, plx, config, history, irqs, handler, locks, user>>

\* Mutation: a DMA that is mapped but stopped is left mapped.
CleanupRunning(t) ==
    IF dmaStatus = "running" /\ owner = FdOf[t] THEN "cleanup" ELSE "close"

\* What cleanup_fd() does first: stop and unmap what the file owns.
Cleanup(t) ==
    IF dmaStatus = "invalid" \/ owner # FdOf[t] THEN "close"
    ELSE IF dmaStatus = "running" THEN "cleanup" ELSE "unmap"

\* release runs when no thread uses the file any more.
Release(t) ==
    /\ Enter(t)
    /\ \A u \in Threads : FdOf[u] = FdOf[t] => At(u, "idle")
    /\ pc' = [pc EXCEPT ![t] = Cleanup(t)]
    /\ releasing' = [releasing EXCEPT ![t] = TRUE]
    /\ UNCHANGED <<ring, plx, config, history, irqs, handler, locks, blk,
                   open>>

\* sis1100_ddma_map(sc, fd, 0) from cleanup_fd; a DMA that is still running
\* is refused with EALREADY.
ReleaseUnmap(t) ==
    /\ At(t, "unmap")
    /\ MuxFree
    /\ IF dmaStatus = "ready"
       THEN /\ dmaStatus' = "invalid"
            /\ block' = [b \in Blocks |-> "none"]
       ELSE UNCHANGED <<dmaStatus, block>>
    /\ Goto(t, "close")
    /\ UNCHANGED <<reading_block, writing_block, is_blocked, debug_sequence,
                   plx, owner, numblocks, hook, starts, history, irqs,
                   handler, locks, open>>

\* kfree(fd): whatever still points to the file points nowhere.
ReleaseClose(t) ==
    /\ At(t, "close")
    /\ open' = open \ {FdOf[t]}
    /\ owner' = IF owner = FdOf[t] THEN NoFd ELSE owner
    /\ pc' = [pc EXCEPT ![t] = "idle"]
    /\ releasing' = [releasing EXCEPT ![t] = FALSE]
    /\ UNCHANGED <<ring, plx, dmaStatus, numblocks, hook, starts, history,
                   irqs, handler, locks, blk>>

-----------------------------------------------------------------------------
(* sis1100_ddma_map() and sis1100_ddma_start(); an ioctl that returns an     *)
(* error and changes nothing is a stuttering step and is left out            *)

\* A mapping that exists is removed first.  n = 0 only removes it; mapping n
\* blocks may fail, which leaves the new owner and number but no blocks.
Map(t, n) ==
    /\ Enter(t)
    /\ MuxFree
    /\ ~Foreign(t)
    /\ dmaStatus # "running"
    /\ \/ /\ n > 0
          /\ dmaStatus' = "ready"
          /\ block' = [b \in Blocks |-> IF b < n THEN "free" ELSE "none"]
       \/ /\ dmaStatus' = "invalid"
          /\ block' = [b \in Blocks |-> "none"]
    /\ IF n > 0 THEN owner' = FdOf[t] /\ numblocks' = n
                ELSE UNCHANGED <<owner, numblocks>>
    /\ UNCHANGED <<reading_block, writing_block, is_blocked, debug_sequence,
                   plx, hook, starts, history, irqs, handler, locks, user,
                   open>>

\* Mutation: reading_block is not reset.
ResetRingKeepsReader ==
    /\ block' = [b \in Blocks |-> IF b = 0 THEN "dma"
                                  ELSE IF b < numblocks THEN "free" ELSE block[b]]
    /\ reading_block' = reading_block
    /\ writing_block' = 0
    /\ is_blocked' = FALSE
    /\ debug_sequence' = 0

\* All blocks are declared free, the first one is for the DMA.
ResetRing ==
    /\ block' = [b \in Blocks |-> IF b = 0 THEN "dma"
                                  ELSE IF b < numblocks THEN "free" ELSE block[b]]
    /\ reading_block' = -1
    /\ writing_block' = 0
    /\ is_blocked' = FALSE
    /\ debug_sequence' = 0

\* Under dma->mux up to StartDone.
StartReset(t) ==
    /\ Enter(t)
    /\ MuxFree
    /\ ~Foreign(t)
    /\ dmaStatus = "ready"
    /\ starts < MaxStarts
    /\ mux' = t
    /\ ResetRing
    /\ filled' = 0
    /\ taken' = 0
    /\ starts' = starts + 1
    /\ Goto(t, "start_engine")
    /\ UNCHANGED <<plx, dmaStatus, owner, numblocks, hook, content, irqs,
                   handler, seminfo, open>>

StartEngine(t) ==
    /\ At(t, "start_engine")
    /\ hook' = TRUE
    /\ EngineStart(0)
    /\ Goto(t, "start_done")
    /\ UNCHANGED <<ring, dmaStatus, owner, numblocks, starts, history, irqs,
                   handler, locks, open>>

\* dma->status is set when the engine already runs.
StartDone(t) ==
    /\ At(t, "start_done")
    /\ dmaStatus' = "running"
    /\ mux' = NoThread
    /\ Goto(t, "idle")
    /\ UNCHANGED <<ring, plx, owner, numblocks, hook, starts, history, irqs,
                   handler, seminfo, open>>

-----------------------------------------------------------------------------
(* sis1100_ddma_stop(), from the ioctl or from cleanup_fd() *)

StopDisable(t) ==
    /\ Enter(t) \/ At(t, "cleanup")
    /\ MuxFree
    /\ owner = FdOf[t]
    /\ dmaStatus = "running"
    /\ mux' = t
    /\ enabled' = FALSE
    /\ hook' = FALSE
    /\ Goto(t, "stop_abort")
    /\ UNCHANGED <<ring, active, target, latched, dmaStatus, owner,
                   numblocks, starts, history, irqs, handler, seminfo, open>>

\* Mutation: the engine is not aborted.
AbortMissing == active' = active /\ latched' = latched

\* The abort ends the transfer and latches the interrupt.
Abort == active' = FALSE /\ latched' = (latched \/ active)

\* A running engine is aborted and polled; if it does not stop the call
\* returns EIO and the status stays "running".
StopAbort(t) ==
    /\ At(t, "stop_abort")
    /\ \/ /\ Abort
          /\ Goto(t, "stop_done")
          /\ UNCHANGED mux
       \/ /\ AbortCanFail /\ active
          /\ mux' = NoThread
          /\ Goto(t, IF releasing[t] THEN "unmap" ELSE "idle")
          /\ UNCHANGED <<active, latched>>
    /\ UNCHANGED <<ring, target, enabled, config, history, irqs, handler,
                   seminfo, open>>

StopDone(t) ==
    /\ At(t, "stop_done")
    /\ dmaStatus' = "ready"
    /\ mux' = NoThread
    /\ Goto(t, IF releasing[t] THEN "unmap" ELSE "idle")
    /\ UNCHANGED <<ring, plx, owner, numblocks, hook, starts, history, irqs,
                   handler, seminfo, open>>

-----------------------------------------------------------------------------
(* sis1100_ddma_wait(): holds dma->mux while it sleeps *)

\* The engine idle at the call: the DMA is declared finished.
WaitFinished(t) ==
    /\ \/ /\ Enter(t)
          /\ MuxFree
          /\ owner = FdOf[t]
          /\ dmaStatus = "running"
          /\ ~active
       \/ At(t, "wait_done")
    /\ enabled' = FALSE
    /\ dmaStatus' = "ready"
    /\ mux' = NoThread
    /\ Goto(t, "idle")
    /\ UNCHANGED <<ring, active, target, latched, owner, numblocks, hook,
                   starts, history, irqs, handler, seminfo, open>>

WaitSleep(t) ==
    /\ Enter(t)
    /\ MuxFree
    /\ owner = FdOf[t]
    /\ dmaStatus = "running"
    /\ active
    /\ mux' = t
    /\ Goto(t, "wait_dma")
    /\ UNCHANGED <<ring, plx, config, history, irqs, handler, seminfo, open>>

\* A signal ends the sleep in ddma_wait or irq_wait with EINTR.
Signal(t) ==
    /\ \/ /\ At(t, "wait_dma")
          /\ mux' = NoThread
       \/ /\ At(t, "asleep")
          /\ UNCHANGED mux
    /\ Goto(t, "idle")
    /\ UNCHANGED <<ring, plx, config, history, irqs, handler, seminfo, open>>

-----------------------------------------------------------------------------
(* sis1100_ddma_mark(): the user gives a block back.  It takes dma->spin,    *)
(* but never dma->mux                                                        *)

Mark(t, b) ==
    /\ Enter(t)
    /\ owner = FdOf[t]
    /\ dmaStatus = "running"
    /\ b < numblocks
    /\ GotoWith(t, "mark", b)
    /\ UNCHANGED <<ring, plx, config, history, irqs, handler, locks, open>>

\* Mutation: any block can be marked.
CanMarkAny(b) == TRUE

\* Only a block in the user's hands can be marked.
CanMark(b) == block[b] = "user"

\* Mutation: the mark is compared with reading_block.
AwaitedReading(b) == is_blocked /\ b = reading_block

\* Does the blocked DMA wait for this block?
Awaited(b) == is_blocked /\ b = writing_block

\* The section under dma->spin.
MarkFree(t) ==
    /\ At(t, "mark")
    /\ LET b == blk[t]
           restart == Awaited(b)
       IN  IF CanMark(b)
           THEN /\ block' = [block EXCEPT ![b] = "free"]
                /\ is_blocked' = (is_blocked /\ ~restart)
                /\ Goto(t, IF restart THEN "mark_restart" ELSE "idle")
           ELSE /\ UNCHANGED <<block, is_blocked>>
                /\ Goto(t, "idle")
    /\ UNCHANGED <<reading_block, writing_block, debug_sequence, plx, config,
                   history, irqs, handler, locks, open>>

\* start_dma(restart_block)
MarkRestart(t) ==
    /\ At(t, "mark_restart")
    /\ BlockToDma(blk[t])
    /\ Goto(t, "mark_engine")
    /\ UNCHANGED <<reading_block, writing_block, is_blocked, debug_sequence,
                   plx, config, history, irqs, handler, locks, open>>

MarkEngine(t) ==
    /\ At(t, "mark_engine")
    /\ EngineStart(blk[t])
    /\ Goto(t, "idle")
    /\ UNCHANGED <<ring, config, history, irqs, handler, locks, open>>

-----------------------------------------------------------------------------
(* sis1100_irq_wait(), sis1100_irq_get() and sis1100_irq_ack()               *)

IrqPending(t) == pending \intersect Owned[FdOf[t]]

\* wait_event_interruptible(remoteirq_wait, irq_pending(...))
IrqWait(t) ==
    /\ Enter(t) \/ At(t, "look")
    /\ Goto(t, IF IrqPending(t) # {} THEN "get" ELSE "asleep")
    /\ UNCHANGED <<ring, plx, config, history, irqs, handler, locks, open>>

\* Mutation: the bit is not set again for a further block.
AfterAckClears(irqs_, blocks, reading) ==
    (pending \ irqs_) \union
        {irq \in {"ddma"} : blocks = <<>> /\ reading = numblocks}

\* The bits left after acknowledging irqs: the DMA bit is set again if the
\* block after the one last given to the user is full.
AfterAck(irqs_, blocks, reading) ==
    (pending \ irqs_) \union
        IF dmaStatus = "running" /\ blocks[Successor(reading)] = "full"
        THEN {"ddma"} ELSE {}

\* irq_get after the irqs that are pending and owned have been found.
Autoacked(t) ==
    LET acked == Autoack \intersect IrqPending(t)
    IN  pending' = IF acked = {} THEN pending
                   ELSE AfterAck(acked, block', reading_block')

\* Mutation: the next block is given whatever its status.
HasDataAlways(b) == dmaStatus = "running"

\* if (dma->status == dma_running && dma->block[next].status == dma_full)
HasData(b) == dmaStatus = "running" /\ block[b] = "full"

\* irq_get looks at the next block; it holds sem_irqinfo, but not dma->spin.
\* Any pending bit of any file leads here.  If the block is not full the user
\* gets block number -1.
IrqGet(t) ==
    /\ Enter(t) \/ At(t, "get")
    /\ seminfo = NoThread
    /\ LET next == Successor(reading_block)
       IN  IF IrqPending(t) # {} /\ HasData(next)
           THEN /\ seminfo' = t
                /\ GotoWith(t, "take", next)
                /\ UNCHANGED <<ring, pending>>
           ELSE /\ Goto(t, "idle")
                /\ UNCHANGED <<ring, seminfo>>
                /\ Autoacked(t)
    /\ UNCHANGED <<plx, config, history, command, irq_thread, new_irqs,
                   handler, mux, open>>

\* Mutation: reading_block names the block to be given next.
IrqTakeStoresNext(t) ==
    /\ At(t, "take")
    /\ block' = [block EXCEPT ![blk[t]] = "user"]
    /\ reading_block' = blk[t] + 1
    /\ taken' = taken + 1
    /\ Autoacked(t)
    /\ seminfo' = NoThread
    /\ Goto(t, "idle")
    /\ UNCHANGED <<writing_block, is_blocked, debug_sequence, plx, config,
                   filled, content, command, irq_thread, new_irqs, handler,
                   mux, open>>

\* The block is given to the user.
IrqTake(t) ==
    /\ At(t, "take")
    /\ block' = [block EXCEPT ![blk[t]] = "user"]
    /\ reading_block' = blk[t]
    /\ taken' = taken + 1
    /\ Autoacked(t)
    /\ seminfo' = NoThread
    /\ Goto(t, "idle")
    /\ UNCHANGED <<writing_block, is_blocked, debug_sequence, plx, config,
                   filled, content, command, irq_thread, new_irqs, handler,
                   mux, open>>

IrqAck(t, mask) ==
    /\ Enter(t)
    /\ seminfo = NoThread
    /\ pending' = AfterAck(IrqPending(t) \intersect mask, block, reading_block)
    /\ UNCHANGED <<ring, plx, config, history, command, irq_thread, new_irqs,
                   handler, locks, user, open>>

-----------------------------------------------------------------------------
IsrStep ==
    IsrEnter \/ IsrFill \/ IsrBlock \/ IsrRestart \/ IsrEngine \/ IsrPost

IrqThreadStep == CpuFree /\ (ThreadFetch \/ ThreadUpdate \/ ThreadWake)

\* A call of the user's choosing.
UserCall(t) ==
    /\ CpuFree
    /\ \/ OpenFile(t) \/ Release(t)
       \/ \E n \in BlockCounts \union {0} : Map(t, n)
       \/ StartReset(t)
       \/ Enter(t) /\ (StopDisable(t) \/ WaitFinished(t) \/ IrqWait(t) \/ IrqGet(t))
       \/ WaitSleep(t)
       \/ \E b \in Blocks : Mark(t, b)
       \/ \E mask \in SUBSET Bits : IrqAck(t, mask)

\* A step of a call that has begun.
CallStep(t) ==
    /\ CpuFree
    /\ \/ ~At(t, "idle") /\ (StopDisable(t) \/ WaitFinished(t) \/ IrqWait(t) \/ IrqGet(t))
       \/ StartEngine(t) \/ StartDone(t)
       \/ StopAbort(t) \/ StopDone(t)
       \/ MarkFree(t) \/ MarkRestart(t) \/ MarkEngine(t)
       \/ IrqTake(t)
       \/ ReleaseUnmap(t) \/ ReleaseClose(t)

Next ==
    \/ HwFill \/ HwDoorbell
    \/ IsrStep
    \/ IrqThreadStep
    \/ \E t \in Threads : UserCall(t) \/ CallStep(t) \/ (CpuFree /\ Signal(t))

\* The interrupt is delivered, the irq thread is scheduled and a call that is
\* not asleep runs on.  Nothing is promised of the front end or of the user.
Fairness ==
    /\ WF_vars(IsrStep)
    /\ WF_vars(IrqThreadStep)
    /\ \A t \in Threads : WF_vars(CallStep(t))

Spec == Init /\ [][Next]_vars
FairSpec == Spec /\ Fairness

-----------------------------------------------------------------------------
(* Properties *)

Labels == {"idle", "start_engine", "start_done", "stop_abort", "stop_done",
           "wait_dma", "wait_done", "mark", "mark_restart", "mark_engine",
           "asleep", "look", "get", "take", "cleanup", "unmap", "close"}

FlagsOK ==
    /\ is_blocked \in BOOLEAN
    /\ hook \in BOOLEAN
    /\ active \in BOOLEAN
    /\ latched \in BOOLEAN
    /\ enabled \in BOOLEAN

DataOK ==
    /\ dmaStatus \in {"invalid", "ready", "running"}
    /\ owner \in Fds \union {NoFd}
    /\ numblocks \in BlockCounts \union {0}
    /\ block \in [Blocks -> {"none", "free", "dma", "full", "user"}]
    /\ reading_block \in Blocks \union {-1}
    /\ writing_block \in Blocks
    /\ debug_sequence \in Nat
    /\ mux \in Threads \union {NoThread}
    /\ seminfo \in Threads \union {NoThread}
    /\ target \in Blocks
    /\ isr \in {"idle", "fill", "block", "restart", "engine", "post"}
    /\ next_block \in Blocks
    /\ command \in SUBSET Bits
    /\ irq_thread \in {"idle", "update", "wake"}
    /\ new_irqs \in SUBSET Bits
    /\ pending \in SUBSET Bits
    /\ pc \in [Threads -> Labels]
    /\ blk \in [Threads -> Blocks]
    /\ releasing \in [Threads -> BOOLEAN]
    /\ open \in SUBSET Fds
    /\ filled \in Nat
    /\ taken \in Nat
    /\ content \in [Blocks -> Nat]
    /\ starts \in Nat

\* Every variable has its type: no index leaves the ring.
TypeOK == FlagsOK /\ DataOK

\* A session: from the start of the engine by ddma_start until ddma_stop
\* removes the hook or ddma_wait declares the DMA finished.
Session ==
    /\ hook
    /\ dmaStatus = "running" \/ \E t \in Threads : At(t, "start_done")

\* The block irq_get looks at, the number of full blocks the counters call
\* for, and the distance from that block in the direction of the ring.
NextRead == Successor(reading_block)
FullCount == debug_sequence - taken
Distance(b) == IF b >= NextRead THEN b - NextRead ELSE b - NextRead + numblocks

\* The full blocks are those from the one the user gets next up to the one
\* before writing_block.
FullAreConsecutive ==
    /\ \A b \in 0..(numblocks - 1) :
          block[b] = "full" <=> Distance(b) < FullCount
    /\ \/ FullCount < numblocks /\ Distance(writing_block) = FullCount
       \/ FullCount = numblocks /\ writing_block = NextRead

\* During a session the full blocks are consecutive and as many as the
\* counters say: the interrupt handler and irq_get, which share no lock, never
\* disagree on what is in the ring.
RingOrder == Session => FullAreConsecutive

FullInArrivalOrder ==
    \A b \in 0..(numblocks - 1) :
        block[b] = "full" => content[b] = taken + Distance(b)

\* The full blocks hold the data in the order of its arrival, none missing
\* and none twice; so the user gets fill after fill.
DataInOrder == Session => FullInArrivalOrder

\* During a session the engine writes into writing_block only, and only while
\* the block is not full and not the user's.
EngineInOwnBlock ==
    Session /\ active => target = writing_block /\ block[target] = "dma"

\* A DMA that is not running (and that no call is just starting or stopping)
\* leaves the engine idle: ddma_map may free the blocks.
StoppedIsIdle == dmaStatus # "running" /\ mux = NoThread => ~active

\* Never and nowhere does the engine write into a block that is the user's,
\* that is full, or that is no longer mapped.
NoForeignWrite == active => block[target] = "dma"

\* A blocked DMA waits for a block that is in use: the ddma_mark that frees
\* the block will see is_blocked and restart the engine.
BlockedWaits == Session /\ is_blocked => block[writing_block] # "free"

\* The mapped blocks always belong to an open file, so they can be given
\* back: release leaves nothing behind.
OwnerIsOpen == dmaStatus # "invalid" => owner \in open

\* What irq_get hands out is the next block of data.
HandsOutInOrder ==
    [][Session /\ taken' = taken + 1 => content[reading_block'] = taken]_vars

\* During a session a block leaves the user's hands only by being marked free,
\* and until then its data does not change.
UserBlockKept ==
    [][Session /\ Session' =>
          \A b \in Blocks : block[b] = "user" =>
             block'[b] \in {"user", "free"} /\ content'[b] = content[b]]_vars

\* A full block at the head of the ring is announced in pending_irqs, unless
\* it is taken or the session ends first: acknowledging one block never hides
\* the next one.
Waiting == Session /\ block[NextRead] = "full"
Announced == Waiting ~> ("ddma" \in pending \/ ~Waiting)

\* Who sleeps in irq_wait while one of its interrupts is pending wakes up.
SleeperWakes ==
    \A t \in Threads :
        (At(t, "asleep") /\ IrqPending(t) # {}) ~> ~(At(t, "asleep") /\ IrqPending(t) # {})

\* Once the block the DMA waits for is free, the DMA goes on.
Stalled == Session /\ is_blocked /\ block[writing_block] = "free"
DmaResumes == Stalled ~> ~Stalled

\* The ring implements a queue of blocks that delivers in order.
RingSlot(i) == IF NextRead + i < numblocks THEN NextRead + i
                                           ELSE NextRead + i - numblocks
Fifo == INSTANCE BlockFifo WITH
    on       <- Session,
    capacity <- IF Session THEN numblocks ELSE 0,
    produced <- IF Session THEN debug_sequence ELSE 0,
    full     <- IF Session THEN [i \in 1..FullCount |-> content[RingSlot(i - 1)]]
                           ELSE <<>>,
    held     <- IF Session THEN {content[b] : b \in {x \in Blocks : block[x] = "user"}}
                           ELSE {}
FifoSpec == Fifo!Spec

=============================================================================
