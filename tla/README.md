# A formal model of the SIS1100/SIS3100 driver

The repository packages the MIDAS data acquisition system and its companions
(ROODY, ELOG, ROME) and carries one program of its own weight: the Linux driver
for the SIS1100 PCI card and the front ends behind its optical link (SIS3100
VME, SIS5100 CAMAC, the ZEL LVD readout system, and others) in
`src/sis3100/sis1100-2.13/src/`. This directory holds TLA+ models of the
driver, the TLC runs that check them and TLAPS proofs of their central
properties. File names below are relative to that directory.

## The system

| Component | Code | State | Operations |
|---|---|---|---|
| demand-mode DMA ring | `sis1100_ddma_startstop.c`, `sis1100_ddma_map.c`, `sis1100_ddma_map_linux.c` | `struct demand_dma`: status, owner, block states, `reading_block`, `writing_block`, `is_blocked` | ioctls map, start, stop, wait, mark; `plxirq_dma0_hook` |
| interrupt handler | `sis1100_irq.c` | INTCSR, `got_irqs`, `doorbell`, `handlercommand`, `remote_hw` | `sis1100_intr`, `enable_irq`, `disable_irq` |
| irq thread | `sis1100_irq_thread.c` and the handlers it calls (`*_rem_irq.c`, `sis3100rem_irq.c`, `sis5100rem_irq.c`, `sis1100_lemo_handler.c`, `sis1100_mbx0_handler.c`) | `pending_irqs`, `irq_vects` | command to pending bits, signals, wake-up |
| interrupt delivery | `sis1100_irq_handler.c`, `sis1100_poll.c`, parts of `sis1100_read.c` and `sis1100_write.c` | `owned_irqs`, `autoack_mask`, `old_remote_hw` | irq_ctl, irq_wait, irq_get, irq_ack, poll |
| optical link | `sis1100_synch_handler.c`, `sis1100_init_remote.c`, the `irq_synch_chg` branch of `sis1100_irq.c` | `remote_hw`, `link_up_timer` | link up, link down, timer, remote initialisation |
| block DMA transfers | `sis1100_read_dma*.c`, `sis1100_write_dma*.c`, `sis1100_sgl_map_user_linux.c` | `sem_hw`, `got_irqs`, PLX channel 0 | one read or write in chunks |
| programmed transfers | `sis1100_tmp_read.c`, `sis1100_tmp_write.c`, `sis1100_read_loop.c`, `sis1100_write_loop.c`, `sis1100_read_block.c`, `sis1100_write_block.c`, pipes | `prot_error`, `p_balance` | single cycles, loops, pipes |
| open and release | `sis1100_open.c` | `fdata[]` | open, release |
| card initialisation and removal | `sis1100_autoconf_linux.c`, `sis1100_init.c` | what has been acquired, the state of the kernel thread | load, probe with unwinding, remove, unload |
| ioctl dispatch | `sis1100_ioctl.c`, `sis1100_ioctl32_linux.c` | settings of the files (`fdata[]`), `user_wants_swap`, `remote_endian`, the byte order in the card | argument checks and copies, settings, update of the byte order |
| front-end initialisation and front panel I/O | `*_rem_init.c`, `*rem_front_io.c` | none of the driver's | register sequences |
| DSP, SDRAM, EEPROM, mmap | `sis1100_dsp.c`, `sis1100_init_sdram.c`, `sis1100_eeprom.c`, `sis1100_mmap.c` | none of the driver's | register and serial-bus sequences |
| user library | `src/sis3100/libsis3100/` | none | one ioctl or read per call |
| MIDAS scripts, packaging | `src/midas`, `src/roody`, `src/archlinux`, ... | configuration | start and stop of programs |

How they interact. User threads enter by ioctl, read and write; the PLX chip
and the front end interrupt. The interrupt handler runs at any moment between
two instructions of a thread (on a uniprocessor to its end, on a multiprocessor
in parallel), records what happened in `handlercommand.command`, `got_irqs` or
the ring, and wakes the irq thread or the thread that waits for a transfer. The
irq thread turns commands into bits of `pending_irqs` under `sem_irqinfo`, sends
signals and wakes all sleepers of `irq_wait`; these take their bits with
`irq_get` and acknowledge them. Five kinds of locks are involved: `dma->mux`
(map, start, stop, wait), `dma->spin` (the ring), `sem_irqinfo` (pending bits),
`sem_hw` (access to the front end), `sem_fdata` (table of open files); several
paths that should share a lock do not.

What is hard here, and what makes the parts correct:

- **Ring.** Producer (interrupt), consumer (`irq_get`) and returner
  (`ddma_mark`) share an array of block states under different locks. Correct
  is: data is handed out in the order of arrival, none lost or doubled, the
  engine never writes into a block that is full, in use, or unmapped, it never
  waits for a block that is free, and after stop it is idle.
- **Delivery.** A bit set while a process looks, sleeps or acknowledges must
  neither be lost nor delivered to another process.
- **Link.** The state the driver believes (`remote_hw`) must follow the link
  through changes, the one-second delay and an initialisation in progress.
- **Transfers.** The count returned must be what was transferred, also when the
  link is lost half way; nothing of one transfer may leak into the next.
- **Memory.** The engine must reach all pages of a block and no others; what
  `ddma_map` acquires must be given back, at whichever of its steps it fails.
- **Life cycle.** What an open file or a probe acquired must be given back,
  whatever fails; nothing that still runs may meet a card that is gone.
- **Byte order.** It follows the front end and the users' last wish, which
  change independently of each other, and is written to two registers without a
  lock.

`PROJECT.json` lists every place where this can go wrong ("hazards").

## The plan

Done:

1. `BlockFifo`, `DemandDma`: the ring with all its users, refinement to a FIFO
   of blocks, proofs.
2. `LinkSync`: link changes, timer, remote initialisation, proofs.
3. `VmeIrq`: the VME levels from the bus to the process, proofs.

4. `Transfer`: block DMA and programmed transfers on one card, with lost
   requests, lost links and interrupted waits, proofs.
5. `Ioctl` and `Card`: the settings and the byte order; loading, initialisation, removal and unloading with all that may run
   meanwhile, proofs.
6. `DmaPages`: the ring with the memory behind its blocks, proofs.

Left, in this order:

7. A ring and plain transfers on one card: they share `plxirq_dma0_hook`, the
   PLX channel, INTCSR with its unlocked read, and `got_irqs`.
8. The same on a multiprocessor: what `Transfer` makes one step of the interrupt
   handler becomes several.
9. Changing ownership of interrupt bits in the ring (`irq_ctl`), with a second
   process that takes a block it cannot mark.
10. The CAMAC, LEMO and mailbox handlers, as variants of the path of `VmeIrq`,
   with the property that an interrupt nobody owns is masked, which the code
   does not keep for the last LAM (see Not modelled).
11. Binding a card again after it was taken away, while files of its earlier
   life are still open.
12. Proofs: the ring with several processes that take blocks, if item 9 shows
   what then still holds.

## Modules

- `BlockFifo` is what the ring promises: a session begins and ends; in between
  fills are produced, handed out in order, and given back in any order, with at
  most `capacity` of them full or held.
- `DemandDma` is the driver's ring with everything that touches it.
- `MCDemandDma` gives names to the constant functions the configurations use.
- `DemandDmaInv` states the inductive invariants, `DemandDmaProofs` proves the
  central one, `DemandDmaMemoryProofs` what builds on it (who owns the memory,
  when the engine runs, where it writes, for what it waits),
  `DemandDmaFifoProofs` the refinement of `BlockFifo` and what follows from it.
- `LinkSync` is the driver's view of the optical link, `MCLinkSync` its
  constants, `LinkSyncProofs` the proofs.
- `VmeIrq` is the delivery of VME interrupts, `MCVmeIrq` its constants,
  `VmeIrqProofs` the proofs.
- `DmaPages` extends `DemandDma` by the memory behind the blocks, `MCDmaPages`
  are its constants, `DmaPagesProofs` the proofs.
- `Transfer` is the single transfer with its hardware, `MCTransfer` its
  constants, `TransferProofs` the proofs.
- `Ioctl` is the ioctl layer with `sis1100_init_remote`; `Card` extends it by
  the life of a card, `MCCard` are the constants of both, `CardInv` is the
  inductive invariant, `CardProofs` the proofs.

`DmaPages` composes the ring with its memory: every step is one of `DemandDma`
together with what it does to the memory. `Card` composes the ioctl layer with
the interrupt handler, the timer, the kernel thread and the removal. Otherwise
each module takes of the others what it needs as an environment: `DemandDma` and
`VmeIrq` have a link that stays up, `LinkSync` has no interrupts but those of
the link, and its irq thread does nothing else, `Transfer` has an irq thread
that does nothing but listen to the link again and initialise the front end.
Definitions marked "Mutation" in a comment are plausible errors in the code, and
no specification uses them.

### DemandDma and the code

State: the variables carry the names of the fields (`dmaStatus` and `owner` are
`dma->status` and `dma->owner`). `hook` is `sc->plxirq_dma0_hook`, `command`
the handler command, `pending` `sc->pending_irqs` with two bits: the DMA bit
and one for all doorbells. `active`, `target`, `latched` and `enabled` are PLX
channel 0: a transfer is under way, the block of its descriptor chain, the
latched interrupt, its enable bit in INTCSR. `mux` and `seminfo` are the holders
of the two mutexes. `filled`, `taken` and `content` are history.

Steps: each call is cut where another CPU or the interrupt handler can see a
difference: at the spinlocked sections of the hook (`IsrFill`, `IsrBlock` or
`IsrRestart`, `IsrEngine`, `IsrPost`), between the accesses to the ring and to
the chip in start, stop and mark, and between the look and the take in
`irq_get`, which holds no spinlock. What lies between two such points has no
effect on shared state. With `Smp = FALSE` no thread takes a step while the
handler is inside the hook; with `Smp = TRUE` all interleave.

| Code | Actions |
|---|---|
| PLX chip and front end (external) | `HwFill`, `HwDoorbell` |
| `sis1100_intr`, `plxirq_dma0_hook`, `start_dma` | `IsrEnter`, `IsrFill`, `IsrBlock`, `IsrRestart`, `IsrEngine`, `IsrPost` |
| `sis1100_irq_thread` | `ThreadFetch`, `ThreadUpdate`, `ThreadWake` |
| `sis1100_open`, `sis1100_release`, `cleanup_fd` | `OpenFile`, `Release`, `ReleaseUnmap`, `ReleaseClose` and the stop actions |
| `sis1100_ddma_map` | `Map` |
| `sis1100_ddma_start` | `StartReset`, `StartEngine`, `StartDone` |
| `sis1100_ddma_stop` | `StopDisable`, `StopAbort`, `StopDone` |
| `sis1100_ddma_wait` | `WaitFinished`, `WaitSleep`, `Signal` |
| `sis1100_ddma_mark` | `Mark`, `MarkFree`, `MarkRestart`, `MarkEngine` |
| `sis1100_irq_wait`, `_get`, `_ack` | `IrqWait`, `IrqGet`, `IrqTake`, `IrqAck`, `Signal` |

Abstractions: a call that fails its checks changes nothing and is left out.
Which bits a file owns and which are acknowledged automatically is constant.
`remote_hw` is the LVD front end throughout, so `irq_pending` never holds
because of a changed link. The memory of a block is the subject of `DmaPages`. The
doorbell handler masks bits already pending, which a union does as well.
`irq_wait` waits for all bits of its file.

### LinkSync and the code

State: `link` and `remote` are the hardware (the link, and which front end is at
its other end), `chg` the latched `irq_synch_chg`, `chg_on` its enable bit,
`remote_hw` the driver's field, `timer` the `link_up_timer`. `changes` counts
the changes of the link.

| Code | Actions |
|---|---|
| the link and the front end (external) | `LinkChange` (also unnoticed glitches) |
| `sis1100_intr`, the part for local interrupts | `IsrRead`, `IsrAct` |
| `sis1100_link_up_handler` | `TimerFires` |
| `sis1100_irq_thread`, `sis1100_synch_handler` | `ThreadFetch`, `SynchEnable`, `SynchLook`, `ThreadNotify` |
| `sis1100_init_remote`, called by the synch handler, the probe and an ioctl | `InitLock`, `InitIdent`, `InitSetup`, `InitSet`, `InitFail`; `ResetCall` |
| read transfers, which enable `irq_synch_chg` | `XferCall`, `XferStart`, `XferEnd` |
| `sis1100_open`, `_release`, `_irq_ctl`, `_irq_wait`, `_irq_get` | `Open`, `Release`, `IrqCtl`, `IrqWait`, `IrqGet`, `Interrupted` |

The initialisation is cut where the hardware or the interrupt handler can get
in between: after it has taken `sem_hw`, after it has identified the front end,
after it has set it up, and when it stores `remote_hw`. With `Smp = FALSE` no
process and no timer runs while an interrupt is pending. `Supported` are the
front ends the driver knows. `Glitches`, `DropsInInit`, `Transfers` and
`InitCanFail` switch parts of the environment on, so that each run can ask its
question where the code can answer it.

Abstractions: the identification of a front end is its value, the register
sequences of its initialisation are a success or a failure, the second of the
timer has no length. `irq_get` reads `remote_hw` once; the code reads it three
times.

### VmeIrq and the code

State: `req` are the vectors waiting on each level of the VME bus, `enabled` the
levels enabled in the VME controller (`vme_irq_sc`), `doorbell` and `command`
what the interrupt handler leaves for the irq thread, `pending`, `vects`,
`autoack` and `owned` the fields `pending_irqs`, `irq_vects`, `autoack_mask` and
`owned_irqs`. `given` is history: the vectors processes have been given. Every
request has a vector of its own, so that it can be followed.

| Code | Actions |
|---|---|
| VME bus and controller (external) | `Request`; the controller's part of `Ring` |
| `sis1100_intr`, doorbell | `Ring` |
| `sis1100_irq_thread`, `sis3100rem_irq_handler`, `_sis3100_irq_acknowledge` | `ThreadFetch`, `ThreadTake`, `ThreadHandle`, `ThreadPend` |
| `sis1100_open`, `cleanup_fd`, `sis1100_release` | `Open`, `Cleanup`, `Release` |
| `sis1100_irq_ctl`, `reserve_irq`, `release_irq` | `Ctl`, `CtlAck`, `CtlEnable`; `Off`, `OffMask`, `OffRelease` |
| `sis1100_irq_wait` | `Wait`, `Interrupted` |
| `sis1100_irq_get`, `sis3100rem_get_vector` | `Get`, `Report` |
| `sis1100_irq_ack` | `Ack` |

What is done under `sem_fdata`, `sem_irqinfo` or `sem_hw` alone is one step;
`irq_ctl`, which takes three locks one after the other, is three. Of the
controller only this is assumed: a level that is enabled and requested may ring
at any time, any number of times. An acknowledge cycle that nobody answers
gives `NoVector`, as the code does after a bus error.

Abstractions: the front panel and DSP interrupts, which share the path, the
times, signals (`LinkSync` has them) and `poll` are left out. Every file belongs
to a process of its own: `reserve_irq` lets two files of one process own the
same level, and closing one then masks the level of the other. A change of
`autoack_mask`, which no lock protects, is one step.

### DmaPages and the code

State: `dmablock[i]` is `dma->block[i]`: whether its table is there (`table`),
`table.nents` (`nents`), what the entries name (`pages`), the descriptor pages
(`desc`) and the descriptors in them (`chain`), and beside these what the kernel
knows and the driver does not keep: how many pages are pinned (`pinned`) and
whether the list is mapped for the bus (`mapped`). `left` is history: what
blocks still held when they were forgotten. `oops` ends the behaviour.

| Code | Definitions |
|---|---|
| `sis1100_ddma_map` | `MapPages`: `MapAll`, `MapSome` (a step of block `i` fails), `Tried`, `CleanupAfter`, `LeftBy` |
| `sis1100_ddma_map` with no blocks, from `cleanup_fd` | `ReleasePages` |
| `sis1100_ddma_zero` | `Zero` |
| `sis1100_ddma_map_block` | `Allocated`, `Wired`, `Mapped`, `DescPages`, `Following`, `Chain`; `Complete` is its success, `Partial` its failures |
| `sis1100_ddma_unmap_block`, `sgl_unmap_user_pages` | `Unmapped`, `ReleasesNull` |

A call of `ddma_map` is one step, as in `DemandDma`: it holds `dma->mux` and the
ring does not run. The kernel may fail at each acquisition and may merge the
pages of a block into any smaller number of entries. Addresses and lengths
inside a page are left out.

Writing this module showed what `Returned` has to except. `sgl_unmap_user_pages`
releases `table.nents` pages (`sis1100_sgl_map_user_linux.c:135`), but
`pci_map_sg()` has overwritten that number with the number of merged entries, or
with 0 when it refused: the rest stays pinned. When pinning fails, the entries
that were never set are released, which is an oops. And `get_user_pages()`
returns its errno as a negative number, which `sis1100_sgl_map_user_linux.c:83`
compares with an unsigned one: it counts as all pages mapped, and the DMA is set
up with entries that name no page (`pages = "null"`).

### Transfer and the code

State: `balance` and `prot_error` are the registers `p_balance` and
`prot_error`, `plx0`, `d0_bc` the DMA channel and the words it has moved,
`latched` and `enabled` the interrupts in `sr`, `cr`, DMACSR0 and INTCSR, the
others the fields of the same name. `op[t]` holds the local variables of the
call. `words`, `fault` and `dirty` are history: what was really moved, whether a
request failed, and whether an earlier call left the hardware without an end.

| Code | Actions |
|---|---|
| `sis1100_read_block`, `sis1100_write_block` and the ioctls for single accesses | `Call`, `Lock` (with `Route`, the choice by thresholds), `Unlock` |
| `sis1100_tmp_read`, `_tmp_write`, `remote_reg_*`, `camac*`, blind writes | `Send`, `Single` |
| `sis1100_read_loop` | `Send`, `ReadWord` |
| `sis1100_write_loop`, `wait_for_fifo` | `Send`, `Room`, `RoomError`, `Balance`, `Drain` |
| `write_pipe` | `PipeOut`, `PipeOutEnd` |
| `read_pipe`, `read_pipe_seq` | `PipeIn`, `PipeListen`, `PipeCheck`, `PipeInterrupted`, `PipeCollect` |
| `sis1100_read_dma`, `_sis1100_read_dma` | `Prepare`, `DmaClear`, `DmaEnable`, `DmaStart`, `DmaWoken`, `DmaKilled`, `CollectRead`, `FinishRead` with `Copied` and `CopyOops` |
| `sis1100_write_dma`, `_sis1100_write_dma` | the same with clear and enable exchanged, `CollectWrite` |
| the card and the front end (external) | `Confirm`, `Timeout`, `DmaMove`, `DmaEnd`, `DmaFail`, `LinkChange` |
| `sis1100_intr`, `sis1100_synch_handler`, `sis1100_init_remote` | `Interrupt`, `SynchHandler`, `InitRemote` |

A read of `prot_error` blocks while requests are open, as the comments in
`sis1100_write_loop.c:182-187` say; callers that poll it while it gives
`sis1100_e_dlock` are disabled until it can be answered. `wait_for_fifo` does
not poll: it looks once (`RoomError`) and returns what it gets, `e_dlock` (0x005)
included. It looks only when `irq_prot_end` is set, which an earlier transfer may
have left in `sr`; so a write may report an error of which nothing has failed.
The module describes a uniprocessor: the interrupt handler is one step. What a
failed request leaves in `prot_error` may be hidden by `le_dlock`, the local
error of a register read that waited for a confirmation; which calls look again
at `tc_hdr` after it, and which look at the header of their own request, is kept.

`_sis1100_read_dma` does not set `_count_read` when the link is lost or a fatal
signal ends the wait. The variable (`seen`) then holds the number of the round
before, or in the first round any value (`ReadCount`). It decides how many words
are copied to the user and what is left: the copy may run past the end of the
DMA buffer and end in EFAULT (`Copied`) or in an oops (`CopyOops`, after which
`sem_hw` stays taken), and the subtraction may wrap (`Minus`, modulo
`SizeLimit`).

Abstractions: the data and the byte lanes; the memory of a write, which is that
of `DmaPages`; the split of a write at a 2 GiB boundary.

### Ioctl, Card and the code

State: `fd[f]` are the settings of an open file (`fdata[]`), `cr_swap` and
`bigend` the two registers that swap bytes (`cr` and BIGEND); the others carry
the names of the fields of `struct sis1100_softc`. `at` is where an actor is in
his call, `swap` the local variable of his `update_swapping()`, and `raced` is
history: an update has overlapped another one, and none has been made alone
since. In `Card`,
`held` is what has been acquired, `todo` the part of the error labels or of
`done_sis1100_device` that is left, `thread` and `stop` the kernel thread and
`kthread_stop`, `oops` who has touched what was gone.

| Code | Definitions |
|---|---|
| SETVMESPACE, FIFOMODE, MINDMALEN, MINPIPELEN, SWAP, of 64-bit and of 32-bit programs | `Set` |
| `sis1100_update_swapping`, `sis1100_set_swapping` | `ReadEndian`, `ReadWish`, `WriteCr`, `WriteBigend` |
| REMOTE_RESET, `sis1100_init_remote` | `RemoteReset`, `InitLock`, `InitNoIdent`, `InitIdent`, then the update, `InitDone` |
| `sis1100_open`, `sis1100_release` | `Open`, `Release` |
| `init_sis1100_module`, `init_sis1100_device` and their error labels | `Load`, `Acquire`, `CreateThread`, `InitCard`, `Fail`, `Undo` |
| `done_sis1100_device`, `cleanup_sis1100_module` | `Remove`, `Unload`, `ReleaseNext`, `StopThread`, `ThreadStopped`, `Released` |
| `sis1100_intr`, `sis1100_link_up_handler` | `Interrupt`, `TimerFires` |
| `sis1100_irq_thread`, `sis1100_synch_handler` | `ThreadBegin`, `ThreadSleep`, `ThreadRun` (`ThreadServe`), `ThreadBack` |
| a call under way, and any call on a card that is gone | `Proceed`, `UserLate` |

`Remove` is what the kernel does when the card disappears, its driver is unbound
or the module goes: it may come at any moment, whether files are open or not
(`sis1100_autoconf_linux.c:433-438`). `Unload` is the end of the module, for
which the kernel asks that no file is open (`owner = THIS_MODULE`).

Reductions, none of which hides an interleaving the properties are about: the
link changes only while the card looks at it (what it does before is another
initial state); the module is loaded again only when a timer that was left has
expired; settings are forgotten when `sc` is freed; another front end is
connected only after the driver has seen the loss of the old one, and not while
it asks what is connected. A restriction: a card that was taken away is not
bound again before the module has been loaded again.

The two fields `update_swapping()` reads are changed by ioctls without a lock
(`sis1100_ioctl.c:316-317`, `332-333`) and by `sis1100_init_remote` under
`sem_hw`, and it writes two registers one after the other
(`sis1100_init.c:167-209`). Each of these is a step of its own here. Two updates
that overlap can leave one register for each byte order, or both for the older
one, until the next update; nothing in the code promises anything else, so
`SwapAgrees` is about updates that did not overlap, and `raced` says which did.

`KnownOopses` states who may touch what is gone, and only when. Five such cases
exist in the code, and the invariant names each with its line: the kernel thread
while a removal releases the registers before it stops the thread, the timer
after a start that failed, a file that was opened before the last device node
failed, a file that is open when the card is taken away, and the removal of a
card that was never bound because no DMA mask fits.

## The runs

| Run | Instance | Question |
|---|---|---|
| `ring_uniprocessor` | 1 thread, rings of 1 and 3 blocks, 3 fills per session, 2 sessions, doorbells, automatic acknowledgement, fair interrupts and irq thread | Is the ring consistent (`RingOrder`), does the data come in order (`DataInOrder`), does the engine stay out of blocks that are not its own (`NoForeignWrite`), is it idle after stop (`StoppedIsIdle`), can a blocked ring always be restarted (`BlockedWaits`), is everything given back at close (`OwnerIsOpen`), does a user block keep its data (`UserBlockKept`), is every full block announced (`Announced`), does every sleeper wake (`SleeperWakes`), and does the whole implement `BlockFifo` (`FifoSpec`)? |
| `ring_smp` | 2 threads of one process, 2 CPUs, 2 blocks, 1 session, aborts may fail | Does the order of the data survive all interleavings (`HandsOutInOrder`), does the engine stay in its block (`EngineInOwnBlock`), and is `BlockFifo` implemented (`FifoSpec`)? `IInv` is the invariant the proofs use. |
| `ring_pages` | 2 processes, rings of 1 and 2 blocks of 2 pages, 1 descriptor to a page, aborts and every step of `ddma_map` may fail | Does a call that reaches the engine always belong to the process that still owns the ring, though `ddma_mark` takes no lock of it (`EngineInv`), does the engine, wherever it is, fill all pages of its block and no others (`EngineInUserPages`), is all that was acquired given back (`Returned`)? |
| `ring_smp_stall` | 1 thread, 2 CPUs | `DmaResumes` is **violated**. |
| `ring_smp_stop` | 1 thread, 2 CPUs | `StoppedIsIdle` is **violated**. |
| `link_watched` | 2 CPUs, 3 front ends of which the driver does not know one, 4 changes at any moment, also glitches and in the middle of an initialisation | Is `irq_synch_chg` enabled again after every change (`Watched`), is every working link known once things are quiet (`UpIsKnown`)? |
| `link_told` | 1 CPU, 3 changes, read transfers | Is the link known in spite of the transfers, is every sleeper told (`SleeperWakes`), is every wanted signal sent (`SignalSent`)? |
| `link_down` | 1 CPU, no transfers, no glitches | `DownIsKnown` is **violated**. |
| `vme_delivery` | 2 processes, 2 levels, 2 requests, 2 calls of `irq_ctl`; the higher level is acknowledged automatically | Is a level a process holds always enabled, pending, or on its way (`HeldIsEnabled`), does a vector stay until it is given (`VectorKept`) and is it given once (`GivenOnce`), does nobody sleep while his level is pending (`NobodySleeps`)? |
| `transfer` | 2 threads, up to 2 words, DMA of 1 word at a time, a FIFO of 2 requests, every kind of transfer, lost and refused requests, 1 loss of the link, interrupted and killed waits, an engine that stops when it is aborted | Does a call find the hardware settled (`Settled`), is the count it reports what was moved (`Counted`), is its error its own (`ErrorTold`), does a read by DMA end (`ReadEnds`)? |
| `transfer_deaf` | the same, a FIFO of 1 request | `Listening` is **violated**. |
| `card` | 1 user thread and file, VME and LVD front ends, 2 loads, 1 change of the link, every step of the start may fail, the card may be taken away at any moment | Does nothing touch what is gone but in the known cases (`KnownOopses`), is everything released (`AllReleased`), do both registers have the byte order of the front end and the wish, once the steps of the updates are done (`SwapAgrees`), does a removal come to an end (`StopHeard`)? |

Bounds. A ring of three blocks is the smallest in which the block to read, the
block to write and a block in the user's hands can be told apart, one of one
block is the boundary the code allows although a comment forbids it; two blocks
are the smallest ring in which the engine can be blocked and restarted. As many
fills as there are blocks fill every ring, and in the smaller ones and in
`ring_smp` they wrap. Two sessions show what one leaves to the next.
In `ring_pages` a block of two pages with one descriptor to a page makes the
chain cross from page to page and makes merging possible, two blocks let the
second fail when the first is mapped, and one fill puts the engine there; what
the ring does with more fills is the subject of the other runs.
The link needs one change to go up, one to be lost in the second of the timer
or during the initialisation, and one to come back; the fourth meets the
handler of the third. Two levels are the fewest for which the choice of the
vector matters, two requests can meet on one level or on two, and two calls of
`irq_ctl` hand a level from one process to the other. `vme_delivery` uses that
the two processes are alike (symmetry).
Two words are the fewest for a loop that fails half way and for a DMA in two
chunks; one loss of the link, which then may come back, falls on every step of a
transfer. The thresholds of the two files (`Files` in `MCTransfer`) send a read
to DMA, the pipe or the loops. The balance of requests that may be open before a
call (`MaxStray`) is 0: what a call that was cut off leaves is excepted by the
properties anyway.
A size_t has four values (`SizeLimit`), so that a count nobody has set can be 0,
right, too large for the transfer and too large for the buffer, and the
subtraction can wrap.
Two loads show what a start leaves to the next one. The link may be up or down
to begin with, so that one change takes it down under an initialisation or
brings it up; with a reset ioctl and a second load another front end is met
as well. With one user thread the update of an ioctl meets that of the kernel
thread or of the probe; two ioctls that meet are covered by the proofs only,
which are for any number of threads.
The proofs do not depend on the bounds.

Fairness of the ring (`FairSpec` of `DemandDma`): an enabled interrupt is delivered and the handler runs to
its end, the irq thread is scheduled, and a call that is not asleep goes on.
Nothing is assumed of the user, who need not call anything again, or of the
front end, which need not deliver data. The kernel gives exactly this.

Fairness of the link (`FairSpec` of `LinkSync`): an enabled interrupt is
delivered, the timer expires, the irq thread, an initialisation and a call that
have begun go on, a transfer ends; `sem_hw`, which is released again and again,
is granted in the end to who waits for it (strong fairness, a queue in the
kernel). Users and the link are free. `SleeperWakes` and
`SignalSent` ask for an event after every change that the driver has noticed;
they are checked where no initialisation fails on a working link and none is
interrupted by the loss of the link, because a reset ioctl that brings the
remote side back tells nobody, and the processes learn of it only with the next
command of the irq thread.

`VectorKept` holds for who acknowledges automatically at most his highest level
and asks `irq_get` for all: `irq_get` acknowledges every pending level of
`autoack_mask`, but returns one vector, and what it has not returned of the
others is lost. Hence `Automasks` and `GetMasks` of `vme_delivery`. The other
properties do not depend on this, and their proofs do not assume it.

Fairness of the transfers (`FairSpec` of `Transfer`): an enabled interrupt is
delivered, an engine that has a link moves on and comes to an end or to an
error, and a thread whose wait is over goes on. Of a card that has lost the link
nothing is assumed but the interrupt, and nothing of a confirmation.

Fairness of the card (`FairSpec` of `Card`): a removal or an error path that has
begun goes on, the kernel thread is scheduled, and an initialisation of the
front end ends (it is a busy wait with a limit). Nobody has to load, unload,
open or call.

`Counted` and `ErrorTold` except what the code does not promise or cannot know:
`read_pipe_seq`, which keeps its error to itself and reports all words; blind
writes; single accesses after `le_dlock`, which look at the header of their own
request (`sis1100_tmp_read.c:61`); DMA that was aborted, whose count nobody has
set (`sis1100_read_dma.c:48`, `59`); and, for `ErrorTold`, calls that return
`e_dlock` or `le_dlock` as they read it, in particular `wait_for_fifo`
(`sis1100_write_loop.c:38-42`). In each of these the property is false of the
code, and the model shows it when the exception is taken away. After a call that was cut off (`dirty`) nothing is
said until the front end has been initialised again. `AbortCanFail` is `FALSE`
in both runs: with an engine that cannot be stopped there is nothing to say.

Deadlock is checked in every run but two: in `card` the module may stay
unloaded, and `ring_pages` and `card` end when there is an oops. (In `Transfer`
an oops stops the threads, and `Halted` stands for a kernel that goes on without
them.)

### What the four violations say

`ring_smp_stall`: the hook finds the next block in use, releases `dma->spin`
(line 84), and sets `is_blocked` in a second locked section (line 92). A
`ddma_mark` of that block on another CPU in between finds `is_blocked` clear and
only marks the block free. From then on the ring waits for a block that is free
already; no `ddma_mark` can name it again, and the DMA rests until it is stopped.

`ring_smp_stop`: `ddma_stop` removes the hook and looks at the engine while the
hook runs on another CPU between its two halves. The engine is idle, the status
becomes ready, and then the hook starts the engine again. `ddma_map`, which asks
only for the status, would then free the blocks under the running DMA.

`link_down`: a link that goes down in the second after an earlier change finds
its interrupt disabled, so that the handler does not set `remote_hw` to invalid.
The synch handler, when the second is over, enables the interrupt, finds the
link down, and does nothing. The driver rests with a valid `remote_hw` and a
link that is down; transfers pass their check, and nobody is signalled.

`transfer_deaf`: a write by DMA enables its interrupts (line 169) and then clears
`got_irqs` (line 172); a read does it the other way round. A link that is lost
in between has its interrupt at once: the handler records it and disables
`irq_synch_chg`, `irq_prot_l_err` and the end of the transfer. The record is
cleared, and the caller waits for interrupts that are all disabled. After a
second the synch handler enables two of them again, but the event has passed.
Only a fatal signal or a further change of the link ends the wait, during which
`sem_hw` is held.

On a uniprocessor the first two are impossible: `StoppedIsIdle` and `BlockedWaits`
(which excludes the first) are proved.

## The proofs

### DemandDma

`DemandDmaProofs`, `DemandDmaMemoryProofs` and `DemandDmaFifoProofs` prove, for
all values of the constants that satisfy `FilesAssumption` and
`BoundsAssumption`:

| Theorem | States | Assuming |
|---|---|---|
| `TypeCorrect` | `TypeOK` | nothing |
| `Invariance` | `IInv` | `OneSessionOrUniprocessor` |
| `RingOrderHolds`, `DataInOrderHolds`, `EngineInOwnBlockHolds` | the invariants of these names | `OneSessionOrUniprocessor` |
| `HandsOutInOrderHolds`, `UserBlockKeptHolds` | the action properties of these names | `OneSessionOrUniprocessor` |
| `StoppedIsIdleHolds` | `StoppedIsIdle` | `PrivateFiles` |
| `NoForeignWriteHolds` | `NoForeignWrite` | `Uniprocessor` |
| `BlockedWaitsHolds` | `BlockedWaits` | `OneSessionOrUniprocessor` and `~Smp` |
| `OwnerIsOpenHolds` | `OwnerIsOpen` | `~AbortCanFail` |
| `EngineInvHolds` | `EngineInv` | `PrivateFiles` |
| `ImplementsFifo` | the refinement `FifoSpec` | `OneSessionOrUniprocessor` |
| `PromiseHolds` | `Fifo!Promise`, the contents of the queue | `OneSessionOrUniprocessor` |

`Uniprocessor` is one CPU and one user thread. `OneSessionOrUniprocessor` is
that, or any machine and any number of threads with one start of the DMA.
`PrivateFiles` is one CPU and any number of processes with one thread each. The
restriction is real: on a multiprocessor a step left over from one session (an
`irq_get` between look and take, a `ddma_mark` on its way to the engine, the
hook) can act on the next one, which is what `ring_smp_stop` is about.

Why an invariant is needed. None of the properties is inductive: that the
handler stores the next fill in order depends on the engine having been loaded
with `writing_block`, that depends on who may load it, and that on which calls
are half done. `IInv` says it in six parts. `LockInv`: who is inside a locked
section holds the lock. `CallInv`: what a call has checked stays true until its
last step. `FirstInv` and `PreparedInv`: before the first start, and after
`ddma_start` has reset the ring, no step is left that could disturb it.
`CalmInv`: on a uniprocessor the same holds between any two sessions. `RingInv`
is the core: during a session the counters agree with the block states
(`Counts`), at most one fill is not yet counted (`Fills`), and the right to start
the engine is with exactly one party (`Writer`): the chip has it, or the handler,
or one thread in `ddma_mark`, or no one because the ring is blocked.

The proof goes action by action: lemmas about the ring (`Distance`, the
successor, what one full block more or less does to the order) do the
arithmetic, and each action gets one step that shows which parts it touches.

Five further invariants stand next to `IInv`, each for one question.

- `EngineInv` (who may stop or unmap what the engine uses): a thread in one of
  the calls that hold `dma->mux`, or in `ddma_mark`, belongs to the owner; as no
  other thread has the same file, and a stranger is refused as long as the DMA
  is mapped, the DMA still runs when the mark reaches the engine, and the engine
  runs outside of the calls only if the DMA does. It needs nothing of the order
  of the blocks and so holds with any number of processes, also when the
  `irq_get` of one of them takes the blocks of another.

- `OwnerInv` (who may still be in a call): `OwnerIsOpen` is about the moment
  `ReleaseClose` closes a file, and holds because `cleanup_fd` has seen the DMA
  of its file stop and unmapped it, while nobody else can be in a call of that
  file. An abort that fails breaks it, hence `~AbortCanFail`.
- `WriteInv` (out of a session too): a block that is marked, or taken, is what
  the call believes it to be until its last step. The engine and the call that
  is about to start it have a block of their own.
- `WaitInv`: the handler waits for a block only as long as the block is in use.
  It is false between two locked sections of the hook when a thread may run
  there, which is why it needs `~Smp`, and what `ring_smp_stall` shows.
- `HeldInv`: no block stays in the user's hands across a start. The refinement
  needs it because `BlockFifo` counts the blocks held, and a new session begins
  with none.

`ImplementsFifo` goes through the actions and shows of each what it is for the
FIFO: a produced fill (`IsrFill`), one handed out (`IrqTake`), one given back
(`MarkFree`), the beginning or the end of a session, or a stutter.
Counting how many fills are full or held is set arithmetic on the blocks, with
lemmas of its own. That the queue keeps its promise is an invariant of
`BlockFifo` (`Ordered`: what waits is numbered without a gap up to the last one
produced, what is held has smaller numbers); with the refinement it becomes one
of the ring.

Only model-checked: the two liveness properties `Announced` and `SleeperWakes`,
which are out of the prover's reach.

### DmaPages

`DmaPagesProofs` extends `DemandDmaMemoryProofs` and proves, for any number of
blocks, pages, descriptors to a page, threads and files:

| Theorem | States | Assuming |
|---|---|---|
| `ReturnedHolds` | `Returned` | nothing |
| `EngineInUserPagesHolds` | `EngineInUserPages` | `PrivateFiles` |

`DmaPages` only adds variables and conjoins what its steps do to them with the
steps of the ring, so that `PagesSpec => Spec` (the lemma `PagesAreRing`) and
every theorem about `Spec` holds of `PagesSpec`. `Returned`
needs to know of every block that is unmapped what it can hold: the lemmas go
through the steps of `map_block` (`WiredFacts`, `MappedFacts`, `CompleteFacts`)
to what `unmap_block` makes of each of them (`UnmappedHoldsPagesOnly`). The
invariant `MemoryInv` says that the blocks of a mapping are complete and all
others hold nothing; that the other steps of the ring keep it so is
`OtherKeepsMapping`, which rests on `LockInv` and `CallInv` of the ring.

`EngineInUserPages` joins two arguments. `EngineInv` of the ring and `MemoryInv` give that
the block of a running engine is mapped and complete. That the chain of a
complete block leads through all its entries (`ChainIsWalked`) is about two
recursions: the loop of `map_block`, which steps through the descriptor pages
(`Places`), and the engine, which follows the addresses it reads (`Way`). Both
are shown to visit `Place(i)`, quotient and remainder of i - 1 by the
descriptors to a page: the closed form satisfies the recursive equation, and the
least index at which another solution would differ (`LeastNumber`, from the
well-foundedness of the numbers) contradicts it. That the places lie in the
pages that `nents / dpseg + 1` allocates is arithmetic (`PlaceWithin`).

### LinkSync

`LinkSyncProofs` proves, for any files and front ends and any number of changes:

| Theorem | States | Assuming |
|---|---|---|
| `LinkTypes` | `TypeOK` | `EnvironmentAssumption` |
| `LinkIsWatched` | `Watched` | the same |
| `LinkInvariant`, `UpIsAlwaysKnown` | `IInv`, `UpIsKnown` | also that no initialisation fails on a working link, and one CPU or no transfers |

`UpIsKnown` speaks of a driver at rest. The invariant `UpChain` says for every
moment who is still going to find the link up: its latched change with the
interrupt enabled, the handler, the timer, the irq thread, or an initialisation
that has identified this front end. `HolderOK` ties the initialisation to the
one caller that is inside. The restriction to one CPU or no transfers is what a
transfer costs that enables `irq_synch_chg` behind the back of a handler that
runs on another CPU. Model-checked only: `SleeperWakes`, `SignalSent`, which are
liveness.

### VmeIrq

`VmeIrqProofs` proves, for any levels (of the seven there are), files, threads,
and number of requests and calls:

| Theorem | States | Assuming |
|---|---|---|
| `TypesHold`, `LevelsAreExclusive`, `GivenOnceHolds` | `TypeOK`, `Exclusive`, `GivenOnce` | `LevelsAssumption`, `UsersAssumption` |
| `HeldIsEnabledHolds`, `NobodySleepsHolds`, `InvariantHolds` | `HeldIsEnabled`, `NobodySleeps`, `IInv` | also `OneThreadPerFile` |
| `VectorKeptHolds` | the action property `VectorKept` | the first two, `HighestLevel(h)` and `MayAcknowledge(h)`, with any number of threads to a file |

`GivenOnce` needs to know where every vector is: on the bus, in `irq_vects` or
with a process, and nowhere twice (`BusInOrder`, `StoredOnce`). `HeldIsEnabled`
needs that the levels `irq_ctl` is about to disable still belong to its file
(`PartOwned`), that no two processes own a level (`Exclusive`) and that who is in
a call has his file open (`Working`). `PartOwned` is why `OneThreadPerFile` is
assumed: the code reads `owned_irqs` without a lock, and two threads that give
the same level back at once can mask it again when it is already another
process's. `VectorKept` rests on `OnlyHighest`: what is acknowledged
automatically, now or at the end of an `irq_ctl` under way, is at most the
highest level `h`, and who waits for interrupts asks for `h` too. Then the level
`irq_get` acknowledges is the one whose vector it returns. Without this the
property is false, as said under fairness above.

### Transfer

`TransferProofs` proves, for any number of threads and words, any thresholds,
lengths of the FIFO and of a DMA, and any number of losses:

| Theorem | States | Assuming |
|---|---|---|
| `TypesHold` | `TypeOK` | the named assumptions on the constants |
| `HardwareSettled` | `Settled` | also that an abort stops the engine (`~AbortCanFail`) |
| `ErrorsTold` | `ErrorTold` | the same |
| `WordsCounted` | `Counted` | the same |

`TypeInv` adds to the types that who has left the queue for `sem_hw` is its only
holder (`OneHolder`), where a call of each kind can be (`Fits`), and that a call
has no more left to do than it was asked for, until a read that was aborted has
subtracted a count nobody has set (`Bounded`). Only there `Minus` can wrap; the
subtractions of the other calls stay in the naturals. `Settled` speaks of the moment between two calls; `Quiet` says for
every place of every kind of call what it has left in the hardware so far: how
many requests can be open, whether the register can hold an error, whether the
engine can run. `Told` follows the error of a failed request from the register
through the local variable of the call to its result. `CountInv` follows the
words: for a programmed transfer, as long as nothing failed, those that have
come and those still open are those that were requested; for a DMA, those of the
rounds before and what the engine has moved in this one are all. It needs `Told`,
because a call that stops early must know that it does, and it needs to know
that the interrupts a write is woken by are its own: `sis1100_enable_irq` clears
what an earlier call has left latched, so that `irq_prot_end` says that all words
have gone, and `irq_prot_l_err` that an error is in the register. Only
model-checked: `ReadEnds`, which is liveness.

### Ioctl and Card

`CardProofs` proves of `Card`, for any number of files, threads and requests, any
front ends and byte orders, and any number of loads and changes of the link:

| Theorem | States |
|---|---|
| `InvHolds`, `TypeOKHolds` | `IInv`, `TypeOK` |
| `AllReleasedHolds` | `AllReleased` |
| `KnownOopsesHolds` | `KnownOopses` |
| `SwapAgreesHolds` | `SwapAgrees` |

They assume what `Ioctl` and `Card` say of their constants: that the probe, the
kernel thread and the user threads are different, that a request has the fields
the command copies from the user (`Args`) and any integers in them, and that
SETVMESPACE has one `mindmalen` for both directions.

The invariant is in `CardInv`. `ResourceInv` says at every stage what is held:
while starting all that the steps so far have acquired, on an error path the
part of it that the labels still to come release, in a removal what its order
has left. That every label of the two error paths releases exactly what was
acquired before it failed is the lemma `LabelsRelease`, from which `AllReleased`
follows for every number of loads. `ThreadInv`, `TimerInv` and `FileInv` say who
may still run at each of these moments, and `KnownOopses` is what they leave
possible. Of the files it has to be known that the registration of the device
nodes is the last step, so that only its failure can meet an open file.
`SwapInv` is for the byte order. Whoever is in `sis1100_init_remote` holds
`sem_hw` (`Locks`), so that the endianness found there stays true to its end
(`FoundInv`). The wish of a user may change meanwhile, since `Set` does not take
`sem_hw`, but who changes one of the fields goes on to an update of his own, and
has raced if another one is under way. As long as nobody has, there is at most
one update; it has read the fields as they still are, and has written the
registers behind it (`UpdateInv`).

Only model-checked: `StopHeard`, which is liveness.

## Not modelled

Planned, as listed above: a ring and plain transfers at the same time, transfers
on a multiprocessor, changing ownership of interrupt bits in the ring, the
CAMAC, LEMO, mailbox and pixel interrupts. Of the last, three things can be seen
by reading alone, and no run shows them. `sis5100rem_irq.c` writes `lam_enable`
only if the new mask is not 0 (lines 52 and 110), so the last enabled LAM is
never masked, neither by the irq thread nor by `irq_ctl`; `cleanup_fd` has its
masking for CAMAC commented out (`sis1100_open.c:110`); and
`sis1100_lemo_handler.c:38` masks with the decimal `30000` where
`SIS1100_FRONT_IRQS` is hexadecimal `0x30000`, so that a change of the LEMO
inputs of the card never becomes pending. What `VmeIrq` says of masks therefore
does not carry over to CAMAC.

Of the parts that are modelled: `SIS1100_RESET` and the transparent mode, which
write to protocol registers without `sem_hw` and invalidate whatever is said of
the transfer they hit; the data of transfers, and the ranges of register offsets
an ioctl accepts; several cards; the sysfs attributes. `StopHeard`, `Counted`, `ErrorTold`,
`SwapAgrees` and `EngineInUserPages` except named cases in which the code does not
keep them, as said above.

Left out for good: register sequences without state of the driver (front-end
initialisation, front panel I/O, EEPROM, SDRAM, DSP), mmap and llseek (address
arithmetic), the switches of `sis1100_ioctl.c` and `sis1100_ioctl32_linux.c`, by
which a command finds its handler, with the 32-bit copies of handlers that
transfer data (that of `SIS1100_DSP_READ` calls `sis1100_dsp_load`,
`sis1100_ioctl32_linux.c:473`), the user library (one system
call per function), and everything that is not the driver: MIDAS scripts,
packaging and generated build files.
