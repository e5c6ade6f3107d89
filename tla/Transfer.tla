------------------------------ MODULE Transfer ------------------------------
(***************************************************************************)
(* The data transfers of the sis1100 driver: single accesses, the read and *)
(* write loops, the pipes and the block DMA, all of them serialised by     *)
(* sc->sem_hw, against the request/confirmation hardware of the card, its  *)
(* interrupt handler and a link that may be lost.                          *)
(*                                                                         *)
(* The hardware is described by what the code says and uses of it: every   *)
(* request raises p_balance, its confirmation lowers it; "reading          *)
(* prot_error blocks until p_balance==0 OR prot_error!=0", and "prot_error *)
(* is reset to 0 after read" (sis1100_write_loop.c:182-187).  A thread     *)
(* that polls the register while it reads sis1100_e_dlock is blocked here. *)
(* The interrupt handler is one step: the module describes a uniprocessor. *)
(***************************************************************************)
EXTENDS Naturals, FiniteSets

CONSTANTS
    Threads,     \* user threads
    Settings,    \* [dma, pipe]: the thresholds mindmalen and minpipelen of
                 \* the files; 0 switches DMA or pipeline off
    Direct,      \* kinds of transfer ioctls ask for without read_block
    MaxWords,    \* bound: words of a call
    DmaMax,      \* words of one DMA, DMA_MAX/4
    SizeLimit,   \* numbers of a size_t: counts of words are modulo SizeLimit
    FifoLen,     \* requests that fit in the send FIFO (fifolen)
    MaxStray,    \* bound: open requests nobody waits for when a call begins
    MaxLosses,   \* bound: losses of the link
    Timeouts,    \* can a request be lost (local error le_to)?
    AbortCanFail \* can the abort of a DMA fail to stop the engine?

Nobody == "nobody"
Kinds == {"single", "blind", "rloop", "wloop", "rpipe", "pipe", "wpipe", "rdma", "wdma"}
Direction == {"read", "write"}

ASSUME ThreadsAssumption == Nobody \notin Threads
ASSUME SettingsAssumption ==
    /\ Settings \subseteq [dma : Nat, pipe : Nat]
    /\ Direct \subseteq {"single", "blind", "pipe", "wpipe", "rloop", "wloop"}
ASSUME BoundsAssumption ==
    /\ MaxWords \in Nat \ {0} /\ DmaMax \in Nat \ {0} /\ FifoLen \in Nat \ {0}
    /\ SizeLimit \in Nat /\ MaxWords < SizeLimit
    /\ MaxStray \in Nat /\ MaxLosses \in Nat /\ Timeouts \in BOOLEAN
    /\ AbortCanFail \in BOOLEAN

VARIABLES
    link,        \* the link is synchronised
    balance,     \* register p_balance: requests without confirmation
    prot_error,  \* register prot_error
    plx0,        \* PLX DMA channel 0: "idle", "running", or "stuck" when it
                 \* runs and no more data will come
    d0_bc,       \* words the DMA has moved
    latched,     \* interrupts latched in sr (and DMACSR0 for dma0)
    enabled,     \* interrupts enabled in cr (and INTCSR for dma0)
    got_irqs,    \* sc->got_irqs
    remote_hw,   \* sc->remote_hw is a known front end
    sem_hw,      \* holder of sc->sem_hw, or Nobody
    pc,          \* threads: where they are
    op,          \* threads: the call they work on
    words,       \* history: words really moved in the call that holds sem_hw
    fault,       \* history: a request failed in that call: "yes", or
                 \* "hidden" in a confirmation that came with le_dlock, or "no"
    dirty,       \* history: a call left the hardware without an end
    losses

hardware == <<link, balance, prot_error, plx0, d0_bc, latched, enabled>>
vars == <<hardware, got_irqs, remote_hw, sem_hw, pc, op, words, fault, dirty, losses>>

Sources == {"dma0", "sync", "l_err", "end"}
Local == {"sync", "l_err", "end"}
\* re: the front end refused; le_to: no answer; le_synch: no link; le_dlock:
\* the confirmation came while the register was being read, and tc_hdr shows
\* that it is good (le_dlock) or an error confirmation (le_dlock_re).
Errors == {"re", "le_to", "le_synch", "le_dlock", "le_dlock_re"}
Deadlocks == {"le_dlock", "le_dlock_re"}
\* What says "come back later" or "look at tc_hdr", not that a request failed;
\* e_dlock is not kept in the register, it is what a read of it returns that
\* cannot be answered yet.
Transient == Deadlocks \cup {"e_dlock"}
LocalErrors == Errors \ {"re"}

Min2(a, b) == IF a <= b THEN a ELSE b

\* A subtraction of size_t numbers.
MinusSigned(a, b) == a - b
Minus(a, b) == IF b <= a THEN a - b ELSE a + SizeLimit - b

\* left: words still to do; count: what the caller will be told; size: words
\* of the DMA under way; seen: the balance write_loop has read, or its count
\* of requests in the FIFO, or _count_read of read_dma; res: "ok", an errno,
\* or "signal" for the negative value of an interrupted wait.
NewOp(k, n) == [kind |-> k, n |-> n, left |-> n, count |-> 0, size |-> 0,
                seen |-> 0, error |-> "none", res |-> "ok", aborted |-> FALSE]

Init ==
    /\ link = TRUE /\ balance = 0 /\ prot_error = "none"
    /\ plx0 = "idle" /\ d0_bc = 0
    /\ latched = {} /\ enabled = {"sync"}
    /\ got_irqs = {} /\ remote_hw = TRUE
    /\ sem_hw = Nobody
    /\ pc = [t \in Threads |-> "idle"]
    /\ op = [t \in Threads |-> NewOp("single", 0)]
    /\ words = 0 /\ fault = "no" /\ dirty = FALSE
    /\ losses = 0

-----------------------------------------------------------------------------
(* The call and its way through read_block() and write_block(). *)

Goto(t, where) == pc' = [pc EXCEPT ![t] = where]
At(t, where, kinds) == pc[t] = where /\ op[t].kind \in kinds

\* The choice between DMA, pipeline, single access and loop.
Route(dir, n, s) ==
    IF s.dma # 0 /\ n >= s.dma THEN IF dir = "read" THEN "rdma" ELSE "wdma"
    ELSE IF dir = "read" /\ s.pipe # 0 /\ n >= s.pipe THEN "rpipe"
    ELSE IF n = 1 THEN "single"
    ELSE IF dir = "read" THEN "rloop" ELSE "wloop"

\* A call without a known front end fails with ENXIO, which changes nothing;
\* the front end is not looked at again once sem_hw is there.  What the call
\* asks for is chosen when it begins its work.
Call(t) ==
    /\ pc[t] = "idle" /\ remote_hw
    /\ Goto(t, "lock")
    /\ UNCHANGED <<hardware, got_irqs, remote_hw, sem_hw, op, words, fault, dirty, losses>>

Begin(t, k, n) ==
    /\ op' = [op EXCEPT ![t] = NewOp(k, n)]
    /\ Goto(t, IF k \in {"rdma", "wdma"} THEN "prepare" ELSE "send")
    \* write_loop clears a pending irq_prot_l_err first
    /\ latched' = IF k = "wloop" THEN latched \ {"l_err"} ELSE latched

Lock(t) ==
    /\ pc[t] = "lock" /\ sem_hw = Nobody /\ balance <= MaxStray
    /\ sem_hw' = t
    /\ \E n \in 1..MaxWords :
       \/ \E dir \in Direction, s \in Settings : Begin(t, Route(dir, n, s), n)
       \/ \E k \in Direct : (k \in {"single", "blind"} => n = 1) /\ Begin(t, k, n)
    /\ UNCHANGED <<link, balance, prot_error, plx0, d0_bc, enabled, got_irqs,
                   remote_hw, words, fault, dirty, losses>>

\* Calls after which the driver itself does not know what the hardware does:
\* nobody waited for all confirmations, or a DMA was given up.
Cut(t) ==
    \/ op[t].kind = "blind"
    \/ op[t].kind = "wpipe" /\ op[t].error # "none"
    \/ op[t].kind \in {"single", "rloop"} /\ op[t].error = "le_to"
    \/ op[t].kind \in {"rpipe", "pipe"} /\ op[t].res # "ok"
    \/ op[t].aborted
    \/ op[t].kind \in {"rdma", "wdma"} /\ op[t].res \notin {"ok", "EFAULT"}

Unlock(t) ==
    /\ pc[t] = "leave"
    /\ sem_hw' = Nobody
    /\ dirty' = (dirty \/ Cut(t))
    /\ Goto(t, "idle")
    /\ op' = [op EXCEPT ![t] = NewOp("single", 0)]
    /\ words' = 0 /\ fault' = "no"
    /\ got_irqs' = {} /\ d0_bc' = 0
    /\ UNCHANGED <<link, balance, prot_error, plx0, latched, enabled, remote_hw, losses>>

-----------------------------------------------------------------------------
(* Programmed transfers. *)

\* Requests on a dead link are answered by a local error.
Request(n) ==
    /\ balance' = balance + (IF link THEN n ELSE 0)
    /\ prot_error' = IF link THEN prot_error ELSE "le_synch"
    /\ fault' = IF link THEN fault ELSE "yes"
    /\ latched' = IF link THEN latched ELSE latched \cup {"l_err"}

\* One request; a loop over words comes back here for each of them.
Send(t) ==
    /\ At(t, "send", {"single", "blind", "rloop", "wloop"})
    /\ Request(1)
    /\ op' = [op EXCEPT ![t].left = @ - 1,
                        ![t].seen = IF op[t].kind = "wloop" THEN @ + 1 ELSE @]
    /\ Goto(t, CASE op[t].kind = "blind" -> "leave"
                 [] op[t].kind = "wloop" -> "room"
                 [] OTHER -> "answer")
    /\ UNCHANGED <<link, plx0, d0_bc, enabled, got_irqs, remote_hw, sem_hw,
                   words, dirty, losses>>

Readable == balance = 0 \/ prot_error # "none"

\* tmp_read, tmp_write, camacread, camacwrite, remote_reg_write: after
\* le_dlock they look at t_hdr, the header of the request they wrote
\* themselves, and find no error in it.
SingleError == IF prot_error \in Deadlocks THEN "none" ELSE prot_error

\* remote_reg_read, write_loop and pipe_ctrl_write_remote look at tc_hdr.
ConfirmedErrorOwnHeader == SingleError
ConfirmedError ==
    CASE prot_error = "le_dlock"    -> "none"
      [] prot_error = "le_dlock_re" -> "re"
      [] OTHER -> prot_error

Single(t) ==
    /\ At(t, "answer", {"single"}) /\ Readable
    /\ \E e \in {SingleError, ConfirmedError} :
         op' = [op EXCEPT ![t].error = e, ![t].count = IF e = "none" THEN 1 ELSE 0]
    /\ prot_error' = "none"
    /\ Goto(t, "leave")
    /\ UNCHANGED <<link, balance, plx0, d0_bc, latched, enabled, got_irqs,
                   remote_hw, sem_hw, words, fault, dirty, losses>>

\* read_loop and pipe_ctrl_read_remote: any value ends the loop.
ReadWord(t) ==
    /\ At(t, "answer", {"rloop"}) /\ Readable
    /\ IF prot_error # "none"
       THEN /\ op' = [op EXCEPT ![t].error = prot_error,
                                ![t].count = op[t].n - op[t].left - 1]
            /\ Goto(t, "leave")
       ELSE /\ op' = [op EXCEPT ![t].count = op[t].n]
            /\ Goto(t, IF op[t].left = 0 THEN "leave" ELSE "send")
    /\ prot_error' = "none"
    /\ UNCHANGED <<link, balance, plx0, d0_bc, latched, enabled, got_irqs,
                   remote_hw, sem_hw, words, fault, dirty, losses>>

\* wait_for_fifo(): room in the FIFO; or the status bit 0x4000, which is
\* irq_prot_end, makes it look at prot_error.
NextWord(t) == Goto(t, IF op[t].left = 0 THEN "balance" ELSE "send")
Room(t) ==
    /\ At(t, "room", {"wloop"})
    /\ \/ op[t].seen < FifoLen /\ NextWord(t) /\ UNCHANGED op
       \/ op[t].seen >= FifoLen /\ "end" \in latched /\ Goto(t, "fifo") /\ UNCHANGED op
       \/ /\ op[t].seen >= FifoLen /\ "end" \notin latched /\ balance # op[t].seen
          /\ op' = [op EXCEPT ![t].seen = balance]
          /\ UNCHANGED pc
    /\ UNCHANGED <<hardware, got_irqs, remote_hw, sem_hw, words, fault, dirty, losses>>

\* It looks once and returns what it reads: irq_prot_end may be left from an
\* earlier transfer, and then the answer is e_dlock while requests are open.
RoomError(t) ==
    /\ At(t, "fifo", {"wloop"})
    /\ LET e == IF Readable THEN prot_error ELSE "e_dlock"
       IN  /\ op' = [op EXCEPT ![t].error = e]
           /\ IF e = "none" THEN NextWord(t) ELSE Goto(t, "balance")
    /\ prot_error' = "none"
    /\ UNCHANGED <<link, balance, plx0, d0_bc, latched, enabled, got_irqs,
                   remote_hw, sem_hw, words, fault, dirty, losses>>

\* The loop at the end of write_loop: the balance is read before the error.
Balance(t) ==
    /\ At(t, "balance", {"wloop"})
    /\ op' = [op EXCEPT ![t].seen = balance]
    /\ Goto(t, "drain")
    /\ UNCHANGED <<hardware, got_irqs, remote_hw, sem_hw, words, fault, dirty, losses>>

\* As write_pipe would do it: stop at the first error.
DrainedOnError(t) == op[t].seen = 0 \/ op[t].error # "none"
Drained(t) == op[t].seen = 0

Drain(t) ==
    /\ At(t, "drain", {"wloop"}) /\ Readable
    /\ LET first == IF op[t].error = "none" THEN ConfirmedError ELSE op[t].error
       IN  op' = [op EXCEPT ![t].error = first,
                            ![t].count = IF first = "none" THEN op[t].n ELSE 0]
    /\ prot_error' = "none"
    /\ balance' = IF prot_error = "le_to" THEN 0 ELSE balance
    /\ Goto(t, IF Drained(t) THEN "leave" ELSE "balance")
    /\ UNCHANGED <<link, plx0, d0_bc, latched, enabled, got_irqs, remote_hw,
                   sem_hw, words, fault, dirty, losses>>

\* write_pipe(): all requests, then one look at prot_error.
PipeOut(t) ==
    /\ At(t, "send", {"wpipe"})
    /\ Request(op[t].n)
    /\ Goto(t, "answer")
    /\ UNCHANGED <<link, plx0, d0_bc, enabled, got_irqs, remote_hw, sem_hw,
                   op, words, dirty, losses>>

PipeOutEnd(t) ==
    /\ At(t, "answer", {"wpipe"}) /\ Readable
    /\ op' = [op EXCEPT ![t].error = prot_error, ![t].left = 0]
    /\ prot_error' = "none"
    /\ Goto(t, "leave")
    /\ UNCHANGED <<link, balance, plx0, d0_bc, latched, enabled, got_irqs,
                   remote_hw, sem_hw, words, fault, dirty, losses>>

\* read_pipe() and read_pipe_seq(): all requests, then sleep until none is open.
PipeIn(t) ==
    /\ At(t, "send", {"rpipe", "pipe"})
    /\ Request(op[t].n)
    /\ enabled' = enabled \ {"end"}
    /\ Goto(t, "listen")
    /\ UNCHANGED <<link, plx0, d0_bc, got_irqs, remote_hw, sem_hw, op, words,
                   dirty, losses>>

\* sis1100_enable_irq() clears what is pending before it enables.
Enable(irqs) ==
    /\ enabled' = enabled \cup irqs
    /\ latched' = latched \ (irqs \cap Local)

PipeListen(t) ==
    /\ At(t, "listen", {"rpipe", "pipe"})
    /\ got_irqs' = {}
    /\ Enable({"end"})
    /\ Goto(t, "check")
    /\ UNCHANGED <<link, balance, prot_error, plx0, d0_bc, remote_hw, sem_hw,
                   op, words, fault, dirty, losses>>

\* wait_event_interruptible(): looked at on entry and after every wakeup.
PipeCheck(t) ==
    /\ At(t, "check", {"rpipe", "pipe"})
    /\ Goto(t, IF balance = 0 THEN "collect" ELSE "sleep")
    /\ UNCHANGED <<hardware, got_irqs, remote_hw, sem_hw, op, words, fault, dirty,
                   losses>>

PipeInterrupted(t) ==
    /\ At(t, "sleep", {"rpipe", "pipe"})
    /\ op' = [op EXCEPT ![t].res = "signal"]
    /\ Goto(t, "collect")
    /\ UNCHANGED <<hardware, got_irqs, remote_hw, sem_hw, words, fault, dirty, losses>>

\* read_pipe_seq keeps the error to itself and reports all words as read;
\* read_pipe reports the error and the words that have come.
PipeCollect(t) ==
    /\ At(t, "collect", {"rpipe", "pipe"})
    /\ enabled' = enabled \ {"end"}
    /\ prot_error' = "none"
    /\ op' = [op EXCEPT ![t].error = IF op[t].kind = "pipe" THEN prot_error ELSE "none",
                        ![t].count = IF op[t].kind = "pipe" THEN words ELSE op[t].n]
    /\ Goto(t, "leave")
    /\ UNCHANGED <<link, balance, plx0, d0_bc, latched, got_irqs, remote_hw,
                   sem_hw, words, fault, dirty, losses>>

-----------------------------------------------------------------------------
(* Block DMA. *)

Dma == {"rdma", "wdma"}
WantedNoSync(t) == IF op[t].kind = "rdma" THEN {"dma0", "l_err"} ELSE {"end", "l_err"}
Wanted(t) == IF op[t].kind = "rdma" THEN {"dma0", "sync", "l_err"}
                                    ELSE {"end", "sync", "l_err"}

\* A read refuses a channel that is not idle; a write tries to kill the old
\* DMA, with or without success.
Prepare(t) ==
    /\ At(t, "prepare", Dma)
    /\ plx0' \in {plx0} \cup (IF op[t].kind = "wdma" THEN {"idle"} ELSE {})
    /\ IF plx0' = "idle"
       THEN /\ op' = [op EXCEPT ![t].size = Min2(op[t].left, DmaMax)]
            /\ balance' = 0
            /\ latched' = latched \ {"dma0"}
            /\ d0_bc' = 0
            /\ Goto(t, IF op[t].kind = "rdma" THEN "clear" ELSE "enable")
       ELSE /\ op' = [op EXCEPT ![t].res = "EIO"]
            /\ Goto(t, "leave")
            /\ UNCHANGED <<balance, latched, d0_bc>>
    /\ UNCHANGED <<link, prot_error, enabled, got_irqs, remote_hw, sem_hw,
                   words, fault, dirty, losses>>

\* A read clears got_irqs before it enables the interrupts, a write after.
DmaClear(t) ==
    /\ At(t, "clear", Dma)
    /\ got_irqs' = {}
    /\ Goto(t, IF op[t].kind = "rdma" THEN "enable" ELSE "start")
    /\ UNCHANGED <<hardware, remote_hw, sem_hw, op, words, fault, dirty, losses>>

DmaEnable(t) ==
    /\ At(t, "enable", Dma)
    /\ Enable(Wanted(t))
    /\ Goto(t, IF op[t].kind = "rdma" THEN "start" ELSE "clear")
    /\ UNCHANGED <<link, balance, prot_error, plx0, d0_bc, got_irqs, remote_hw,
                   sem_hw, op, words, fault, dirty, losses>>

DmaStart(t) ==
    /\ At(t, "start", Dma)
    /\ plx0' = IF link THEN "running" ELSE "stuck"
    /\ Request(0)
    /\ Goto(t, "wait")
    /\ UNCHANGED <<link, d0_bc, enabled, got_irqs, remote_hw, sem_hw, op,
                   words, dirty, losses>>

\* The end of the wait; the interrupts of this transfer are switched off.
DmaWoken(t) ==
    /\ At(t, "wait", Dma) /\ got_irqs \cap Wanted(t) # {}
    /\ Goto(t, "collect")
    /\ enabled' = enabled \ (IF op[t].kind = "rdma" THEN {"dma0", "l_err"} ELSE {"end"})
    /\ UNCHANGED <<link, balance, prot_error, plx0, d0_bc, latched, got_irqs,
                   remote_hw, sem_hw, op, words, fault, dirty, losses>>

\* Only a fatal signal ends the wait; all others are blocked.
DmaKilled(t) ==
    /\ At(t, "wait", Dma) /\ got_irqs \cap Wanted(t) = {}
    /\ op' = [op EXCEPT ![t].res = "signal"]
    /\ Goto(t, "collect")
    /\ enabled' = enabled \ (IF op[t].kind = "rdma" THEN {"dma0", "l_err"} ELSE {"end"})
    /\ UNCHANGED <<link, balance, prot_error, plx0, d0_bc, latched, got_irqs,
                   remote_hw, sem_hw, words, fault, dirty, losses>>

\* read_dma: d0_bc counts, unless the link was lost or a signal came: then
\* _count_read keeps what it holds, the number of the round before or, in the
\* first round, whatever is on the stack.
ReadAborted(t) == got_irqs \cap {"dma0", "l_err"} = {}
ReadCountAsked(t) == {op[t].size}
ReadCount(t) ==
    IF ~ReadAborted(t) THEN {d0_bc}
    ELSE IF op[t].left < op[t].n THEN {op[t].seen} ELSE 0..(SizeLimit - 1)

\* The engine is stopped unless it has told its end; the stop may fail.
DmaStopped(t) ==
    IF "dma0" \in got_irqs THEN {plx0}
    ELSE IF AbortCanFail THEN {plx0, "idle"} ELSE {"idle"}

CollectRead(t) ==
    /\ At(t, "collect", {"rdma"})
    /\ \E n \in ReadCount(t) :
         op' = [op EXCEPT ![t].seen = n, ![t].aborted = ReadAborted(t)]
    /\ plx0' \in DmaStopped(t)
    /\ Goto(t, "finish")
    /\ UNCHANGED <<link, balance, prot_error, d0_bc, latched, enabled,
                   got_irqs, remote_hw, sem_hw, words, fault, dirty, losses>>

\* The protocol error decides; errors of the front end are not EIO, and a lost
\* link (0x302) counts as one of them.
ReadRes(t) == IF ~op[t].aborted /\ prot_error \in LocalErrors THEN "EIO" ELSE op[t].res
ReadError(t) == IF op[t].aborted THEN "aborted" ELSE prot_error

\* The words are copied to the user, as many as _count_read says.
Copied(t) == {ReadRes(t)} \cup (IF op[t].seen = 0 THEN {} ELSE {"EFAULT"})

FinishRead(t) ==
    /\ At(t, "finish", {"rdma"})
    /\ \E res \in Copied(t) :
         LET rest == IF res = "ok" THEN Minus(op[t].left, op[t].seen) ELSE op[t].left
             more == /\ op[t].seen = op[t].size /\ rest # 0
                     /\ res = "ok" /\ ReadError(t) = "none"
         IN  /\ op' = [op EXCEPT ![t].res = res, ![t].error = ReadError(t),
                                 ![t].left = rest, ![t].count = Minus(op[t].n, rest)]
             /\ Goto(t, IF more THEN "prepare" ELSE "leave")
    /\ prot_error' = "none"
    /\ UNCHANGED <<link, balance, plx0, d0_bc, latched, enabled, got_irqs,
                   remote_hw, sem_hw, words, fault, dirty, losses>>

\* A _count_read from the stack leads the copy past the end of the DMA buffer,
\* and the kernel may not survive what it finds there.
CopyOops(t) ==
    /\ At(t, "finish", {"rdma"}) /\ op[t].seen > DmaMax
    /\ Goto(t, "oops")
    /\ prot_error' = "none"
    /\ UNCHANGED <<link, balance, plx0, d0_bc, latched, enabled, got_irqs,
                   remote_hw, sem_hw, op, words, fault, dirty, losses>>

\* The thread is killed with sem_hw in its hands; nobody transfers any more.
Halted == (\E t \in Threads : pc[t] = "oops") /\ UNCHANGED vars

\* write_dma: a lost link or a signal is EIO, and so are local errors and an
\* engine that still runs; after an error of a VME front end its own counter
\* is read, for other front ends nothing counts as written.
WriteRes(t) ==
    IF op[t].res # "ok" \/ "sync" \in got_irqs \/ prot_error \in LocalErrors \/ plx0 # "idle"
    THEN "EIO" ELSE "ok"
WriteError(t) == IF op[t].res # "ok" \/ "sync" \in got_irqs THEN "aborted" ELSE prot_error

CollectWrite(t) ==
    /\ At(t, "collect", {"wdma"})
    /\ \E n \in IF prot_error = "re" THEN {0, d0_bc} ELSE {op[t].size} :
         LET rest == IF WriteRes(t) = "ok" THEN op[t].left - n ELSE op[t].left
         IN  /\ op' = [op EXCEPT ![t].res = WriteRes(t), ![t].error = WriteError(t),
                                 ![t].left = rest, ![t].count = op[t].n - rest]
             /\ Goto(t, IF rest # 0 /\ WriteRes(t) = "ok" /\ WriteError(t) = "none"
                        THEN "prepare" ELSE "leave")
    /\ prot_error' = "none"
    /\ UNCHANGED <<link, balance, plx0, d0_bc, latched, enabled, got_irqs,
                   remote_hw, sem_hw, words, fault, dirty, losses>>

-----------------------------------------------------------------------------
(* The hardware and the front end (external). *)

\* A thread waits in a read of prot_error: only then le_dlock comes, when the
\* confirmation it waits for has arrived.
Reading == \E t \in Threads : pc[t] \in {"answer", "drain", "fifo"}

\* The failed request belongs to the call under way, if there is one.
Blame(what) == fault' = IF sem_hw = Nobody \/ fault = "yes" THEN fault ELSE what

\* The answer to the oldest request.
Confirm ==
    /\ link /\ balance > 0
    /\ balance' = balance - 1
    /\ \E ok, dlock \in BOOLEAN :
         /\ dlock => balance = 1 /\ Reading /\ prot_error = "none"
         /\ prot_error' = CASE prot_error # "none" -> prot_error
                            [] dlock -> IF ok THEN "le_dlock" ELSE "le_dlock_re"
                            [] OTHER -> IF ok THEN "none" ELSE "re"
         /\ latched' = latched \cup (IF balance = 1 THEN {"end"} ELSE {})
                                \cup (IF ok THEN {} ELSE {"l_err"})
         /\ IF ok THEN UNCHANGED fault ELSE Blame(IF dlock THEN "hidden" ELSE "yes")
         /\ words' = IF ok /\ sem_hw # Nobody THEN words + 1 ELSE words
    /\ UNCHANGED <<link, plx0, d0_bc, enabled, got_irqs, remote_hw, sem_hw, pc, op,
                   dirty, losses>>

\* No answer: the timer of the card gives up; the requests stay counted.
Timeout ==
    /\ balance > 0 /\ prot_error = "none" /\ (Timeouts \/ ~link)
    /\ prot_error' = "le_to"
    /\ latched' = latched \cup {"l_err"}
    /\ Blame("yes")
    /\ UNCHANGED <<link, balance, plx0, d0_bc, enabled, got_irqs, remote_hw,
                   sem_hw, pc, op, words, dirty, losses>>

Transferring == {t \in Threads : sem_hw = t /\ op[t].kind \in Dma}
Size == IF Transferring = {} THEN 0 ELSE op[CHOOSE t \in Transferring : TRUE].size
DmaMove ==
    /\ plx0 = "running" /\ d0_bc < Size
    /\ d0_bc' = d0_bc + 1 /\ words' = words + 1
    /\ UNCHANGED <<link, balance, prot_error, plx0, latched, enabled, got_irqs,
                   remote_hw, sem_hw, pc, op, fault, dirty, losses>>

\* The end of the DMA; a front end may end a read before all words have come.
DmaEnd ==
    /\ plx0 = "running"
    /\ \E t \in Transferring :
         /\ pc[t] = "wait"
         /\ op[t].kind = "wdma" => d0_bc = Size
         /\ latched' = latched \cup (IF op[t].kind = "rdma" THEN {"dma0"} ELSE {"end"})
    /\ plx0' = "idle"
    /\ UNCHANGED <<link, balance, prot_error, d0_bc, enabled, got_irqs,
                   remote_hw, sem_hw, pc, op, words, fault, dirty, losses>>

\* An error ends the transfer; the engine may or may not notice.
DmaFail ==
    /\ plx0 = "running" /\ Transferring # {}
    /\ prot_error' \in IF prot_error = "none" THEN {"re", "le_to"} ELSE {prot_error}
    /\ plx0' \in {"idle", "stuck"}
    /\ latched' = latched \cup {"l_err"}
    /\ Blame("yes")
    /\ UNCHANGED <<link, balance, d0_bc, enabled, got_irqs, remote_hw, sem_hw,
                   pc, op, words, dirty, losses>>

LinkChange ==
    /\ ~link \/ losses < MaxLosses
    /\ link' = ~link
    /\ losses' = losses + (IF link THEN 1 ELSE 0)
    /\ latched' = latched \cup {"sync"}
    /\ plx0' = IF plx0 = "running" THEN "stuck" ELSE plx0
    /\ UNCHANGED <<balance, prot_error, d0_bc, enabled, got_irqs,
                   remote_hw, sem_hw, pc, op, words, fault, dirty>>

-----------------------------------------------------------------------------
(* The interrupt handler and what follows a change of the link. *)

\* got_irqs and d0_bc are cleared by each call before it looks at them; what
\* they hold outside the calls is left out.
\* All latched causes are recorded once one enabled cause has raised the
\* interrupt; a change of the link switches the interrupts of transfers off.
Interrupt ==
    /\ latched \cap enabled # {}
    /\ LET local == IF latched \cap enabled \cap Local # {} THEN latched \cap Local ELSE {}
           dma   == latched \cap enabled \cap {"dma0"}
       IN  /\ got_irqs' = IF sem_hw = Nobody THEN {} ELSE got_irqs \cup local \cup dma
           /\ latched' = latched \ local
           /\ enabled' = enabled \ (dma \cup IF "sync" \in local THEN Local ELSE {})
           /\ remote_hw' = (remote_hw /\ ("sync" \in local => link))
    /\ pc' = [t \in Threads |-> IF pc[t] = "sleep" THEN "check" ELSE pc[t]]
    /\ UNCHANGED <<link, balance, prot_error, plx0, d0_bc, sem_hw, op, words,
                   fault, dirty, losses>>

\* One second later the irq thread listens to the link again...
SynchHandler ==
    /\ "sync" \notin enabled
    /\ Enable({"sync", "l_err"})
    /\ UNCHANGED <<link, balance, prot_error, plx0, d0_bc, got_irqs, remote_hw,
                   sem_hw, pc, op, words, fault, dirty, losses>>

\* ... and initialises the front end it finds, alone with the hardware.
InitRemote ==
    /\ link /\ ~remote_hw /\ "sync" \in enabled /\ sem_hw = Nobody
    /\ remote_hw' = TRUE
    /\ balance' = 0 /\ prot_error' = "none"
    /\ dirty' = (plx0 # "idle")
    /\ UNCHANGED <<link, plx0, d0_bc, latched, enabled, got_irqs, sem_hw, pc,
                   op, words, fault, losses>>

-----------------------------------------------------------------------------
Step(t) ==
    \/ Call(t) \/ Lock(t) \/ Send(t) \/ Single(t) \/ ReadWord(t) \/ Room(t)
    \/ RoomError(t) \/ Balance(t) \/ Drain(t) \/ PipeOut(t) \/ PipeOutEnd(t)
    \/ PipeIn(t) \/ PipeListen(t) \/ PipeCheck(t) \/ PipeInterrupted(t) \/ PipeCollect(t)
    \/ Prepare(t) \/ DmaClear(t) \/ DmaEnable(t) \/ DmaStart(t)
    \/ DmaWoken(t) \/ DmaKilled(t) \/ CollectRead(t) \/ FinishRead(t) \/ CopyOops(t)
    \/ CollectWrite(t)
    \/ Unlock(t)

Next ==
    \/ \E t \in Threads : Step(t)
    \/ Confirm \/ Timeout \/ DmaMove \/ DmaEnd \/ DmaFail \/ LinkChange
    \/ Interrupt \/ SynchHandler \/ InitRemote
    \/ Halted

Spec == Init /\ [][Next]_vars

\* The card answers or gives up, the DMA moves on while there is a link, and
\* the interrupt is delivered.
Fairness ==
    /\ \A t \in Threads : WF_vars(DmaWoken(t))
    /\ WF_vars(Interrupt)
    /\ WF_vars(DmaMove) /\ WF_vars(DmaEnd \/ DmaFail)

FairSpec == Spec /\ Fairness

-----------------------------------------------------------------------------
(* Properties *)

Places == {"idle", "lock", "send", "answer", "room", "fifo", "balance", "drain", "listen",
           "check", "sleep", "collect", "prepare", "clear", "enable", "start", "wait",
           "finish", "leave", "oops"}

SizeT == 0..(SizeLimit - 1)
Verdicts == Errors \cup {"none", "e_dlock", "aborted"}
Results == {"ok", "EIO", "EFAULT", "signal"}
OpType == [kind : Kinds, n : 0..MaxWords, left : SizeT, count : Nat, size : Nat, seen : Nat,
           error : Verdicts, res : Results, aborted : BOOLEAN]

TypeOK ==
    /\ link \in BOOLEAN /\ balance \in Nat
    /\ prot_error \in Errors \cup {"none"}
    /\ plx0 \in {"idle", "running", "stuck"} /\ d0_bc \in Nat
    /\ latched \subseteq Sources /\ enabled \subseteq Sources /\ got_irqs \subseteq Sources
    /\ remote_hw \in BOOLEAN /\ sem_hw \in Threads \cup {Nobody}
    /\ pc \in [Threads -> Places]
    /\ op \in [Threads -> OpType]
    /\ words \in Nat /\ fault \in {"no", "yes", "hidden"} /\ dirty \in BOOLEAN
    /\ losses \in Nat

\* Whoever takes sem_hw finds the hardware as it must be for a transfer of its
\* own: no request of an earlier call is open, no error of an earlier call is
\* left in prot_error, the DMA channel is idle; unless a call was cut off.
Settled ==
    sem_hw = Nobody /\ ~dirty => balance = 0 /\ prot_error = "none" /\ plx0 = "idle"

Ends(t) == sem_hw = t /\ pc[t] = "leave" /\ ~dirty
Whole(t) == op[t].error = "none" /\ op[t].res = "ok" /\ ~op[t].aborted

\* The error confirmation that a single access overlooks after le_dlock.
Overlooked(t) == op[t].kind = "single" /\ fault = "hidden"

\* A call that reports success has moved the words it reports, all of them, and
\* one that reports an error does not claim more than were moved.  Not so for
\* read_pipe_seq, for transfers by DMA that lost the link, and for single
\* accesses after le_dlock.
Counted ==
    \A t \in Threads :
       Ends(t) /\ op[t].kind \notin {"rpipe", "blind"} /\ ~op[t].aborted /\ ~Overlooked(t)
          => /\ op[t].count <= words
             /\ Whole(t) => op[t].count = words \/ op[t].kind = "wpipe"

\* A transfer that had a failed request says so, and blames only its own
\* requests: errors do not leak into the next call.  Not so for what the loops
\* return as they read it: e_dlock, which wait_for_fifo takes for an error
\* whether a request has failed or not, and le_dlock.
ErrorTold ==
    \A t \in Threads :
       Ends(t) /\ op[t].kind \notin {"rpipe", "blind"} /\ op[t].error \notin Transient
               /\ op[t].res = "ok" /\ ~op[t].aborted /\ ~Overlooked(t)
          => (op[t].error # "none" <=> fault # "no")

\* A read by DMA ends, whatever happens to the link.
ReadEnds ==
    \A t \in Threads : At(t, "wait", {"rdma"}) ~> ~At(t, "wait", {"rdma"})

\* Who waits for the end of a DMA hears of it: the interrupts it needs are
\* enabled, or one of them has come.
Listening ==
    \A t \in Threads :
       At(t, "wait", Dma) /\ got_irqs \cap Wanted(t) = {} => {"l_err", "sync"} \subseteq enabled
=============================================================================
