------------------------------ MODULE LinkSync ------------------------------
(***************************************************************************)
(* How the sis1100 driver follows its optical link.  A change of the link   *)
(* raises irq_synch_chg; the interrupt handler disables this interrupt and  *)
(* starts a timer; one second later the irq thread enables it again, looks  *)
(* at the link and, if it is up, initialises the front end behind it.      *)
(* remote_hw is what the driver believes to be connected; processes are     *)
(* told of its changes by signals, by irq_wait and by irq_get.             *)
(* Modelled are the branch of sis1100_intr() for irq_synch_chg, the timer,  *)
(* sis1100_irq_thread() as far as the link is concerned,                   *)
(* sis1100_synch_handler(), sis1100_init_remote() with its three callers    *)
(* (thread, probe and ioctl), and the DMA transfers as far as they touch    *)
(* irq_synch_chg.                                                          *)
(***************************************************************************)
EXTENDS Naturals

CONSTANTS
    Files,         \* files that may be opened
    Remotes,       \* front ends that may be at the other end of the link
    Supported,     \* those the driver can initialise
    NoHw,          \* sis1100_hw_invalid
    MaxChanges,    \* bound: changes of the link
    Smp,           \* do processes run beside the interrupt handler?
    Glitches,      \* can the link change again before the handler reads it?
    DropsInInit,   \* can the link go down while a front end is initialised?
    Transfers,     \* are there DMA transfers?
    InitCanFail    \* can the initialisation fail although the link is up?

ASSUME RemotesAssumption ==
    /\ Remotes # {}
    /\ Supported \subseteq Remotes
    /\ NoHw \notin Remotes

ASSUME EnvironmentAssumption ==
    /\ MaxChanges \in Nat
    /\ Smp \in BOOLEAN
    /\ Glitches \in BOOLEAN
    /\ DropsInInit \in BOOLEAN
    /\ Transfers \in BOOLEAN
    /\ InitCanFail \in BOOLEAN

VARIABLES
    link,           \* sr_synch in sr: "up" or "down"
    remote,         \* the front end at the other end
    chg,            \* irq_synch_chg in sr: latched
    chg_on,         \* irq_synch_chg in cr: enabled
    isr,            \* interrupt handler: "idle", or the link status it read
    timer,          \* sc->link_up_timer is pending
    command,        \* sc->handlercommand.command
    irq_thread,     \* irq thread: where it is
    caller,         \* probe or ioctl: where it is
    xfer,           \* DMA transfer: where it is
    sem_hw,         \* who holds sc->sem_hw
    stage,          \* the holder's place in sis1100_init_remote()
    typ,            \* the holder's variable typ
    remote_hw,      \* sc->remote_hw
    file,           \* the state of each file and of the process that uses it
    old_remote_hw,  \* fd->old_remote_hw
    sig,            \* fd->sig: the process wants a signal
    signalled,      \* history: a signal was sent since the last irq_get
    changes         \* number of changes of the link

hardware == <<link, remote, chg, chg_on, changes>>
delay    == <<isr, timer, command>>
init     == <<sem_hw, stage, typ>>
fdata    == <<file, old_remote_hw, sig, signalled>>
vars == <<hardware, delay, irq_thread, caller, xfer, init, remote_hw, fdata>>

-----------------------------------------------------------------------------
(* The probe has enabled the interrupts and is about to initialise the      *)
(* remote side; the device files exist only after that.                    *)
Init ==
    /\ link \in {"up", "down"}
    /\ remote \in Remotes
    /\ chg = FALSE
    /\ chg_on = TRUE
    /\ isr = "idle"
    /\ timer = FALSE
    /\ command = {}
    /\ irq_thread = "idle"
    /\ caller = "probe"
    /\ xfer = "idle"
    /\ sem_hw = "free"
    /\ stage = "none"
    /\ typ = NoHw
    /\ remote_hw = NoHw
    /\ file = [f \in Files |-> "closed"]
    /\ old_remote_hw = [f \in Files |-> NoHw]
    /\ sig = [f \in Files |-> FALSE]
    /\ signalled = [f \in Files |-> FALSE]
    /\ changes = 0

-----------------------------------------------------------------------------
(* The link *)

\* A change that the interrupt handler has not begun to handle.
Unnoticed == chg /\ chg_on

LinkChange ==
    /\ changes < MaxChanges
    /\ ~Glitches => ~Unnoticed /\ isr = "idle"
    /\ ~DropsInInit => stage = "none"
    /\ link' = IF link = "up" THEN "down" ELSE "up"
    /\ remote' \in IF link = "up" THEN {remote} ELSE Remotes
    /\ chg' = TRUE
    /\ changes' = changes + 1
    /\ UNCHANGED <<chg_on, delay, irq_thread, caller, xfer, init, remote_hw,
                   fdata>>

-----------------------------------------------------------------------------
(* sis1100_intr(), the branch for irq_synch_chg, and the timer *)

\* Read sr, disable irq_synch_chg.  Only an enabled irq_synch_chg raises an
\* interrupt, but the handler looks at it whatever interrupt it was called for.
IsrRead ==
    /\ isr = "idle"
    /\ chg
    /\ isr' = link
    /\ chg_on' = FALSE
    /\ UNCHANGED <<link, remote, chg, changes, timer, command, irq_thread,
                   caller, xfer, init, remote_hw, fdata>>

\* Mutation: the timer is started only if the link is up.
IsrActTimerUp ==
    /\ isr # "idle"
    /\ isr' = "idle"
    /\ timer' = (timer \/ isr = "up")
    /\ chg' = FALSE
    /\ IF isr = "down"
       THEN remote_hw' = NoHw /\ command' = command \union {"down"}
       ELSE UNCHANGED <<remote_hw, command>>
    /\ UNCHANGED <<link, remote, chg_on, changes, irq_thread, caller, xfer,
                   init, fdata>>

\* Start the timer; if the link was down forget the remote side and tell the
\* irq thread; write the status back, which clears what was latched.
IsrAct ==
    /\ isr # "idle"
    /\ isr' = "idle"
    /\ timer' = TRUE
    /\ chg' = FALSE
    /\ IF isr = "down"
       THEN remote_hw' = NoHw /\ command' = command \union {"down"}
       ELSE UNCHANGED <<remote_hw, command>>
    /\ UNCHANGED <<link, remote, chg_on, changes, irq_thread, caller, xfer,
                   init, fdata>>

\* sis1100_link_up_handler(), one second after the last change.
TimerFires ==
    /\ timer
    /\ timer' = FALSE
    /\ command' = command \union {"up"}
    /\ UNCHANGED <<hardware, isr, irq_thread, caller, xfer, init, remote_hw,
                   fdata>>

-----------------------------------------------------------------------------
(* sis1100_irq_thread() and sis1100_synch_handler(); sem_irqinfo is held     *)
(* from "enable" to the end of the initialisation                           *)

\* Mutation: the end of the delay is forgotten if the link went down as well.
ThreadFetchDown ==
    /\ irq_thread = "idle"
    /\ command # {}
    /\ irq_thread' = IF "down" \in command THEN "notify" ELSE "enable"
    /\ command' = {}
    /\ UNCHANGED <<hardware, isr, timer, caller, xfer, init, remote_hw, fdata>>

ThreadFetch ==
    /\ irq_thread = "idle"
    /\ command # {}
    /\ irq_thread' = IF "up" \in command THEN "enable" ELSE "notify"
    /\ command' = {}
    /\ UNCHANGED <<hardware, isr, timer, caller, xfer, init, remote_hw, fdata>>

\* sis1100_enable_irq(): clears what is latched and enables.
EnableChg ==
    /\ chg' = FALSE
    /\ chg_on' = TRUE

SynchEnable ==
    /\ irq_thread = "enable"
    /\ EnableChg
    /\ irq_thread' = "look"
    /\ UNCHANGED <<link, remote, changes, delay, caller, xfer, init,
                   remote_hw, fdata>>

\* Only a link that is up is acted upon.
SynchLook ==
    /\ irq_thread = "look"
    /\ irq_thread' = IF link = "up" THEN "init" ELSE "notify"
    /\ UNCHANGED <<hardware, delay, caller, xfer, init, remote_hw, fdata>>

\* Mutation: only processes that wait for signals are woken.
ThreadNotifySignal ==
    /\ irq_thread = "notify"
    /\ signalled' = [f \in Files |->
            \/ signalled[f]
            \/ file[f] # "closed" /\ sig[f] /\ old_remote_hw[f] # remote_hw]
    /\ file' = [f \in Files |-> IF file[f] = "asleep" /\ sig[f] THEN "look"
                                ELSE file[f]]
    /\ irq_thread' = "idle"
    /\ UNCHANGED <<hardware, delay, caller, xfer, init, remote_hw,
                   old_remote_hw, sig>>

\* Signals to those who asked for them, then wake all sleepers.
ThreadNotify ==
    /\ irq_thread = "notify"
    /\ signalled' = [f \in Files |->
            \/ signalled[f]
            \/ file[f] # "closed" /\ sig[f] /\ old_remote_hw[f] # remote_hw]
    /\ file' = [f \in Files |-> IF file[f] = "asleep" THEN "look" ELSE file[f]]
    /\ irq_thread' = "idle"
    /\ UNCHANGED <<hardware, delay, caller, xfer, init, remote_hw,
                   old_remote_hw, sig>>

-----------------------------------------------------------------------------
(* sis1100_init_remote() *)

\* An ioctl asks for a reset of the remote side.
ResetCall ==
    /\ caller = "idle"
    /\ \E f \in Files : file[f] = "idle"
    /\ caller' = "reset"
    /\ UNCHANGED <<hardware, delay, irq_thread, xfer, init, remote_hw, fdata>>

\* Wants(p): process p is on its way into sis1100_init_remote().
Wants(p) ==
    \/ p = "thread" /\ irq_thread = "init"
    \/ p = "caller" /\ caller \in {"probe", "reset"}

InitLock(p) ==
    /\ Wants(p)
    /\ sem_hw = "free"
    /\ sem_hw' = p
    /\ stage' = "ident"
    /\ UNCHANGED <<hardware, delay, irq_thread, caller, xfer, typ, remote_hw,
                   fdata>>

\* Unlock sem_hw and return to the caller.
InitReturn ==
    /\ sem_hw' = "free"
    /\ stage' = "none"
    /\ typ' = NoHw
    /\ irq_thread' = IF sem_hw = "thread" THEN "notify" ELSE irq_thread
    /\ caller' = IF sem_hw = "caller" THEN "idle" ELSE caller

\* The identification of the remote side has been read.
InitIdent ==
    /\ stage = "ident"
    /\ link = "up"
    /\ typ' = remote
    /\ stage' = "setup"
    /\ UNCHANGED <<hardware, delay, irq_thread, caller, xfer, sem_hw,
                   remote_hw, fdata>>

\* Mutation: what is not supported is accepted.
InitSetupAny ==
    /\ stage = "setup"
    /\ stage' = "set"
    /\ UNCHANGED <<hardware, delay, irq_thread, caller, xfer, sem_hw, typ,
                   remote_hw, fdata>>

\* The *_rem_init() of this front end.  They do not check every access, and
\* may succeed although the link is down.
InitSetup ==
    /\ stage = "setup"
    /\ typ \in Supported
    /\ stage' = "set"
    /\ UNCHANGED <<hardware, delay, irq_thread, caller, xfer, sem_hw, typ,
                   remote_hw, fdata>>

\* No link, no answer, or a front end that is not supported.
InitFail ==
    /\ stage \in {"ident", "setup"}
    /\ \/ link = "down"
       \/ stage = "setup" /\ typ \notin Supported
       \/ InitCanFail
    /\ InitReturn
    /\ UNCHANGED <<hardware, delay, xfer, remote_hw, fdata>>

\* Mutation: a front end that is known is not replaced.
InitSetOnce ==
    /\ stage = "set"
    /\ remote_hw' = IF remote_hw = NoHw THEN typ ELSE remote_hw
    /\ InitReturn
    /\ UNCHANGED <<hardware, delay, xfer, fdata>>

InitSet ==
    /\ stage = "set"
    /\ remote_hw' = typ
    /\ InitReturn
    /\ UNCHANGED <<hardware, delay, xfer, fdata>>

-----------------------------------------------------------------------------
(* A DMA transfer: it checks remote_hw, waits for sem_hw and enables         *)
(* irq_synch_chg                                                           *)

XferCall ==
    /\ Transfers
    /\ xfer = "idle"
    /\ \E f \in Files : file[f] = "idle"
    /\ remote_hw # NoHw
    /\ xfer' = "call"
    /\ UNCHANGED <<hardware, delay, irq_thread, caller, init, remote_hw,
                   fdata>>

XferStart ==
    /\ xfer = "call"
    /\ sem_hw = "free"
    /\ sem_hw' = "xfer"
    /\ xfer' = "run"
    /\ EnableChg
    /\ UNCHANGED <<link, remote, changes, delay, irq_thread, caller, stage,
                   typ, remote_hw, fdata>>

XferEnd ==
    /\ xfer = "run"
    /\ xfer' = "idle"
    /\ sem_hw' = "free"
    /\ UNCHANGED <<hardware, delay, irq_thread, caller, stage, typ, remote_hw,
                   fdata>>

-----------------------------------------------------------------------------
(* The processes: open, irq_ctl, irq_wait, irq_get, release *)

\* The driver is at the user's disposal when the probe has ended.
Probed == caller # "probe"

SemIrqinfoFree == irq_thread \in {"idle", "notify"}

Open(f) ==
    /\ Probed
    /\ file[f] = "closed"
    /\ file' = [file EXCEPT ![f] = "idle"]
    /\ old_remote_hw' = [old_remote_hw EXCEPT ![f] = remote_hw]
    /\ sig' = [sig EXCEPT ![f] = FALSE]
    /\ signalled' = [signalled EXCEPT ![f] = FALSE]
    /\ UNCHANGED <<hardware, delay, irq_thread, caller, xfer, init, remote_hw>>

\* sis1100_release(): the last call of this file has returned.
Release(f) ==
    /\ file[f] = "idle"
    /\ xfer = "idle" /\ caller = "idle"
    /\ file' = [file EXCEPT ![f] = "closed"]
    /\ UNCHANGED <<hardware, delay, irq_thread, caller, xfer, init, remote_hw,
                   old_remote_hw, sig, signalled>>

\* Ask for a signal; sem_irqinfo has already been released.
IrqCtl(f) ==
    /\ file[f] = "idle"
    /\ sig' = [sig EXCEPT ![f] = TRUE]
    /\ old_remote_hw' = [old_remote_hw EXCEPT ![f] = remote_hw]
    /\ signalled' = [signalled EXCEPT ![f] = FALSE]
    /\ UNCHANGED <<hardware, delay, irq_thread, caller, xfer, init, remote_hw,
                   file>>

\* wait_event_interruptible(remoteirq_wait, irq_pending(...))
IrqWait(f) ==
    /\ file[f] \in {"idle", "look"}
    /\ file' = [file EXCEPT ![f] = IF old_remote_hw[f] # remote_hw THEN "get"
                                   ELSE "asleep"]
    /\ UNCHANGED <<hardware, delay, irq_thread, caller, xfer, init, remote_hw,
                   old_remote_hw, sig, signalled>>

\* remote_status is reported.
IrqGet(f) ==
    /\ file[f] \in {"idle", "get"}
    /\ SemIrqinfoFree
    /\ file' = [file EXCEPT ![f] = "idle"]
    /\ old_remote_hw' = [old_remote_hw EXCEPT ![f] = remote_hw]
    /\ signalled' = [signalled EXCEPT ![f] = FALSE]
    /\ UNCHANGED <<hardware, delay, irq_thread, caller, xfer, init, remote_hw,
                   sig>>

\* EINTR
Interrupted(f) ==
    /\ file[f] = "asleep"
    /\ file' = [file EXCEPT ![f] = "idle"]
    /\ UNCHANGED <<hardware, delay, irq_thread, caller, xfer, init, remote_hw,
                   old_remote_hw, sig, signalled>>

-----------------------------------------------------------------------------
\* On a single processor the interrupt handler comes before all others.
Runs == Smp \/ (~Unnoticed /\ isr = "idle")

IsrStep    == IsrRead \/ IsrAct
IsrDue     == (chg_on /\ IsrRead) \/ IsrAct
TimerStep  == Runs /\ TimerFires
ThreadStep == Runs /\ (ThreadFetch \/ SynchEnable \/ SynchLook \/ ThreadNotify)
LockStep(p) == Runs /\ InitLock(p)
InitStep   == Runs /\ (InitIdent \/ InitSetup \/ InitFail \/ InitSet)
XferStep   == Runs /\ (XferCall \/ XferStart)
XferDone   == Runs /\ XferEnd

\* A call that has begun goes on.
CallStep(f) == Runs /\ file[f] # "idle" /\ (IrqWait(f) \/ IrqGet(f))

UserStep(f) ==
    /\ Runs
    /\ \/ Open(f) \/ Release(f) \/ IrqCtl(f)
       \/ IrqWait(f) \/ IrqGet(f) \/ Interrupted(f)

Next ==
    \/ LinkChange
    \/ IsrStep \/ TimerStep \/ ThreadStep
    \/ \E p \in {"thread", "caller"} : LockStep(p)
    \/ InitStep
    \/ Runs /\ ResetCall
    \/ XferStep \/ XferDone
    \/ \E f \in Files : UserStep(f)

\* Interrupts are delivered, the timer expires, the thread and every call that
\* is not asleep run on, transfers end, and sem_hw is not withheld for ever
\* from one who waits for it.
Fairness ==
    /\ WF_vars(IsrDue)
    /\ WF_vars(TimerStep)
    /\ WF_vars(ThreadStep)
    /\ WF_vars(InitStep)
    /\ WF_vars(XferDone)
    /\ SF_vars(LockStep("thread"))
    /\ SF_vars(LockStep("caller"))
    /\ \A f \in Files : WF_vars(CallStep(f))

Spec == Init /\ [][Next]_vars
FairSpec == Spec /\ Fairness

-----------------------------------------------------------------------------
(* Properties *)

HardwareType ==
    /\ link \in {"up", "down"}
    /\ remote \in Remotes
    /\ chg \in BOOLEAN
    /\ chg_on \in BOOLEAN
    /\ changes \in 0..MaxChanges

DelayType ==
    /\ isr \in {"idle", "up", "down"}
    /\ timer \in BOOLEAN
    /\ command \subseteq {"up", "down"}

ProcessType ==
    /\ irq_thread \in {"idle", "enable", "look", "init", "notify"}
    /\ caller \in {"idle", "probe", "reset"}
    /\ xfer \in {"idle", "call", "run"}

InitType ==
    /\ sem_hw \in {"free", "thread", "caller", "xfer"}
    /\ stage \in {"none", "ident", "setup", "set"}
    /\ typ \in Remotes \union {NoHw}
    /\ remote_hw \in Supported \union {NoHw}

FileType ==
    /\ file \in [Files -> {"closed", "idle", "asleep", "look", "get"}]
    /\ old_remote_hw \in [Files -> Supported \union {NoHw}]
    /\ sig \in [Files -> BOOLEAN]
    /\ signalled \in [Files -> BOOLEAN]

\* Every variable has its type; remote_hw is only ever a front end that the
\* driver has initialised.
TypeOK == HardwareType /\ DelayType /\ ProcessType /\ InitType /\ FileType

\* Somebody is on the way to enable irq_synch_chg.
Coming ==
    isr # "idle" \/ timer \/ "up" \in command \/ irq_thread = "enable"

\* While irq_synch_chg is disabled the handler, the timer or the irq thread is
\* on its way to enable it: the link is never left unwatched.
Watched == ~chg_on => Coming

\* All that a change of the link sets going has come to its end.
Settled ==
    /\ chg_on /\ ~chg
    /\ ~Coming
    /\ command = {}
    /\ irq_thread \in {"idle", "notify"}
    /\ stage = "none" /\ caller = "idle"

\* When all has settled and a supported front end is connected, the driver
\* knows it: no link that came up is missed, however often it went up and down.
UpIsKnown ==
    Settled /\ link = "up" /\ remote \in Supported => remote_hw = remote

\* When all has settled and the link is down, the driver knows that too.
DownIsKnown == Settled /\ link = "down" => remote_hw = NoHw

\* The change has been noticed, or will be: what follows ends in a new look at
\* the link.
Chain ==
    \/ Unnoticed
    \/ Coming
    \/ irq_thread = "look"

\* What the holder of sem_hw has identified is what is connected.
Identified == stage \in {"setup", "set"} => typ = remote

\* sem_hw and the place in sis1100_init_remote() belong together.
HolderOK ==
    /\ stage # "none" <=> sem_hw \in {"thread", "caller"}
    /\ sem_hw = "thread" => irq_thread = "init"
    /\ sem_hw = "caller" => caller # "idle"
    /\ sem_hw = "xfer" <=> xfer = "run"
    /\ stage = "set" => typ \in Supported
    /\ xfer # "idle" => Transfers

\* A link that is up is still to be looked at, or is being initialised, or the
\* driver knows what is behind it and nobody is about to forget it.
UpChain ==
    link = "up" =>
        \/ Chain
        \/ irq_thread = "init" /\ (sem_hw = "thread" => Identified)
        \/ caller = "probe" /\ (sem_hw = "caller" => Identified)
        \/ (remote \in Supported => remote_hw = remote) /\ Identified

\* The inductive invariant: the types, that a disabled irq_synch_chg will be
\* enabled, that sem_hw belongs to the one in sis1100_init_remote(), and that
\* no link that came up is missed.
IInv == TypeOK /\ Watched /\ HolderOK /\ UpChain

\* Who sleeps in irq_wait while the remote side is not what it was when the
\* process last asked wakes up.
Stale(f) == old_remote_hw[f] # remote_hw
SleeperWakes ==
    \A f \in Files :
        (file[f] = "asleep" /\ Stale(f)) ~> ~(file[f] = "asleep" /\ Stale(f))

\* Who asked for signals gets one when the remote side has changed and stays
\* changed.
Unsignalled(f) == file[f] # "closed" /\ sig[f] /\ Stale(f) /\ ~signalled[f]
SignalSent == \A f \in Files : Unsignalled(f) ~> ~Unsignalled(f)

=============================================================================
