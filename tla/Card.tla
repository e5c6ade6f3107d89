-------------------------------- MODULE Card --------------------------------
(***************************************************************************)
(* The life of a card: loading the module, init_sis1100_device() with its  *)
(* error paths, done_sis1100_device() and unloading, together with         *)
(* everything that may run meanwhile: the interrupt handler and the timer  *)
(* it arms when the link changes, the kernel thread, and user calls (Ioctl)*)
(* on files that are open.                                                 *)
(*                                                                         *)
(* The kernel does not unload the module while one of its files is open    *)
(* (owner = THIS_MODULE), but it takes a card away from the driver whether *)
(* its files are open or not: when the card disappears, or its driver is   *)
(* unbound.  A step that touches memory or registers which are gone ends   *)
(* the behaviour in an oops, named for who took the step.  A card that has *)
(* been taken away does not come back before the module is loaded again.   *)
(***************************************************************************)
EXTENDS Ioctl, Sequences, FiniteSets

CONSTANTS
    MaxLoads,       \* bound: how often the module is loaded
    MaxLinkChanges  \* bound: changes of the link

ASSUME BoundsAssumption == MaxLoads \in Nat /\ MaxLinkChanges \in Nat

VARIABLES
    stage,       \* "unloaded", "starting", "loaded" (without a device),
                 \* "bound", "undo" (a failed start), "remove", "unloading"
    step,        \* index of the step of the start that is next
    failed,      \* the step that failed, or "none"
    todo,        \* what is still to be released, in this order
    held,        \* what has been acquired and not been released
    thread,      \* the kernel thread: "none", "new", "loop" (before it
                 \* prepares to sleep), "asleep", "awake", "busy", "done"
    stop,        \* what the thread was when kthread_stop() was called, or "no"
    command,     \* sc->handlercommand.command
    link_up_timer, \* the timer is armed
    link,        \* the link is synchronised
    synch_chg,   \* the interrupt is latched in sr
    enabled,     \* the interrupt irq_synch_chg is enabled in cr
    oops,        \* who has touched what was gone, or "none"
    loads, linkChanges

start == <<stage, step, failed, todo, held, loads>>
kthread == <<thread, stop, command>>
line == <<link, synch_chg, enabled, linkChanges>>
vars == <<ioctlVars, start, kthread, line, link_up_timer, oops>>

-----------------------------------------------------------------------------
(* The steps of the start and what undoes them. *)

LoadSteps == <<"class", "version", "chrdev", "driver">>
ProbeSteps == <<"sc", "thread", "enable", "regions", "plx", "regs", "irq",
                "dma_mask", "dmaspace", "init", "cdev", "devices">>
Steps == LoadSteps \o ProbeSteps
Resources == {Steps[i] : i \in DOMAIN Steps} \ {"dma_mask"}

\* The chains of error labels, and for each step the label it jumps to.
LoadUndo == <<"chrdev", "version", "class">>
ProbeUndo == <<"cdev", "init", "dmaspace", "irq", "maps", "regions", "enable", "thread", "sc">>
LoadLabel == [class |-> 4, version |-> 3, chrdev |-> 2, driver |-> 1]
ProbeLabel == [sc |-> 10, thread |-> 9, enable |-> 8, regions |-> 7, plx |-> 5,
               regs |-> 5, irq |-> 5, dma_mask |-> 4, dmaspace |-> 4, init |-> 3,
               cdev |-> 2, devices |-> 1]
\* init_sis1100_device() with the label of pci_request_regions() one too far.
ProbeLabelLate == [ProbeLabel EXCEPT !["regions"] = 8]
UndoLate(s) ==
    IF s \in DOMAIN LoadLabel THEN SubSeq(LoadUndo, LoadLabel[s], Len(LoadUndo))
    ELSE SubSeq(ProbeUndo, ProbeLabelLate[s], Len(ProbeUndo))
Undo(s) ==
    IF s \in DOMAIN LoadLabel THEN SubSeq(LoadUndo, LoadLabel[s], Len(LoadUndo))
    ELSE SubSeq(ProbeUndo, ProbeLabel[s], Len(ProbeUndo))
RemoveOrderNoTimer == <<"devices", "cdev", "init", "dmaspace", "irq", "maps",
                        "regions", "enable", "thread", "sc">>
RemoveOrder == <<"devices", "cdev", "init", "dmaspace", "irq", "timer", "maps",
                 "regions", "enable", "thread", "sc">>
UnloadOrder == <<"driver", "chrdev", "version", "class">>

Mapped == {"sc", "plx", "regs"} \subseteq held
NoFileOpen == \A f \in Files : ~IsOpen(f)

Init ==
    /\ IoctlInit
    /\ stage = "unloaded" /\ step = 1 /\ failed = "none" /\ todo = <<>> /\ held = {}
    /\ thread = "none" /\ stop = "no" /\ command = {}
    /\ link_up_timer = FALSE
    /\ link \in BOOLEAN /\ synch_chg = FALSE /\ enabled = FALSE
    /\ oops = "none"
    /\ loads = 0 /\ linkChanges = 0

-----------------------------------------------------------------------------
(* modprobe: init_sis1100_module() and init_sis1100_device(). *)

\* The timer runs out before somebody loads the module again.
Load ==
    /\ stage = "unloaded" /\ loads < MaxLoads /\ ~link_up_timer
    /\ stage' = "starting" /\ step' = 1 /\ failed' = "none" /\ loads' = loads + 1
    /\ UNCHANGED <<ioctlVars, todo, held, kthread, line, link_up_timer, oops>>

Advance(acquired) ==
    /\ held' = held \cup (acquired \cap Resources)
    /\ step' = IF step = Len(Steps) THEN 1 ELSE step + 1
    /\ stage' = IF step = Len(Steps) THEN "bound" ELSE stage
    /\ UNCHANGED <<failed, todo, loads>>

\* A device node that an earlier start has left behind cannot be created.
Startable(s) == stage = "starting" /\ Steps[step] = s /\ at[Prober] = "idle"

Acquire(s) ==
    /\ Startable(s) /\ s \notin {"thread", "init"}
    /\ s \notin held
    /\ Advance({s})
    /\ UNCHANGED <<ioctlVars, kthread, line, link_up_timer, oops>>

\* kthread_create() and wake_up_process()
CreateThread ==
    /\ Startable("thread")
    /\ Advance({"thread"})
    /\ thread' = "new" /\ command' = {}
    /\ UNCHANGED <<ioctlVars, stop, line, link_up_timer, oops>>

\* sis1100_init(): only cr is told to swap, and BIGEND holds what the reset of
\* the bridge has left in it; then the interrupts are enabled and the front
\* end is initialised.
InitCard ==
    /\ Startable("init")
    /\ Advance({"init"})
    /\ user_wants_swap' = 0 /\ remote_endian' = TRUE
    /\ cr_swap' = "on" /\ bigend' \in {"on", "off"}
    /\ remote_hw' = "invalid" /\ remote_ident' = "invalid"
    /\ enabled' = TRUE /\ synch_chg' = FALSE
    /\ Goto(Prober, "init")
    /\ UNCHANGED <<fd, sem_hw, swap, call, raced, kthread, link, linkChanges,
                   link_up_timer, oops>>

\* A step fails.  Of the device nodes some may have been created already.
Fail(s) ==
    /\ Startable(s)
    /\ stage' = "undo" /\ step' = 1 /\ failed' = s /\ todo' = Undo(s)
    /\ held' \in IF s = "devices" THEN {held, held \cup {s}} ELSE {held}
    /\ UNCHANGED <<ioctlVars, kthread, line, link_up_timer, oops, loads>>

-----------------------------------------------------------------------------
(* The error path, rmmod and done_sis1100_device(). *)

\* The card disappears, its driver is unbound, or the module is unloaded:
\* the kernel calls .remove, which nothing keeps from a card in use.
Remove ==
    /\ stage = "bound"
    /\ IF "sc" \in held THEN stage' = "remove" /\ todo' = RemoveOrder /\ UNCHANGED oops
       \* pci_get_drvdata() returns what nobody has set
       ELSE oops' = "remove" /\ UNCHANGED <<stage, todo>>
    /\ UNCHANGED <<ioctlVars, step, failed, held, kthread, line, link_up_timer, loads>>

\* rmmod, once no card is bound.
Unload ==
    /\ stage = "loaded" /\ NoFileOpen
    /\ stage' = "unloading" /\ todo' = UnloadOrder
    /\ UNCHANGED <<ioctlVars, step, failed, held, kthread, line, link_up_timer, oops, loads>>

Forgotten ==
    /\ user_wants_swap' = 0 /\ remote_endian' = FALSE
    /\ remote_hw' = "invalid" /\ remote_ident' = "invalid"
Releasing == stage \in {"undo", "remove", "unloading"}
Next_(r) == Releasing /\ todo # <<>> /\ Head(todo) = r

\* sis1100_done() disables the interrupts of the card; freeing the interrupt
\* waits for a handler that runs, and del_timer_sync() for the timer.  After
\* kfree(sc) what was in it means nothing.
ReleaseNext ==
    /\ Releasing /\ todo # <<>> /\ Head(todo) # "thread"
    /\ LET r == Head(todo)
       IN  /\ held' = held \ (IF r = "maps" THEN {"plx", "regs"} ELSE {r})
           /\ link_up_timer' = IF r = "timer" THEN FALSE ELSE link_up_timer
           /\ IF r = "sc" THEN Forgotten /\ command' = {} ELSE UNCHANGED <<fields, command>>
    /\ todo' = Tail(todo)
    /\ UNCHANGED <<fd, registers, callVars, stage, step, failed, thread, stop, line, oops, loads>>

StopRequested == stop # "no"

\* kthread_stop(): ask, wake up, and wait for the end.
StopThread ==
    /\ Next_("thread") /\ ~StopRequested
    /\ stop' = thread
    /\ thread' = IF thread = "asleep" THEN "awake" ELSE thread
    /\ UNCHANGED <<ioctlVars, start, command, line, link_up_timer, oops>>

ThreadStopped ==
    /\ Next_("thread") /\ StopRequested /\ thread = "done"
    /\ thread' = "none" /\ stop' = "no"
    /\ held' = held \ {"thread"} /\ todo' = Tail(todo)
    /\ UNCHANGED <<ioctlVars, stage, step, failed, loads, command, line, link_up_timer, oops>>

\* The error path ends with the errno of the step that failed.  Without a
\* suitable DMA mask this is the 0 of request_irq(): the device counts as bound.
Released ==
    /\ Releasing /\ todo = <<>>
    /\ stage' = IF stage = "unloading" \/ failed \in DOMAIN LoadLabel THEN "unloaded"
                ELSE IF failed = "dma_mask" THEN "bound" ELSE "loaded"
    /\ UNCHANGED todo
    /\ UNCHANGED <<ioctlVars, step, failed, held, loads, kthread, line, link_up_timer, oops>>

-----------------------------------------------------------------------------
(* The link, the interrupt handler, the timer and the kernel thread. *)

\* What the link does while the driver does not look at it is the same as
\* another link to begin with.
LinkChange ==
    /\ linkChanges < MaxLinkChanges /\ "init" \in held
    /\ linkChanges' = linkChanges + 1
    /\ link' = ~link /\ synch_chg' = TRUE
    /\ UNCHANGED <<ioctlVars, start, kthread, enabled, link_up_timer, oops>>

Interrupt ==
    /\ "irq" \in held /\ "init" \in held /\ synch_chg /\ enabled
    /\ synch_chg' = FALSE /\ enabled' = FALSE
    /\ link_up_timer' = TRUE
    /\ IF link THEN UNCHANGED <<remote_hw, command, thread>>
       ELSE /\ remote_hw' = "invalid"
            /\ command' = command \cup {"down"}
            /\ thread' = IF thread = "asleep" THEN "awake" ELSE thread
    /\ oops' = IF Mapped /\ "thread" \in held THEN oops ELSE "interrupt"
    /\ UNCHANGED <<fd, user_wants_swap, remote_endian, remote_ident, registers, callVars, start, stop, link, linkChanges>>

\* sis1100_link_up_handler()
TimerFires ==
    /\ link_up_timer
    /\ link_up_timer' = FALSE
    /\ IF {"sc", "thread"} \subseteq held THEN
           /\ command' = command \cup {"up"}
           /\ thread' = IF thread = "asleep" THEN "awake" ELSE thread
           /\ UNCHANGED oops
       ELSE oops' = "timer" /\ UNCHANGED <<command, thread>>
    /\ UNCHANGED <<ioctlVars, start, stop, line>>

\* kthread() calls the function of the thread unless it is stopped already.
ThreadBegin ==
    /\ thread = "new"
    /\ thread' = IF StopRequested THEN "done" ELSE "loop"
    /\ UNCHANGED <<ioctlVars, start, stop, command, line, link_up_timer, oops>>

\* The thread prepares to sleep, looks for a command, and sleeps.  The stop
\* flag is not looked at here.
ThreadSleep ==
    /\ thread = "loop"
    /\ thread' = IF command = {} THEN "asleep" ELSE "awake"
    /\ UNCHANGED <<ioctlVars, start, stop, command, line, link_up_timer, oops>>

\* The thread takes its commands; sis1100_synch_handler() enables the
\* interrupt again, then it looks at the link.
ThreadServe ==
    /\ command' = {}
    /\ IF "up" \notin command THEN thread' = "loop" /\ UNCHANGED <<at, enabled, oops>>
       ELSE IF ~Mapped THEN oops' = "thread" /\ UNCHANGED <<thread, at, enabled>>
       ELSE /\ enabled' = TRUE /\ UNCHANGED oops
            /\ IF link THEN thread' = "busy" /\ Goto(Handler, "init")
               ELSE thread' = "loop" /\ UNCHANGED at

ThreadWakes(stopping) ==
    /\ thread = "awake"
    /\ IF stopping THEN thread' = "done" /\ UNCHANGED <<at, command, enabled, oops>>
       ELSE ThreadServe
    /\ UNCHANGED <<fd, shared, sem_hw, swap, call, raced, start, stop, link, synch_chg,
                   linkChanges, link_up_timer>>

\* A thread that sleeps again when it has no command.
ThreadRunAgain == ThreadWakes(StopRequested /\ command # {})
ThreadRun == ThreadWakes(StopRequested)

ThreadBack ==
    /\ thread = "busy" /\ at[Handler] = "idle"
    /\ thread' = "loop"
    /\ UNCHANGED <<ioctlVars, start, stop, command, line, link_up_timer, oops>>

-----------------------------------------------------------------------------
(* Calls that have begun, and the users, as far as the card is there. *)

\* What is at the other end: another front end than before is connected only
\* after the driver has seen the link go down.
Connected == IF remote_hw = "invalid" THEN FrontEnds ELSE {remote_ident}

Proceed(p) ==
    /\ at[p] # "idle"
    /\ IF Mapped THEN
           /\ \/ InitLock(p)
              \/ InitNoIdent(p)
              \/ link /\ \E kind \in Connected : InitIdent(p, kind)
              \/ Update(p)
              \/ InitDone(p)
           /\ UNCHANGED oops
       ELSE oops' = (IF p = Handler THEN "thread" ELSE "file") /\ UNCHANGED ioctlVars
    /\ UNCHANGED <<start, kthread, line, link_up_timer>>

User(t) ==
    /\ Mapped
    /\ \E f \in Files :
       \/ "cdev" \in held /\ Open(f)
       \/ Release(f)
       \/ \E q \in Requests : Set(t, f, q)
       \/ RemoteReset(t, f)
    /\ UNCHANGED <<start, kthread, line, link_up_timer, oops>>

\* Any call on a file whose card is gone.
UserLate ==
    /\ ~NoFileOpen /\ ~Mapped
    /\ oops' = "file"
    /\ UNCHANGED <<ioctlVars, start, kthread, line, link_up_timer>>

-----------------------------------------------------------------------------
Startup == (\E i \in DOMAIN Steps : Acquire(Steps[i])) \/ CreateThread \/ InitCard
Shutdown == ReleaseNext \/ StopThread \/ ThreadStopped \/ Released
KernelThread == ThreadBegin \/ ThreadSleep \/ ThreadRun \/ ThreadBack

\* After an oops nothing is said about the kernel.
Next ==
    /\ oops = "none"
    /\ \/ Load \/ Startup \/ (\E i \in DOMAIN Steps : Fail(Steps[i]))
       \/ Remove \/ Unload \/ Shutdown
       \/ LinkChange \/ Interrupt \/ TimerFires \/ KernelThread
       \/ (\E p \in Actors : Proceed(p))
       \/ (\E t \in Threads : User(t))
       \/ UserLate

Spec == Init /\ [][Next]_vars

\* The kernel goes on with a removal it has begun and runs its threads; a
\* busy wait under sem_hw ends.  Nobody has to load, unload, open or call.
Fairness ==
    /\ WF_vars(oops = "none" /\ Shutdown)
    /\ WF_vars(oops = "none" /\ KernelThread)
    /\ WF_vars(oops = "none" /\ \E p \in Actors : Proceed(p))
FairSpec == Spec /\ Fairness

-----------------------------------------------------------------------------
(* Properties. *)

TypeOK ==
    /\ IoctlTypeOK
    /\ stage \in {"unloaded", "starting", "loaded", "bound", "undo", "remove", "unloading"}
    /\ step \in DOMAIN Steps
    /\ failed \in {Steps[i] : i \in DOMAIN Steps} \cup {"none"}
    /\ todo \in Seq(Resources \cup {"maps", "timer"})
    /\ held \subseteq Resources
    /\ thread \in {"none", "new", "loop", "asleep", "awake", "busy", "done"}
    /\ stop \in {"no", "new", "loop", "asleep", "awake", "busy", "done"}
    /\ command \subseteq {"up", "down"}
    /\ link_up_timer \in BOOLEAN /\ link \in BOOLEAN
    /\ synch_chg \in BOOLEAN /\ enabled \in BOOLEAN
    /\ oops \in {"none", "interrupt", "timer", "thread", "file", "remove"}
    /\ loads \in 0..MaxLoads /\ linkChanges \in 0..MaxLinkChanges

\* Who may touch what is gone, and when.  Neither the interrupt handler, nor
\* the timer, nor the kernel thread, nor a user ever meets a card that is not
\* there, from the first step of the start to the last of the removal, except:
\* the thread, when it still works while the mappings are released
\* (sis1100_autoconf_linux.c:477-483); the timer, which the error path does
\* not stop (398-402); a file opened before the last device node could not be
\* created (398); a file that is open when the card is taken away, of which
\* the driver says that "it is unclear what happens" (433-438); and the
\* removal of a card that was never bound (308-316).
KnownOopses ==
    /\ oops # "interrupt"
    /\ oops = "thread" => Releasing
    /\ oops = "timer" => stage # "starting" /\ failed \in {"cdev", "devices"}
    /\ oops = "file" => \/ failed = "devices"
                        \/ failed = "none" /\ stage \in {"remove", "loaded"}
    /\ oops = "remove" => failed = "dma_mask"

\* When the module is out nothing is left of it, and while a card is bound
\* all of it is there: every error label of init_sis1100_device() and of
\* init_sis1100_module() releases what had been acquired, whichever step
\* failed.  Device nodes stay behind when not all of them could be created.
AllReleased ==
    /\ stage = "unloaded" => held \subseteq {"devices"}
    /\ stage = "loaded" => held \ {"devices"} = {"class", "version", "chrdev", "driver"}
    /\ stage = "bound" => held = Resources \/ failed = "dma_mask"

\* kthread_stop() does not wait for ever: a start that failed and a removal
\* come to an end, whatever the thread does when it is asked to stop, except
\* that it sleeps over a request made while it works.  It looks at
\* kthread_should_stop() only after it has slept (sis1100_irq_thread.c:158-169).
StopMissed == stop \in {"loop", "busy"} /\ thread = "asleep"
StopHeard == (stage \in {"undo", "remove"}) ~>
             (stage \in {"loaded", "unloaded", "bound"} \/ StopMissed \/ oops # "none")
=============================================================================
