------------------------------- MODULE VmeIrq -------------------------------
(***************************************************************************)
(* The way of a VME interrupt through the sis1100 driver.  The VME          *)
(* controller rings the doorbell of the card; the interrupt handler takes   *)
(* note of it and wakes the irq thread; the irq thread masks the level in    *)
(* the controller, reads the vector from the VME bus and marks the level     *)
(* pending; the process that has reserved the level is woken, gets the       *)
(* vector and acknowledges, which enables the level again.                  *)
(* Modelled are the doorbell branch of sis1100_intr(), sis1100_irq_thread(), *)
(* sis3100rem_irq.c and sis1100_irq_handler.c for the VME levels, opening    *)
(* and closing of files, and the masks in the VME controller.  The front    *)
(* end is a VME controller throughout.                                      *)
(***************************************************************************)
EXTENDS Integers, Sequences, FiniteSets

CONSTANTS
    Levels,        \* VME interrupt levels
    Files,         \* files that may be opened, each by a process of its own
    Threads,       \* threads of these processes
    FileOf,        \* the file each thread uses
    GetMasks,      \* irq_mask of irq_get and irq_wait
    Automasks,     \* auto_mask of irq_ctl
    MaxRequests,   \* bound: interrupt requests on the VME bus
    MaxCtls        \* bound: calls of irq_ctl

ASSUME LevelsAssumption == Levels \subseteq 1..7

ASSUME UsersAssumption ==
    /\ FileOf \in [Threads -> Files]
    /\ GetMasks \subseteq SUBSET Levels
    /\ Automasks \subseteq SUBSET Levels
    /\ MaxRequests \in Nat
    /\ MaxCtls \in Nat

VARIABLES
    req,           \* vectors that wait on each level of the VME bus
    raised,        \* number of requests so far; they are numbered
    enabled,       \* levels enabled in the VME controller
    doorbell,      \* sc->doorbell
    command,       \* handlercomm_doorbell is set
    irq_thread,    \* irq thread: where it is
    hand,          \* irq thread: its variables doorbell, then new_irqs
    pending,       \* sc->pending_irqs
    vects,         \* sc->irq_vects
    autoack,       \* sc->autoack_mask
    owned,         \* fd->owned_irqs
    file,          \* state of each file
    pc,            \* thread: where it is
    arg,           \* thread: the mask it was called with
    part,          \* thread: auto_mask in irq_ctl, or the levels to disable
    ctls,          \* number of calls of irq_ctl
    given          \* history: vectors given to processes

bus    == <<req, raised>>
isr    == <<doorbell, command>>
thread == <<irq_thread, hand>>
info   == <<pending, vects, given>>
users  == <<pc, arg, part, ctls>>
vars == <<bus, enabled, isr, thread, info, autoack, owned, file, users>>

NoVector == -1     \* the vector of an acknowledge cycle nobody answered

-----------------------------------------------------------------------------
Init ==
    /\ req = [l \in Levels |-> <<>>]
    /\ raised = 0
    /\ enabled = {}
    /\ doorbell = {} /\ command = FALSE
    /\ irq_thread = "idle" /\ hand = {}
    /\ pending = {}
    /\ vects = [l \in Levels |-> [vector |-> NoVector, valid |-> FALSE]]
    /\ given = {}
    /\ autoack = {}
    /\ owned = [f \in Files |-> {}]
    /\ file = [f \in Files |-> "closed"]
    /\ pc = [t \in Threads |-> "idle"]
    /\ arg = [t \in Threads |-> {}]
    /\ part = [t \in Threads |-> {}]
    /\ ctls = 0

-----------------------------------------------------------------------------
(* The VME bus and its controller *)

\* A VME module requests an interrupt.
Request(l) ==
    /\ raised < MaxRequests
    /\ raised' = raised + 1
    /\ req' = [req EXCEPT ![l] = Append(@, raised')]
    /\ UNCHANGED <<enabled, isr, thread, info, autoack, owned, file, users>>

\* While a level is enabled and requested the controller may ring the doorbell
\* at any time, and more than once; sis1100_intr() takes note of it.
Ring(l) ==
    /\ l \in enabled
    /\ req[l] # <<>>
    /\ doorbell' = doorbell \union {l}
    /\ command' = TRUE
    /\ UNCHANGED <<bus, enabled, thread, info, autoack, owned, file, users>>

\* Writes to vme_irq_sc.
Enable(S) == enabled' = enabled \union S
Disable(S) == enabled' = enabled \ S

-----------------------------------------------------------------------------
(* sis1100_irq_thread(); sem_irqinfo is held from "handle" to "pend", what   *)
(* is done under sem_hw is one step.                                       *)

SemIrqinfoFree == irq_thread \notin {"handle", "pend"}

ThreadFetch ==
    /\ irq_thread = "idle"
    /\ command
    /\ command' = FALSE
    /\ irq_thread' = "take"
    /\ UNCHANGED <<bus, enabled, doorbell, hand, info, autoack, owned, file,
                   users>>

ThreadTake ==
    /\ irq_thread = "take"
    /\ hand' = doorbell
    /\ doorbell' = {}
    /\ irq_thread' = "handle"
    /\ UNCHANGED <<bus, enabled, command, info, autoack, owned, file, users>>

\* Mutation: more than the lower eight bits of tc_dal are taken.
IackWide(l) == IF req[l] = <<>> THEN NoVector ELSE 256 + Head(req[l])

\* The acknowledge cycle of level l.
Iack(l) == IF req[l] = <<>> THEN NoVector ELSE Head(req[l])

\* Mutation: levels that are pending are acknowledged on the bus once more.
ThreadHandleAgain ==
    /\ irq_thread = "handle"
    /\ irq_thread' = "pend"
    /\ enabled' = enabled \ hand
    /\ vects' = [l \in Levels |->
            IF l \in hand THEN [vector |-> Iack(l), valid |-> TRUE]
            ELSE vects[l]]
    /\ req' = [l \in Levels |->
            IF l \in hand /\ req[l] # <<>> THEN Tail(req[l]) ELSE req[l]]
    /\ UNCHANGED <<raised, isr, hand, pending, given, autoack, owned, file,
                   users>>

\* sis3100rem_irq_handler(): mask the levels, read the vectors of those that
\* are not pending yet, and let the controller look again.
ThreadHandle ==
    /\ irq_thread = "handle"
    /\ irq_thread' = "pend"
    /\ enabled' = enabled \ hand
    /\ hand' = hand \ pending
    /\ vects' = [l \in Levels |->
            IF l \in hand' THEN [vector |-> Iack(l), valid |-> TRUE]
            ELSE vects[l]]
    /\ req' = [l \in Levels |->
            IF l \in hand' /\ req[l] # <<>> THEN Tail(req[l]) ELSE req[l]]
    /\ UNCHANGED <<raised, isr, pending, given, autoack, owned, file, users>>

\* Mutation: the sleepers are woken before the interrupts are pending.
ThreadPendLate ==
    /\ irq_thread = "pend"
    /\ irq_thread' = "idle"
    /\ pending' = pending \union hand
    /\ hand' = {}
    /\ UNCHANGED <<bus, enabled, isr, vects, given, autoack, owned, file, users>>

\* The new interrupts are pending, and all sleepers are woken; between the two
\* nobody falls asleep who need not.
ThreadPend ==
    /\ irq_thread = "pend"
    /\ irq_thread' = "idle"
    /\ pending' = pending \union hand
    /\ hand' = {}
    /\ pc' = [t \in Threads |-> IF pc[t] = "asleep" THEN "look" ELSE pc[t]]
    /\ UNCHANGED <<bus, enabled, isr, vects, given, autoack, owned, file, arg, part, ctls>>

-----------------------------------------------------------------------------
(* Open and release *)

Open(f) ==
    /\ file[f] = "closed"
    /\ file' = [file EXCEPT ![f] = "open"]
    /\ owned' = [owned EXCEPT ![f] = {}]
    /\ UNCHANGED <<bus, enabled, isr, thread, info, autoack, users>>

\* cleanup_fd(): all calls of this file have returned; disable its levels.
Cleanup(f) ==
    /\ file[f] = "open"
    /\ \A t \in Threads : FileOf[t] = f => pc[t] = "idle"
    /\ Disable(owned[f])
    /\ file' = [file EXCEPT ![f] = "closing"]
    /\ UNCHANGED <<bus, isr, thread, info, autoack, owned, users>>

Release(f) ==
    /\ file[f] = "closing"
    /\ file' = [file EXCEPT ![f] = "closed"]
    /\ owned' = [owned EXCEPT ![f] = {}]
    /\ UNCHANGED <<bus, enabled, isr, thread, info, autoack, users>>

-----------------------------------------------------------------------------
(* sis1100_irq_ctl() *)

Idle(t) == pc[t] = "idle" /\ file[FileOf[t]] = "open"

\* The call returns.
Return(t) ==
    /\ pc' = [pc EXCEPT ![t] = "idle"]
    /\ arg' = [arg EXCEPT ![t] = {}]
    /\ part' = [part EXCEPT ![t] = {}]
    /\ UNCHANGED ctls

\* No other process owns one of these levels.
FreeFor(f, S) == \A g \in Files \ {f} : owned[g] \cap S = {}

\* Reserve the levels.
Ctl(t, S, A) ==
    /\ Idle(t)
    /\ FreeFor(FileOf[t], S)
    /\ ctls < MaxCtls /\ ctls' = ctls + 1
    /\ owned' = [owned EXCEPT ![FileOf[t]] = @ \union S]
    /\ pc' = [pc EXCEPT ![t] = "ctl_ack"]
    /\ arg' = [arg EXCEPT ![t] = S]
    /\ part' = [part EXCEPT ![t] = A \cap S]
    /\ UNCHANGED <<bus, enabled, isr, thread, info, autoack, file>>

\* Forget what is pending from the time before.
CtlAck(t) ==
    /\ pc[t] = "ctl_ack"
    /\ SemIrqinfoFree
    /\ pending' = pending \ arg[t]
    /\ Enable(arg[t])
    /\ pc' = [pc EXCEPT ![t] = "ctl_enable"]
    /\ UNCHANGED <<bus, isr, thread, vects, given, autoack, owned, file, arg,
                   part, ctls>>

\* Take over auto_mask, then enable the levels.
CtlEnable(t) ==
    /\ pc[t] = "ctl_enable"
    /\ autoack' = (autoack \ arg[t]) \union part[t]
    /\ Enable(arg[t])
    /\ Return(t)
    /\ UNCHANGED <<bus, isr, thread, info, owned, file>>

\* Give levels back.
Off(t, S) ==
    /\ Idle(t)
    /\ ctls < MaxCtls /\ ctls' = ctls + 1
    /\ arg' = [arg EXCEPT ![t] = S]
    /\ part' = [part EXCEPT ![t] = owned[FileOf[t]] \cap S]
    /\ autoack' = autoack \ part'[t]
    /\ pc' = [pc EXCEPT ![t] = "off_mask"]
    /\ UNCHANGED <<bus, enabled, isr, thread, info, owned, file>>

OffMask(t) ==
    /\ pc[t] = "off_mask"
    /\ Disable(part[t])
    /\ pc' = [pc EXCEPT ![t] = "off_release"]
    /\ UNCHANGED <<bus, isr, thread, info, autoack, owned, file, arg, part, ctls>>

OffRelease(t) ==
    /\ pc[t] = "off_release"
    /\ owned' = [owned EXCEPT ![FileOf[t]] = @ \ arg[t]]
    /\ Return(t)
    /\ UNCHANGED <<bus, enabled, isr, thread, info, autoack, file>>

-----------------------------------------------------------------------------
(* sis1100_irq_wait(), sis1100_irq_get() and sis1100_irq_ack() *)

Mine(t) == pending \cap owned[FileOf[t]]

\* wait_event_interruptible(remoteirq_wait, irq_pending(...))
Wait(t, S) ==
    /\ \/ Idle(t)
       \/ pc[t] = "look" /\ S = arg[t]
    /\ arg' = [arg EXCEPT ![t] = S]
    /\ pc' = [pc EXCEPT ![t] = IF Mine(t) \cap S # {} THEN "get" ELSE "asleep"]
    /\ UNCHANGED <<bus, enabled, isr, thread, info, autoack, owned, file, part, ctls>>

\* EINTR
Interrupted(t) ==
    /\ pc[t] = "asleep"
    /\ Return(t)
    /\ UNCHANGED <<bus, enabled, isr, thread, info, autoack, owned, file>>

\* The levels of S that have a vector, and the highest of them.
Vectors(S) == {l \in S : vects[l].valid}
Highest(V) == CHOOSE l \in V : \A k \in V : k =< l

\* Mutation: the vector stays valid.
ReportKept(S) ==
    /\ given' = given \union {vects[l].vector :
                               l \in {k \in Vectors(S) : k = Highest(Vectors(S))}}
    /\ UNCHANGED vects

\* sis3100rem_get_vector(): the vector of the highest level that has one.
Report(S) ==
    IF Vectors(S) = {}
    THEN UNCHANGED <<vects, given>>
    ELSE LET high == Highest(Vectors(S))
         IN /\ given' = given \union {vects[high].vector}
            /\ vects' = [vects EXCEPT ![high].valid = FALSE]

\* Get the vector, and acknowledge what is to be acknowledged automatically.
Get(t, S) ==
    /\ \/ Idle(t)
       \/ pc[t] = "get" /\ S = arg[t]
    /\ SemIrqinfoFree
    /\ Report(Mine(t) \cap S)
    /\ pending' = pending \ (Mine(t) \cap autoack)
    /\ Enable(Mine(t) \cap autoack)
    /\ Return(t)
    /\ UNCHANGED <<bus, isr, thread, autoack, owned, file>>

\* Mutation: the levels are not enabled again.
AckOnly(t, S) ==
    /\ Idle(t)
    /\ SemIrqinfoFree
    /\ pending' = pending \ (Mine(t) \cap S)
    /\ UNCHANGED <<bus, enabled, isr, thread, vects, given, autoack, owned, file,
                   users>>

\* Only what is pending is acknowledged.
Ack(t, S) ==
    /\ Idle(t)
    /\ SemIrqinfoFree
    /\ pending' = pending \ (Mine(t) \cap S)
    /\ Enable(Mine(t) \cap S)
    /\ UNCHANGED <<bus, isr, thread, vects, given, autoack, owned, file, users>>

-----------------------------------------------------------------------------
ThreadStep ==
    ThreadFetch \/ ThreadTake \/ ThreadHandle \/ ThreadPend

\* A call that has begun goes on.
CallStep(t) ==
    \/ CtlAck(t) \/ CtlEnable(t)
    \/ OffMask(t) \/ OffRelease(t)
    \/ pc[t] = "look" /\ Wait(t, arg[t])
    \/ pc[t] = "get" /\ Get(t, arg[t])

NewCall(t) ==
    \/ \E S \in SUBSET Levels \ {{}} :
          \/ \E A \in Automasks : Ctl(t, S, A)
          \/ Off(t, S)
          \/ Ack(t, S)
    \/ \E S \in GetMasks : Idle(t) /\ (Wait(t, S) \/ Get(t, S))

Next ==
    \/ \E l \in Levels : Request(l) \/ Ring(l)
    \/ ThreadStep
    \/ \E f \in Files : Open(f) \/ Cleanup(f) \/ Release(f)
    \/ \E t \in Threads : CallStep(t) \/ NewCall(t) \/ Interrupted(t)

Spec == Init /\ [][Next]_vars

-----------------------------------------------------------------------------
(* Properties *)

BusType ==
    /\ raised \in 0..MaxRequests
    /\ req \in [Levels -> Seq(1..MaxRequests)]
DriverType ==
    /\ enabled \subseteq Levels
    /\ doorbell \subseteq Levels
    /\ command \in BOOLEAN
    /\ irq_thread \in {"idle", "take", "handle", "pend"}
    /\ hand \subseteq Levels
    /\ pending \subseteq Levels
    /\ autoack \subseteq Levels
VectorType ==
    /\ vects \in [Levels -> [vector : 1..MaxRequests \union {NoVector},
                            valid : BOOLEAN]]
    /\ given \subseteq 1..MaxRequests \union {NoVector}
UserType ==
    /\ owned \in [Files -> SUBSET Levels]
    /\ file \in [Files -> {"closed", "open", "closing"}]
    /\ pc \in [Threads -> {"idle", "ctl_ack", "ctl_enable",
                           "off_mask", "off_release", "asleep", "look", "get"}]
    /\ arg \in [Threads -> SUBSET Levels]
    /\ part \in [Threads -> SUBSET Levels]
    /\ ctls \in 0..MaxCtls
TypeOK == BusType /\ DriverType /\ VectorType /\ UserType

\* No two processes own the same level.
Exclusive ==
    \A f, g \in Files : f # g => owned[f] \cap owned[g] = {}

\* The process has the level for its own: reserved, and nobody in irq_ctl or
\* release changes that.
Changes(t, l) == pc[t] \notin {"idle", "asleep", "look", "get"} /\ l \in arg[t]
Held(f, l) ==
    /\ file[f] = "open"
    /\ l \in owned[f]
    /\ \A t \in Threads : FileOf[t] = f => ~Changes(t, l)

\* A level that a process holds is enabled, unless it is pending or the irq
\* thread is just about to make it pending: it is never masked and forgotten.
HeldIsEnabled ==
    \A f \in Files, l \in Levels :
        Held(f, l) =>
            \/ l \in enabled
            \/ l \in pending
            \/ irq_thread = "pend" /\ l \in hand

\* A vector that was read for a level stays until the process gets it, unless
\* the process gives it up itself with irq_ack or irq_ctl.
Kept(l) ==
    \/ vects'[l] = vects[l] /\ l \in pending'
    \/ vects[l].vector \in given'
    \/ \E t \in Threads : CtlAck(t) \/ \E S \in SUBSET Levels : Ack(t, S)
VectorKept ==
    [][\A l \in Levels : l \in pending /\ vects[l].valid => Kept(l)]_vars

\* No vector is given twice.
GivenOnce ==
    \A l \in Levels :
        vects[l].valid /\ vects[l].vector # NoVector
            => vects[l].vector \notin given

\* Nobody sleeps in irq_wait on a level he holds while it is pending.
NobodySleeps ==
    \A t \in Threads, l \in Levels :
        pc[t] = "asleep" /\ Held(FileOf[t], l) /\ l \in arg[t] => l \notin pending

-----------------------------------------------------------------------------
(* What makes these properties inductive, for files with one thread each *)

\* Who is in a call has his file open.
Working == \A t \in Threads : pc[t] # "idle" => file[FileOf[t]] = "open"

\* What irq_ctl is about to disable belongs to its file.
PartOwned ==
    \A t \in Threads :
        pc[t] = "off_mask" => part[t] \subseteq owned[FileOf[t]] \cap arg[t]

\* Who sleeps in irq_wait has nothing to wake up for.
SleepsRightly == \A t \in Threads : pc[t] = "asleep" => Mine(t) \cap arg[t] = {}

\* The vectors on the bus, in irq_vects and with the processes are all
\* different, and none comes from a request that has not been made.
Queued(l) == {req[l][i] : i \in 1..Len(req[l])}
Stored(l) == vects[l].valid /\ vects[l].vector # NoVector
BusInOrder ==
    /\ \A l \in Levels : Queued(l) \subseteq 1..raised /\ Queued(l) \cap given = {}
    /\ \A l, k \in Levels : l # k => Queued(l) \cap Queued(k) = {}
    /\ \A l \in Levels : \A i, j \in 1..Len(req[l]) : i < j => req[l][i] # req[l][j]
StoredOnce ==
    /\ given \subseteq 1..raised \union {NoVector}
    /\ \A l \in Levels : Stored(l) => vects[l].vector \in 1..raised
    /\ \A l, k \in Levels : Stored(l) => vects[l].vector \notin Queued(k)
    /\ \A l, k \in Levels :
          Stored(l) /\ Stored(k) /\ l # k => vects[l].vector # vects[k].vector

\* Only level h is acknowledged automatically, now or when an irq_ctl under way
\* is done, and who waits will ask irq_get for it.
OnlyHighest(h) ==
    /\ autoack \subseteq {h}
    /\ \A t \in Threads :
        /\ pc[t] \in {"ctl_ack", "ctl_enable"} => part[t] \subseteq {h}
        /\ pc[t] \in {"asleep", "look", "get"} => h \in arg[t]

\* The invariant the proofs use.
IInv ==
    /\ TypeOK
    /\ Working /\ Exclusive /\ PartOwned
    /\ HeldIsEnabled
    /\ SleepsRightly
    /\ BusInOrder /\ StoredOnce /\ GivenOnce

=============================================================================
