------------------------------- MODULE CardInv -------------------------------
(***************************************************************************)
(* The inductive invariant of Card: what is held at every stage of the     *)
(* start, of an error path and of the removal, what the kernel thread and  *)
(* the timer may still do there, which files may be open, and who is in    *)
(* sis1100_init_remote().  CardProofs shows that it is inductive and that  *)
(* it implies the safety properties of Card.                               *)
(***************************************************************************)
EXTENDS Card

\* The number of each step of the start.
StepNo == [class |-> 1, version |-> 2, chrdev |-> 3, driver |-> 4, sc |-> 5, thread |-> 6,
           enable |-> 7, regions |-> 8, plx |-> 9, regs |-> 10, irq |-> 11,
           dma_mask |-> 12, dmaspace |-> 13, init |-> 14, cdev |-> 15, devices |-> 16]

\* Device nodes may be left over from an earlier start, so what is said of
\* the resources is said of the others.
Core == Resources \ {"devices"}
LoadHeld == {"class", "version", "chrdev", "driver"}
HeldCore == held \ {"devices"}
Acquired(n) == {r \in Core : StepNo[r] < n}

\* What an element of an order of releases stands for, and what is still to
\* be released.
Frees(x) == IF x = "maps" THEN {"plx", "regs"} ELSE {x}
From(order, i) == SubSeq(order, i, Len(order))
Gives(order, i) == UNION {Frees(order[k]) : k \in i..Len(order)}

-----------------------------------------------------------------------------
(* What is held. *)

\* The error path of the step s, reached by its label, at its i-th element.
UndoHeld(order, base, s, i) ==
    /\ todo = From(order, i)
    /\ HeldCore = base \cup (Acquired(StepNo[s]) \cap Gives(order, i))
    \* kthread_stop() is called only for a thread that has been created
    /\ "thread" \in Gives(order, i) => StepNo["thread"] < StepNo[s]

Idle == todo = <<>>

ResourceInv ==
    /\ stage = "unloaded" => Idle /\ HeldCore = {}
    /\ stage = "starting" => Idle /\ failed = "none" /\ HeldCore = Acquired(step)
    /\ stage = "loaded" => Idle /\ HeldCore = LoadHeld
    /\ stage = "bound" => /\ Idle
                          /\ \/ failed = "none" /\ held = Resources
                             \/ failed = "dma_mask" /\ HeldCore = LoadHeld
    /\ stage = "undo" => \/ /\ failed \in DOMAIN LoadLabel
                            /\ \E i \in 1..4 : UndoHeld(LoadUndo, {}, failed, i)
                         \/ /\ failed \in DOMAIN ProbeLabel
                            /\ \E i \in 1..10 : UndoHeld(ProbeUndo, LoadHeld, failed, i)
    /\ stage = "remove" => /\ failed = "none"
                           /\ \E i \in 1..12 :
                                  /\ todo = From(RemoveOrder, i)
                                  /\ HeldCore = LoadHeld \cup (Core \cap Gives(RemoveOrder, i))
                                  /\ link_up_timer => "timer" \in Gives(RemoveOrder, i)
    /\ stage = "unloading" => \E i \in 1..5 : /\ todo = From(UnloadOrder, i)
                                              /\ HeldCore = Gives(UnloadOrder, i)

-----------------------------------------------------------------------------
(* Who may still run. *)

\* The thread runs while it is held, and has commands only once the card can
\* interrupt; it is in init_remote() only while it is busy.
ThreadInv ==
    /\ thread = "none" <=> "thread" \notin held
    /\ stop # "no" => Next_("thread")
    /\ stage = "starting" /\ "thread" \in held /\ (command # {} \/ thread = "busy")
           => "init" \in held
    /\ at[Handler] # "idle" => thread = "busy"

\* The timer is armed only if the interrupt was enabled, and outlives the
\* card only where the error path leaves it.
TimerInv ==
    link_up_timer =>
        \/ stage = "starting" /\ "init" \in held
        \/ stage = "bound" /\ failed = "none"
        \/ stage = "remove"
        \/ stage \in {"undo", "loaded", "unloading", "unloaded"} /\ failed \in {"cdev", "devices"}

\* A file is open only while the card is bound, stays open when the card is
\* taken away, or was opened before the last step of the start; and a thread
\* in a call holds its file open.
FileInv ==
    /\ ~NoFileOpen => \/ stage = "starting" /\ "cdev" \in held
                      \/ stage \in {"bound", "remove", "loaded"} /\ failed = "none"
                      \/ stage \in {"undo", "loaded"} /\ failed = "devices"
    /\ \A t \in Threads : at[t] # "idle" => call[t] \in Files /\ IsOpen(call[t])
    /\ at[Prober] # "idle" => stage = "starting" /\ "init" \in held

IInv == TypeOK /\ ResourceInv /\ ThreadInv /\ TimerInv /\ FileInv

-----------------------------------------------------------------------------
(* The byte order. *)

\* init_remote() runs under sem_hw, and the byte order is that of the front
\* end it has found last, which stays until the driver has seen it go.
Found == remote_endian = (remote_ident \in BigEndian)
Locks == \A p \in Actors : /\ sem_hw = p => at[p] \in {"ident", "hw"} \cup Updating
                           /\ at[p] \in {"ident", "hw"} => sem_hw = p
FoundInv ==
    /\ remote_hw # "invalid" => Found
    /\ \A p \in Actors : sem_hw = p /\ at[p] # "ident" => Found

\* Without a race there is one update at a time, which knows the fields it
\* has read and has written the registers it is past; and the registers are
\* right once it is over, if the front end is in use or about to be.
Wanted == Swap(remote_endian, user_wants_swap)
UpdateInv ==
    /\ \A p, q \in Actors : at[p] \in Updating /\ at[q] \in Updating => p = q
    /\ \A p \in Actors :
        /\ at[p] = "wish" => swap[p] = Swap(remote_endian, 0)
        /\ at[p] \in {"cr", "bigend"} => swap[p] = Wanted
        /\ at[p] = "bigend" => cr_swap = swap[p]
    /\ (\A p \in Actors : at[p] \notin Updating) /\
       (remote_hw # "invalid" \/ \E p \in Actors : at[p] = "hw")
           => cr_swap = Wanted /\ bigend = Wanted

SwapInv ==
    /\ Locks
    /\ "sc" \notin held => remote_hw = "invalid"
    /\ "sc" \in held => FoundInv /\ (~raced => UpdateInv)
=============================================================================
