----------------------------- MODULE BlockFifo -----------------------------
(***************************************************************************)
(* What the demand-mode DMA promises its user: during a session (from      *)
(* ddma_start to ddma_stop) the blocks of data are handed out in the order *)
(* in which the front end produced them, each exactly once, and at most    *)
(* capacity of them are full or in the user's hands at any time.  Blocks   *)
(* may be given back in any order.  Outside a session nothing is promised. *)
(***************************************************************************)
EXTENDS Naturals, Sequences, FiniteSets

VARIABLES
    on,         \* a session is under way
    capacity,   \* blocks in the ring
    produced,   \* blocks of data produced in this session
    full,       \* the data not yet handed out, oldest first
    held        \* the data in the user's hands

vars == <<on, capacity, produced, full, held>>

Init ==
    /\ on = FALSE
    /\ capacity = 0
    /\ produced = 0
    /\ full = <<>>
    /\ held = {}

Begin ==
    /\ ~on
    /\ on' = TRUE
    /\ capacity' \in Nat \ {0}
    /\ produced' = 0
    /\ full' = <<>>
    /\ held' = {}

End ==
    /\ on
    /\ on' = FALSE
    /\ capacity' = 0
    /\ produced' = 0
    /\ full' = <<>>
    /\ held' = {}

Produce ==
    /\ on
    /\ Len(full) + Cardinality(held) < capacity
    /\ full' = Append(full, produced)
    /\ produced' = produced + 1
    /\ UNCHANGED <<on, capacity, held>>

HandOut ==
    /\ on
    /\ full # <<>>
    /\ full' = Tail(full)
    /\ held' = held \union {Head(full)}
    /\ UNCHANGED <<on, capacity, produced>>

GiveBack ==
    /\ on
    /\ \E d \in held : held' = held \ {d}
    /\ UNCHANGED <<on, capacity, produced, full>>

Next == Begin \/ End \/ Produce \/ HandOut \/ GiveBack

Spec == Init /\ [][Next]_vars

-----------------------------------------------------------------------------
(* Properties *)

\* What waits is the end of what has been produced, in its order and without a
\* gap; what the user holds came before it; and together they fit into the ring.
Promise ==
    /\ full = [i \in 1..Len(full) |-> produced - Len(full) + i - 1]
    /\ \A d \in held : d \in Nat /\ d < produced - Len(full)
    /\ Len(full) + Cardinality(held) <= capacity
=============================================================================
