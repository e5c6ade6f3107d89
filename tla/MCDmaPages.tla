---------------------------- MODULE MCDmaPages ----------------------------
(* Constants for checking DmaPages. *)
EXTENDS DmaPages, DemandDmaInv, TLC

CONSTANTS t1, t2, f1, f2

\* Two processes, of which only the first has reserved interrupts.
TwoFiles   == t1 :> f1 @@ t2 :> f2
FirstOwner == f1 :> {"ddma", "remote"} @@ f2 :> {}
NoAuto     == {}
=============================================================================
