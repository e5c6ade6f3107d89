---------------------------- MODULE MCDemandDma ----------------------------
(* Constants for checking DemandDma. *)
EXTENDS DemandDmaInv, TLC

CONSTANTS t1, t2, f1, f2

\* One process: one file, one thread, or two threads that share the file.
OneFile    == t1 :> f1
SharedFile == t1 :> f1 @@ t2 :> f1
OneOwner   == f1 :> {"ddma", "remote"}

\* Two processes, of which only the first has reserved interrupts.
TwoFiles   == t1 :> f1 @@ t2 :> f2
FirstOwner == f1 :> {"ddma", "remote"} @@ f2 :> {}

\* Interrupts acknowledged by irq_get itself.
AutoDdma == {"ddma"}
NoAuto   == {}
=============================================================================
