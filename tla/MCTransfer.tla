---------------------------- MODULE MCTransfer ----------------------------
(* Constants for checking Transfer. *)
EXTENDS Transfer

CONSTANTS t1, t2

\* The defaults of open(): DMA for long transfers, no pipeline; and a file
\* that asked for the pipeline.
Files == {[dma |-> 2, pipe |-> 0], [dma |-> 0, pipe |-> 2]}
=============================================================================
