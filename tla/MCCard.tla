------------------------------- MODULE MCCard -------------------------------
(* Constants for checking Card. *)
EXTENDS CardInv

CONSTANTS t1, f1, handler, prober

\* A size that is refused, a call that swaps, one that swaps back, and one
\* that keeps one of its two thresholds.
Wishes == {
    [cmd |-> "setvmespace", arg |-> [am |-> 9, size |-> 3, swap |-> 0, dma_r |-> 0, dma_w |-> 0]],
    [cmd |-> "setvmespace", arg |-> [am |-> 9, size |-> 4, swap |-> 1, dma_r |-> -1, dma_w |-> -1]],
    [cmd |-> "swap", arg |-> [swap |-> 0]],
    [cmd |-> "mindmalen", arg |-> [dma_r |-> 16, dma_w |-> -1]]}
=============================================================================
