----------------------------- MODULE MCInterrupts -----------------------------
(* Interrupts with one tick, one or two timeouts, and small queues and rings. *)
EXTENDS Interrupts
===============================================================================
