------------------------------ MODULE MCMiniUart ------------------------------
(***************************************************************************)
(* Rings of four slots, which hold three bytes, and FIFOs of two: a print  *)
(* finds the ring full while the transmit task is in its dequeue.          *)
(***************************************************************************)
EXTENDS MiniUart
===============================================================================
