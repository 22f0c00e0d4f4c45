------------------------------- MODULE MCThread -------------------------------
(***************************************************************************)
(* Small instances of Thread.  The blocks of threads and of images are     *)
(* interchangeable; boot and idle are not.                                 *)
(***************************************************************************)
EXTENDS Thread, TLC

Blocks == Permutations(Threads) \cup Permutations(Images)
===============================================================================
