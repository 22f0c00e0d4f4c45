------------------------------- MODULE MCBuddy -------------------------------
(* Buddy with a last block that has no buddy. *)
EXTENDS Buddy

Sizes == [k \in 0 .. MaxOrder |-> 2^k]
===============================================================================
