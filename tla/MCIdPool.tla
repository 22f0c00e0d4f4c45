------------------------------- MODULE MCIdPool -------------------------------
(* A pool of four IDs; release is called with each of them, with the two      *)
(* metadata slots, with -1 (the ID of a zombie) and with one past the end.    *)
EXTENDS IdPool

MCRequests == -1 .. SlotCount
===============================================================================
