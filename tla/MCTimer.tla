------------------------------- MODULE MCTimer -------------------------------
(***************************************************************************)
(* A counter of 0 .. 7 looked at up to 4: a period of 4 ticks that starts  *)
(* at once ends where the next one would overflow.                         *)
(***************************************************************************)
EXTENDS Timer

SomeRequests == {<<"TICKS", 1>>, <<"MILLISECONDS", 1>>, <<"SECONDS", 2>>}
===============================================================================
