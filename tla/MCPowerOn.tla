------------------------------- MODULE MCPowerOn -------------------------------
(***************************************************************************)
(* The trees and the layout of MCBoot, an image of sixteen bytes, one of   *)
(* them a newline, and words of five.  What is left of a size word after a *)
(* lost byte is read as a line: printable bytes, one that erases and one   *)
(* that is dropped, and too many when another one is lost.                 *)
(***************************************************************************)
EXTENDS MCBoot, PowerOn

MCKernel == [i \in 1 .. 16 |-> CASE i = 2 -> "NL" [] i = 3 -> "m1" [] OTHER -> "k"]
MCValueOf == [k |-> 9, NL |-> 10, CR |-> 13, u |-> 11, b |-> 12, m1 |-> 5, m2 |-> 6,
              n |-> 0, z |-> 1, e |-> 2]
MCMagic == <<"m1", "m2", "m1", "m2", "m2">>
MCSizeWord == <<"n", "n", "e", "z", "n">>
===============================================================================
