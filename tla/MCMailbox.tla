------------------------------- MODULE MCMailbox -------------------------------
(***************************************************************************)
(* Pages of 256 bytes: clients and mailbox calls share the size class of   *)
(* 96 bytes, with two chunks to a page, and clients take blocks that fit   *)
(* in a page without their header but not with it.                         *)
(***************************************************************************)
EXTENDS Mailbox
===============================================================================
