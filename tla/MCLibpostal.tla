----------------------------- MODULE MCLibpostal ------------------------------
(***************************************************************************)
(* An instance of Libpostal for TLC: three threads, so that two can wait   *)
(* for the lock while a third fails in it.                                 *)
(***************************************************************************)
EXTENDS Libpostal
==============================================================================
