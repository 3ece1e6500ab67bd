---------------------------- MODULE MCOrderEvents ----------------------------
(* Small instances of OrderEvents. *)
EXTENDS OrderEvents
==============================================================================
