----------------------------- MODULE MCClosingDesk -----------------------------
(* A small instance of ClosingDesk: tables set up in the order of their numbers.  *)
EXTENDS ClosingDesk

InOrder(t) == t
================================================================================
