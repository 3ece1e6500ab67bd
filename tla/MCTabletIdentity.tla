--------------------------- MODULE MCTabletIdentity ----------------------------
(* A small instance of TabletIdentity: users and network without any restraint,   *)
(* an orderly set-up, and one of a tablet that is not moved to another table.     *)
EXTENDS TabletIdentity

Behaviours == {{}, IdealKinds \ {"settled"}, IdealKinds}
================================================================================
