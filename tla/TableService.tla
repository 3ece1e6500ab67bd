---------------------------- MODULE TableService ----------------------------
(***************************************************************************)
(* What the order service promises the floor, with every operation atomic: *)
(* a table is occupied or free, an occupied table runs up a bill of        *)
(* orders, staff advance or strike out single orders, and settling a table *)
(* moves its whole bill to the archive and frees it.  TableOrders is the   *)
(* code's version, in which one operation is several SQL statements.       *)
(***************************************************************************)
EXTENDS Naturals

CONSTANT Tables

VARIABLES
    occupied,   \* the tables in use
    bill,       \* the open orders, as records [uid, table, status]
    archive,    \* the settled orders, as records [uid, table]
    placed      \* how many orders were ever accepted; they are numbered 1..placed

svars == <<occupied, bill, archive, placed>>

Statuses == {"waiting", "preparing", "done"}

(* The kitchen's only moves: 대기중 -> 준비중 -> 완료. *)
Allowed == {<<"waiting", "preparing">>, <<"preparing", "done">>}

BillOf(t) == {b \in bill : b.table = t}

SInit ==
    /\ occupied = {}
    /\ bill = {}
    /\ archive = {}
    /\ placed = 0

(* The first order request of a party occupies its table. *)
Sit(t) ==
    /\ t \notin occupied
    /\ occupied' = occupied \cup {t}
    /\ UNCHANGED <<bill, archive, placed>>

Place(t) ==
    /\ t \in occupied
    /\ placed' = placed + 1
    /\ bill' = bill \cup {[uid |-> placed + 1, table |-> t, status |-> "waiting"]}
    /\ UNCHANGED <<occupied, archive>>

Advance(b, next) ==
    /\ <<b.status, next>> \in Allowed
    /\ bill' = (bill \ {b}) \cup {[b EXCEPT !.status = next]}
    /\ UNCHANGED <<occupied, archive, placed>>

Strike(b) ==
    /\ bill' = bill \ {b}
    /\ UNCHANGED <<occupied, archive, placed>>

Settle(t) ==
    /\ t \in occupied
    /\ occupied' = occupied \ {t}
    /\ bill' = bill \ BillOf(t)
    /\ archive' = archive \cup {[uid |-> b.uid, table |-> t] : b \in BillOf(t)}
    /\ UNCHANGED placed

SNext ==
    \/ \E t \in Tables : Sit(t) \/ Place(t) \/ Settle(t)
    \/ \E b \in bill : Strike(b) \/ \E next \in Statuses : Advance(b, next)

SSpec == SInit /\ [][SNext]_svars
=============================================================================
