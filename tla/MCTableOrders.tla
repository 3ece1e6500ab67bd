--------------------------- MODULE MCTableOrders ----------------------------
(* TableOrders on a small instance: two workers, two tables. *)
EXTENDS TableOrders, TLC

CONSTANTS w1, w2, t1, t2

TwoWorkers == {w1, w2}
TwoTables == {t1, t2}

Nobody == {}
Everyone == {"customer", "staff"}

(* Workers are interchangeable, and so are tables. *)
Symmetry == Permutations(Workers) \cup Permutations(Tables)
=============================================================================
