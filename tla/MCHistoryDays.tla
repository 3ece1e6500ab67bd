----------------------------- MODULE MCHistoryDays -----------------------------
(* HistoryDays with a few filters of every kind: open, open on one side, one day, *)
(* several days, days that end before they begin, one table.                      *)
EXTENDS HistoryDays

Some == {[table |-> All, from |-> All, to |-> All], [table |-> All, from |-> 1, to |-> All],
         [table |-> All, from |-> All, to |-> 0], [table |-> All, from |-> 1, to |-> 1],
         [table |-> 1, from |-> 0, to |-> 1], [table |-> All, from |-> 1, to |-> 0]}
================================================================================
