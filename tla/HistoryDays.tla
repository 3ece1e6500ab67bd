------------------------------ MODULE HistoryDays ------------------------------
(* OrderHistoryView and the history endpoint: days as staff pick them, the UTC   *)
(* bounds the server makes of them, and the list a page shows while tables are   *)
(* being closed and the inputs changed.                                          *)
EXTENDS Integers, FiniteSets

CONSTANTS Tables,
          Hours,    \* hours of a day
          Offset,   \* hours the store's clock is ahead of UTC
          Days,     \* bound on the days that pass
          MaxRows,  \* bound on rows of order_history
          Filters   \* what the inputs may say

All == -1  \* an input that is left empty

ASSUME DaysAssumption ==
  /\ Hours \in Nat \ {0} /\ Offset \in 0 .. Hours - 1 /\ Days \in Nat \ {0} /\ MaxRows \in Nat
  /\ Filters \subseteq [table : Tables \cup {All}, from : Int, to : Int]

VARIABLES now,    \* hours passed, UTC
          rows,   \* order_history: id, table and closed_at (UTC)
          filter, \* the inputs
          asked,  \* the filter of the request
          at,     \* where the request stands
          answer, \* what is on its way
          shown   \* what the page lists

vars == <<now, rows, filter, asked, at, answer, shown>>

Times == 0 .. Hours * Days
Rows == [id : 1 .. MaxRows, table : Tables, closed : Times]
(* A list as the places of its rows, the filter it was read with and the number   *)
(* of rows there were.                                                           *)
IsList(l) == /\ l \in [filter : Filters, count : 0 .. MaxRows,
                      place : [DOMAIN l.place -> Nat \ {0}]]
             /\ DOMAIN l.place \subseteq Rows

TypeOK == /\ now \in Times /\ rows \subseteq Rows /\ filter \in Filters /\ asked \in Filters
          /\ at \in {"idle", "sent", "read"} /\ IsList(answer) /\ IsList(shown)

Unread == [filter |-> filter, place |-> [row \in {} |-> 0], count |-> 0]
Init == /\ now = 0 /\ rows = {} /\ filter \in Filters /\ asked = filter /\ at = "idle"
        /\ answer = Unread /\ shown = Unread

-------------------------------------------------------------------------------
(* _date_range: from local midnight of the first day to that after the last.     *)
(* Mutant: bounds without the offset.                                            *)
MidnightUTC(day) == day * Hours
Midnight(day) == day * Hours - Offset

Selected(f, row) == /\ f.table # All => row.table = f.table
                    /\ f.from # All => row.closed >= Midnight(f.from)
                    /\ f.to # All => row.closed < Midnight(f.to + 1)

(* Mutant: the newest is the one with the greatest id.                           *)
LaterId(r, s) == r.id > s.id
Newer(r, s) == r.closed > s.closed \/ (r.closed = s.closed /\ r.id > s.id)
Places(S) == [row \in S |-> Cardinality({r \in S : Newer(r, row)}) + 1]
List(f) == Places({row \in rows : Selected(f, row)})

-------------------------------------------------------------------------------
Pass == /\ now < Hours * Days /\ now' = now + 1
        /\ UNCHANGED <<rows, filter, asked, at, answer, shown>>

(* Mutant: the time is taken from the store's clock.                             *)
StampLocal(time) == time + Offset
Stamp(time) == time

(* The history row of an order: closed_at is the time its close began, and      *)
(* another one that began later may have been committed first.                  *)
Close(t) == /\ Cardinality(rows) < MaxRows
            /\ \E began \in {now, now - 1} \cap Times :
                 rows' = rows \cup
                   {[id |-> Cardinality(rows) + 1, table |-> t, closed |-> Stamp(began)]}
            /\ UNCHANGED <<now, filter, asked, at, answer, shown>>

Edit(f) == /\ filter' = f /\ f # filter
           /\ UNCHANGED <<now, rows, asked, at, answer, shown>>

Load == /\ at = "idle" /\ at' = "sent" /\ asked' = filter
        /\ UNCHANGED <<now, rows, filter, answer, shown>>

Read == /\ at = "sent" /\ at' = "read"
        /\ answer' = [filter |-> asked, place |-> List(asked), count |-> Cardinality(rows)]
        /\ UNCHANGED <<now, rows, filter, asked, shown>>

Show == /\ at = "read" /\ at' = "idle" /\ shown' = answer
        /\ UNCHANGED <<now, rows, filter, asked, answer>>

(* An error leaves the list; what had been read is forgotten.                   *)
Fail == /\ at # "idle" /\ at' = "idle" /\ asked' = shown.filter /\ answer' = shown
        /\ UNCHANGED <<now, rows, filter, shown>>

Next == \/ Pass \/ Load \/ Read \/ Show \/ Fail
        \/ \E t \in Tables : Close(t)
        \/ \E f \in Filters : Edit(f)

Spec == Init /\ [][Next]_vars

-------------------------------------------------------------------------------
(* The clock of the store.                                                       *)
LocalTime(row) == row.closed + Offset

OnDays(f, time) == /\ f.from # All => time \div Hours >= f.from
                   /\ f.to # All => time \div Hours <= f.to

(* What is listed are the orders of the tables closed on the days picked, by the *)
(* store's clock and to the hour, as of the moment the list was read.            *)
RightDays == DOMAIN shown.place = {row \in rows : /\ row.id <= shown.count
                                                  /\ shown.filter.table \in {All, row.table}
                                                  /\ OnDays(shown.filter, LocalTime(row))}

(* The newest is listed first, also when closes were committed out of order; no  *)
(* two orders share a place.                                                     *)
NewestFirst == \A r, s \in DOMAIN shown.place :
                 /\ shown.place[r] = shown.place[s] => r = s
                 /\ shown.place[r] < shown.place[s] =>
                      r.closed >= s.closed /\ (r.closed = s.closed => r.id > s.id)

================================================================================
