------------------------------ MODULE OrderNumbers -----------------------------
(* next_order_number and max_order_number_today: the number of an order is a     *)
(* text, and the greatest number of the day is the greatest text.  The race of   *)
(* two orders for a number is a subject of TableOrders, here orders come one by  *)
(* one.  Base 10 and Width 3 are the code's.                                     *)
EXTENDS Integers, Sequences

CONSTANTS Base, Width, \* digits, and the width texts are padded to
          MaxSeq,      \* bound on the sequence numbers of a day
          Days         \* bound on the days that pass

VARIABLES live, \* day and text of every row of the table order
          today

vars == <<live, today>>

Digits == 0 .. Base - 1
TypeOK == /\ today \in 1 .. Days
          /\ \A n \in live : /\ n.day \in 1 .. today /\ n.text \in Seq(Digits)
                             /\ Len(n.text) >= Width

Init == live = {} /\ today = 1

-------------------------------------------------------------------------------
WidthOf(seq) == IF seq < Base ^ Width THEN Width
                ELSE CHOOSE w \in Width .. seq : Base ^ (w - 1) <= seq /\ seq < Base ^ w

Text(seq) == [i \in 1 .. WidthOf(seq) |-> (seq \div Base ^ (WidthOf(seq) - i)) % Base]
Value(text) == CHOOSE seq \in 0 .. MaxSeq + 1 : Text(seq) = text

(* The order of texts: at the first difference, or by length.                  *)
Precedes(s, t) ==
  \/ Len(s) < Len(t) /\ \A i \in DOMAIN s : s[i] = t[i]
  \/ \E i \in DOMAIN s \cap DOMAIN t : s[i] < t[i] /\ \A j \in 1 .. i - 1 : s[j] = t[j]

TextsOfDay == {n.text : n \in {m \in live : m.day = today}}

Greatest == CHOOSE t \in TextsOfDay : \A s \in TextsOfDay \ {t} : Precedes(s, t)

NextSeq == IF TextsOfDay = {} THEN 1 ELSE Value(Greatest) + 1

(* An order whose number is taken fails.                                       *)
Order == /\ NextSeq <= MaxSeq
         /\ [day |-> today, text |-> Text(NextSeq)] \notin live
         /\ live' = live \cup {[day |-> today, text |-> Text(NextSeq)]}
         /\ UNCHANGED today

(* Deleted, or archived by a close.                                            *)
Leave(n) == n \in live /\ live' = live \ {n} /\ UNCHANGED today

Midnight == today < Days /\ today' = today + 1 /\ UNCHANGED live

Next == Order \/ Midnight \/ \E n \in live : Leave(n)

Spec == Init /\ [][Next]_vars

-------------------------------------------------------------------------------
(* U4-NFR-6.4: numbers of a day grow.  The greatest text is the number issued  *)
(* last, whatever orders have left, so no order alone is refused its number.   *)
NextIsNew == \A t \in TextsOfDay : Value(t) < NextSeq

================================================================================
