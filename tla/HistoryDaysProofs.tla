--------------------------- MODULE HistoryDaysProofs ---------------------------
(* What holds of HistoryDays for any tables, day length, offset of the store's    *)
(* clock, filters and number of rows: a page lists exactly the orders of the days *)
(* picked, the newest first.                                                      *)
EXTENDS HistoryDays, FiniteSetTheorems, TLAPS

--------------------------------------------------------------------------------
(* Days.  The bounds in UTC select the hours of the store's days.                 *)

LEMMA Scale ==
  ASSUME NEW h \in Nat \ {0}, NEW x \in Int, NEW y \in Int, x <= y
  PROVE  h * x <= h * y /\ h * x \in Int /\ h * y \in Int
<1>1. \A a, b \in Int : a * b \in Int
  OBVIOUS
<1>2. \A a \in Nat, b \in Nat : a * b >= 0
  OBVIOUS
<1>3. y - x \in Nat
  OBVIOUS
<1>4. h * (y - x) >= 0
  BY <1>2, <1>3
<1>5. h * (y - x) = h * y - h * x
  OBVIOUS
<1> QED
  BY <1>1, <1>4, <1>5

LEMMA HourOfDay ==
  ASSUME NEW h \in Nat \ {0}, NEW t \in Int, NEW d \in Int
  PROVE  t \div h >= d <=> t >= d * h
<1> DEFINE q == t \div h
           r == t % h
<1>1. q \in Int /\ r \in Int /\ 0 <= r /\ r < h /\ t = h * q + r
  OBVIOUS
<1>2. h * q \in Int /\ h * d \in Int /\ d * h = h * d
  BY <1>1
<1> HIDE DEF q, r
<1>3. ASSUME d <= q PROVE h * d <= t
  <2>1. h * d <= h * q
    BY <1>1, <1>3, Scale
  <2> QED
    BY <1>1, <1>2, <2>1
<1>4. ASSUME q < d PROVE t < h * d
  <2>1. h * (q + 1) <= h * d
    BY <1>1, <1>4, Scale
  <2>2. h * (q + 1) = h * q + h
    BY <1>1
  <2> QED
    BY <1>1, <1>2, <2>1, <2>2
<1> QED
  BY <1>1, <1>2, <1>3, <1>4 DEF q

LEMMA SelectedDays ==
  ASSUME NEW f \in Filters, NEW row \in Rows
  PROVE  Selected(f, row) <=> f.table \in {All, row.table} /\ OnDays(f, LocalTime(row))
<1>1. /\ Hours \in Nat \ {0} /\ Offset \in Int /\ f.from \in Int /\ f.to \in Int
      /\ row.closed \in Int
  BY DaysAssumption DEF Rows, Times
<1>2. /\ f.from * Hours \in Int /\ (f.to + 1) * Hours \in Int
      /\ (row.closed + Offset) \in Int /\ (row.closed + Offset) \div Hours \in Int
  BY <1>1
<1>3. row.closed >= Midnight(f.from) <=> LocalTime(row) \div Hours >= f.from
  <2>1. (row.closed + Offset) \div Hours >= f.from <=> row.closed + Offset >= f.from * Hours
    BY <1>1, <1>2, HourOfDay
  <2> QED
    BY <1>1, <1>2, <2>1 DEF Midnight, LocalTime
<1>4. row.closed < Midnight(f.to + 1) <=> LocalTime(row) \div Hours <= f.to
  <2>1. (row.closed + Offset) \div Hours >= f.to + 1
          <=> row.closed + Offset >= (f.to + 1) * Hours
    BY <1>1, <1>2, HourOfDay
  <2> QED
    BY <1>1, <1>2, <2>1 DEF Midnight, LocalTime
<1> QED
  BY <1>3, <1>4 DEF Selected, OnDays

--------------------------------------------------------------------------------
(* Places.                                                                        *)

LEMMA PlacesTyped ==
  ASSUME NEW S, IsFiniteSet(S)
  PROVE  DOMAIN Places(S) = S /\ Places(S) \in [S -> Nat \ {0}]
<1>1. ASSUME NEW row \in S PROVE Cardinality({r \in S : Newer(r, row)}) + 1 \in Nat \ {0}
  <2>1. IsFiniteSet({r \in S : Newer(r, row)})
    BY FS_Subset
  <2> QED
    BY <2>1, FS_CardinalityType
<1> QED
  BY <1>1 DEF Places

(* A newer row is listed before an older one.                                     *)
LEMMA NewerFirst ==
  ASSUME NEW S \in SUBSET Rows, IsFiniteSet(S), NEW r \in S, NEW s \in S, Newer(r, s)
  PROVE  Places(S)[r] < Places(S)[s]
<1> DEFINE Before(x) == {y \in S : Newer(y, x)}
<1>1. \A x \in S : x.id \in Int /\ x.closed \in Int
  BY DEF Rows, Times
<1>2. \A y \in S : Newer(y, r) => Newer(y, s)
  BY <1>1 DEF Newer
<1>3. ~Newer(r, r)
  BY <1>1 DEF Newer
<1>4. Before(r) \subseteq Before(s) /\ Before(r) # Before(s)
  BY <1>2, <1>3, Zenon
<1>5. IsFiniteSet(Before(r)) /\ IsFiniteSet(Before(s))
  BY FS_Subset
<1>6. Places(S)[r] = Cardinality(Before(r)) + 1 /\ Places(S)[s] = Cardinality(Before(s)) + 1
  BY DEF Places
<1> HIDE DEF Before
<1> QED
  BY <1>4, <1>5, <1>6, FS_Subset, FS_CardinalityType

LEMMA PlacesInOrder ==
  ASSUME NEW S \in SUBSET Rows, IsFiniteSet(S), \A r, s \in S : r.id = s.id => r = s
  PROVE  \A r, s \in S : /\ Places(S)[r] = Places(S)[s] => r = s
                         /\ Places(S)[r] < Places(S)[s] => Newer(r, s)
<1> SUFFICES ASSUME NEW r \in S, NEW s \in S
             PROVE  /\ Places(S)[r] = Places(S)[s] => r = s
                    /\ Places(S)[r] < Places(S)[s] => Newer(r, s)
  OBVIOUS
<1>1. Places(S)[r] \in Nat /\ Places(S)[s] \in Nat
  BY PlacesTyped
<1>2. r.id \in Int /\ s.id \in Int /\ r.closed \in Int /\ s.closed \in Int
  BY DEF Rows, Times
<1>3. r = s \/ Newer(r, s) \/ Newer(s, r)
  BY <1>2 DEF Newer
<1>4. /\ Newer(r, s) => Places(S)[r] < Places(S)[s]
      /\ Newer(s, r) => Places(S)[s] < Places(S)[r]
  BY NewerFirst
<1> QED
  BY <1>1, <1>3, <1>4

--------------------------------------------------------------------------------
(* Rows are numbered as they are stored.  A list holds the rows of its filter     *)
(* among those there were, in their places.                                       *)

Numbered == /\ IsFiniteSet(rows) /\ Cardinality(rows) <= MaxRows
            /\ \A row \in rows : row.id <= Cardinality(rows)
            /\ \A r, s \in rows : r.id = s.id => r = s
Held(l) == DOMAIN l.place = {row \in rows : row.id <= l.count /\ Selected(l.filter, row)}
Sorted(l) == \A r, s \in DOMAIN l.place : /\ l.place[r] = l.place[s] => r = s
                                          /\ l.place[r] < l.place[s] => Newer(r, s)
Right(l) == l.count <= Cardinality(rows) /\ Held(l) /\ Sorted(l)
HistoryInv == TypeOK /\ Numbered /\ Right(answer) /\ Right(shown)

LEMMA InitHistory == Init => HistoryInv
<1> SUFFICES ASSUME Init PROVE HistoryInv
  OBVIOUS
<1> DEFINE none == [row \in {} |-> 0]
<1>1. DOMAIN none = {} /\ none \in [{} -> Nat \ {0}]
  OBVIOUS
<1>2. shown.filter = filter /\ shown.place = none /\ shown.count = 0 /\ answer = shown
  BY DEF Init, Unread
<1>3. shown \in [filter : Filters, count : 0 .. MaxRows, place : [{} -> Nat \ {0}]]
  BY <1>1, DaysAssumption DEF Init, Unread
<1> HIDE DEF none
<1>4. IsList(shown) /\ IsList(answer)
  BY <1>1, <1>2, <1>3 DEF IsList
<1>5. 0 \in Times
  BY DaysAssumption DEF Times
<1>6. TypeOK
  BY <1>4, <1>5 DEF Init, TypeOK
<1>7. IsFiniteSet(rows) /\ Cardinality(rows) = 0
  BY FS_EmptySet DEF Init
<1>8. Numbered
  BY <1>7, DaysAssumption DEF Init, Numbered
<1>9. Right(shown) /\ Right(answer)
  BY <1>1, <1>2, <1>7 DEF Init, Right, Held, Sorted
<1> QED
  BY <1>6, <1>8, <1>9 DEF HistoryInv

LEMMA CloseStep ==
  ASSUME HistoryInv, NEW t \in Tables, Close(t)
  PROVE  HistoryInv'
<1>1. PICK began \in {now, now - 1} \cap Times :
        rows' = rows \cup {[id |-> Cardinality(rows) + 1, table |-> t, closed |-> Stamp(began)]}
  BY DEF Close
<1> DEFINE new == [id |-> Cardinality(rows) + 1, table |-> t, closed |-> Stamp(began)]
<1>2. /\ UNCHANGED <<now, filter, asked, at, answer, shown>>
      /\ Cardinality(rows) \in Nat /\ Cardinality(rows) < MaxRows /\ MaxRows \in Nat
  BY FS_CardinalityType, DaysAssumption DEF Close, HistoryInv, Numbered
<1>3. new \in Rows /\ new.id = Cardinality(rows) + 1
  BY <1>2 DEF Rows, Stamp
<1>4. rows' = rows \cup {new}
  BY <1>1
<1> HIDE DEF new
<1>5. \A row \in rows : row.id \in Int /\ row.id <= Cardinality(rows)
  BY DEF HistoryInv, TypeOK, Numbered, Rows
<1>6. new \notin rows
  BY <1>2, <1>3, <1>5
<1>7. IsFiniteSet(rows') /\ Cardinality(rows') = Cardinality(rows) + 1
  BY <1>4, <1>6, FS_AddElement DEF HistoryInv, Numbered
<1>8. TypeOK'
  BY <1>2, <1>3, <1>4 DEF HistoryInv, TypeOK, IsList
<1>9. Numbered'
  <2>1. \A row \in rows' : row.id <= Cardinality(rows')
    BY <1>2, <1>3, <1>4, <1>5, <1>7
  <2>2. \A r, s \in rows' : r.id = s.id => r = s
    BY <1>2, <1>3, <1>4, <1>5 DEF HistoryInv, Numbered
  <2> QED
    BY <1>2, <1>7, <2>1, <2>2 DEF Numbered
<1>10. ASSUME NEW l, Right(l), l.count \in Nat
       PROVE  /\ l.count <= Cardinality(rows')
              /\ DOMAIN l.place = {row \in rows' : row.id <= l.count /\ Selected(l.filter, row)}
  BY <1>2, <1>3, <1>4, <1>7, <1>10 DEF Right, Held, Sorted
<1>11. answer.count \in Nat /\ shown.count \in Nat
  BY DEF HistoryInv, TypeOK, IsList
<1>12. Right(answer)' /\ Right(shown)'
  BY <1>2, <1>10, <1>11 DEF HistoryInv, Right, Held, Sorted, Selected
<1> QED
  BY <1>8, <1>9, <1>12 DEF HistoryInv

LEMMA ReadStep ==
  ASSUME HistoryInv, Read
  PROVE  HistoryInv'
<1> DEFINE S == {row \in rows : Selected(asked, row)}
<1>1. /\ UNCHANGED <<now, rows, filter, asked, shown>> /\ at' = "read"
      /\ answer' = [filter |-> asked, place |-> Places(S), count |-> Cardinality(rows)]
  BY DEF Read, List
<1>2. S \in SUBSET Rows /\ IsFiniteSet(S) /\ \A r, s \in S : r.id = s.id => r = s
  BY FS_Subset DEF HistoryInv, TypeOK, Numbered
<1>3. S = {row \in rows : row.id <= Cardinality(rows) /\ Selected(asked, row)}
  BY DEF HistoryInv, Numbered
<1> HIDE DEF S
<1>4. DOMAIN Places(S) = S /\ Places(S) \in [S -> Nat \ {0}]
  BY <1>2, PlacesTyped
<1>5. Cardinality(rows) \in 0 .. MaxRows
  BY FS_CardinalityType, DaysAssumption DEF HistoryInv, Numbered
<1>6. answer'.place = Places(S) /\ answer'.filter = asked /\ answer'.count = Cardinality(rows)
  BY <1>1
<1>7. IsList(answer')
  BY <1>1, <1>2, <1>4, <1>5, <1>6 DEF IsList, HistoryInv, TypeOK
<1>8. Right(answer)'
  <2>1. DOMAIN answer'.place = S
    BY <1>4, <1>6
  <2>2. \A r, s \in S : /\ Places(S)[r] = Places(S)[s] => r = s
                        /\ Places(S)[r] < Places(S)[s] => Newer(r, s)
    BY <1>2, PlacesInOrder
  <2>3. \A r, s \in DOMAIN answer'.place : /\ answer'.place[r] = answer'.place[s] => r = s
                                           /\ answer'.place[r] < answer'.place[s] => Newer(r, s)
    BY <1>6, <2>1, <2>2
  <2>4. DOMAIN answer'.place
          = {row \in rows' : row.id <= answer'.count /\ Selected(answer'.filter, row)}
    BY <1>1, <1>3, <1>6, <2>1
  <2>5. answer'.count <= Cardinality(rows')
    BY <1>1, <1>5, <1>6
  <2>6. Held(answer)'
    BY <2>4 DEF Held, Selected
  <2>7. Sorted(answer)'
    BY <2>3 DEF Sorted
  <2> QED
    BY <2>5, <2>6, <2>7 DEF Right
<1>9. TypeOK' /\ Numbered' /\ Right(shown)'
  BY <1>1, <1>7 DEF HistoryInv, TypeOK, Numbered, Right, Held, Sorted, IsList, Selected
<1> QED
  BY <1>8, <1>9 DEF HistoryInv

LEMMA HistoryStep == HistoryInv /\ [Next]_vars => HistoryInv'
<1> SUFFICES ASSUME HistoryInv, [Next]_vars PROVE HistoryInv'
  OBVIOUS
<1>a. ASSUME rows' = rows, now' \in Times, filter' \in Filters, asked' \in Filters,
             at' \in {"idle", "sent", "read"}, answer' \in {answer, shown},
             shown' \in {answer, shown}
      PROVE  HistoryInv'
  <2>1. TypeOK'
    BY <1>a DEF HistoryInv, TypeOK, IsList
  <2>2. Numbered'
    BY <1>a DEF HistoryInv, Numbered
  <2>3. Right(answer)' /\ Right(shown)'
    BY <1>a DEF HistoryInv, Right, Held, Sorted
  <2> QED
    BY <2>1, <2>2, <2>3 DEF HistoryInv
<1> USE DEF HistoryInv, TypeOK
<1>1. CASE UNCHANGED vars
  BY <1>1, <1>a DEF vars
<1>2. CASE Pass
  BY <1>2, <1>a, DaysAssumption DEF Pass, Times
<1>3. CASE Load
  BY <1>3, <1>a DEF Load
<1>4. CASE Read
  BY <1>4, ReadStep
<1>5. CASE Show
  BY <1>5, <1>a DEF Show
<1>6. CASE Fail
  BY <1>6, <1>a DEF Fail, IsList
<1>7. ASSUME NEW t \in Tables, Close(t) PROVE HistoryInv'
  BY <1>7, CloseStep
<1>8. ASSUME NEW f \in Filters, Edit(f) PROVE HistoryInv'
  BY <1>8, <1>a DEF Edit
<1> QED
  BY <1>1, <1>2, <1>3, <1>4, <1>5, <1>6, <1>7, <1>8 DEF Next

--------------------------------------------------------------------------------
(* The clock, the rows, the inputs and the lists keep their types.                *)
THEOREM HistoryTypeCorrect == Spec => []TypeOK
<1>1. HistoryInv => TypeOK
  BY DEF HistoryInv
<1> QED
  BY <1>1, InitHistory, HistoryStep, PTL DEF Spec

(* A page lists exactly the orders closed on the days picked, by the store's      *)
(* clock, among those there were when the list was read (_date_range makes the    *)
(* bounds in UTC), whatever is closed or typed in meanwhile.                      *)
THEOREM ListsRightDays == Spec => []RightDays
<1>1. ASSUME HistoryInv PROVE RightDays
  <2>1. shown.filter \in Filters /\ rows \subseteq Rows
    BY <1>1 DEF HistoryInv, TypeOK, IsList
  <2>2. \A row \in rows : Selected(shown.filter, row) <=>
          shown.filter.table \in {All, row.table} /\ OnDays(shown.filter, LocalTime(row))
    BY <2>1, SelectedDays
  <2> QED
    BY <1>1, <2>2 DEF HistoryInv, Right, Held, Sorted, RightDays
<1> QED
  BY <1>1, InitHistory, HistoryStep, PTL DEF Spec

(* The newest order is listed first and no two share a place, also when closes    *)
(* were committed in another order than they began.                               *)
THEOREM ListsNewestFirst == Spec => []NewestFirst
<1>1. ASSUME HistoryInv PROVE NewestFirst
  <2>1. \A r \in DOMAIN shown.place : r.closed \in Int
    BY <1>1 DEF HistoryInv, TypeOK, IsList, Rows, Times
  <2> QED
    BY <1>1, <2>1 DEF HistoryInv, Right, Held, Sorted, NewestFirst, Newer
<1> QED
  BY <1>1, InitHistory, HistoryStep, PTL DEF Spec

================================================================================
