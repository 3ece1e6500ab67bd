--------------------------- MODULE OrderPagesProofs ----------------------------
(* What holds of OrderPages for any number of orders, any page size and any      *)
(* failures: if React renders before the observer reports, the list shows every  *)
(* order once and in order, and skips none but one whose id had been passed.     *)
EXTENDS OrderPages, FiniteSetTheorems, SequenceTheorems, WellFoundedInduction, TLAPS

-------------------------------------------------------------------------------
(* Least and greatest ids.                                                       *)

Less == {ss \in Nat \X Nat : ss[1] < ss[2]}

LEMMA HasLeast ==
  ASSUME NEW S \in SUBSET Nat, S # {}
  PROVE  \E x \in S : \A y \in S : x <= y
<1>1. IsWellFoundedOn(OpToRel(<, Nat), Nat)
  BY NatLessThanWellFounded
<1>2. IsWellFoundedOn(Less, Nat)
  BY <1>1, Zenon DEF Less, OpToRel
<1>3. PICK x \in S : \A y \in S : ~(<<y, x>> \in Less)
  BY <1>2, WFMin, Zenon
<1>4. ASSUME NEW y \in S PROVE x <= y
  <2>1. x \in Nat /\ y \in Nat
    OBVIOUS
  <2>2. <<y, x>> \in Nat \X Nat
    BY <2>1
  <2>3. <<y, x>>[1] = y /\ <<y, x>>[2] = x
    OBVIOUS
  <2>4. ~(y < x)
    BY <1>3, <2>2, <2>3, Zenon DEF Less
  <2> QED
    BY <2>1, <2>4
<1> QED
  BY <1>4

LEMMA HasGreatest ==
  ASSUME NEW n \in Nat, NEW S \in SUBSET (0 .. n), S # {}
  PROVE  Max(S) \in S /\ \A y \in S : Max(S) >= y
<1> DEFINE T == {n - x : x \in S}
<1>1. T \in SUBSET Nat
  OBVIOUS
<1>2. T # {}
  OBVIOUS
<1>3. \E d \in T : \A e \in T : d <= e
  <2> HIDE DEF T
  <2> QED
    BY <1>1, <1>2, HasLeast
<1>4. PICK x \in S : \A y \in S : n - x <= n - y
  BY <1>3
<1>5. ASSUME NEW y \in S PROVE x >= y
  <2>1. n - x <= n - y
    BY <1>4
  <2>2. x \in Int /\ y \in Int
    OBVIOUS
  <2> QED
    BY <2>1, <2>2
<1> QED
  BY <1>5 DEF Max

-------------------------------------------------------------------------------
(* Pages.                                                                        *)

StoredTyped == MaxOrders \in Nat /\ stored \subseteq 1 .. MaxOrders

LEMMA AfterFinite ==
  ASSUME StoredTyped, NEW cursor, NEW S \in SUBSET After(cursor)
  PROVE  IsFiniteSet(S)
<1>1. IsFiniteSet(1 .. MaxOrders)
  BY FS_Interval DEF StoredTyped
<1>2. S \subseteq 1 .. MaxOrders
  BY DEF After, StoredTyped
<1> QED
  BY <1>1, <1>2, FS_Subset

(* A page leaves nothing out before an order that it has.                        *)
LEMMA PageClosed ==
  ASSUME StoredTyped, NEW cursor \in Int,
         NEW p \in Page(cursor), NEW o \in stored, o > cursor, o < p
  PROVE  o \in Page(cursor)
<1> DEFINE Before(x) == {y \in After(cursor) : y < x}
<1>1. o \in After(cursor) /\ p \in After(cursor) /\ o \in Int /\ p \in Int
  BY DEF After, Page, StoredTyped
<1>2. Before(o) \subseteq Before(p)
  <2>1. \A y \in After(cursor) : y \in Int
    BY DEF After, StoredTyped
  <2>2. \A y \in After(cursor) : y < o => y < p
    BY <1>1, <2>1
  <2> QED
    BY <2>2, Zenon
<1>3. IsFiniteSet(Before(o)) /\ IsFiniteSet(Before(p))
  BY AfterFinite
<1> HIDE DEF Before
<1>4. /\ Cardinality(Before(o)) <= Cardinality(Before(p))
      /\ Cardinality(Before(o)) \in Nat /\ Cardinality(Before(p)) \in Nat
  BY <1>2, <1>3, FS_Subset, FS_CardinalityType
<1>5. Cardinality(Before(p)) < PageSize
  BY DEF Page, Before
<1> QED
  BY <1>1, <1>4, <1>5, PagesAssumption DEF Page, Before

(* A page that does not hold all that follows the cursor holds something.        *)
LEMMA PageNotEmpty ==
  ASSUME StoredTyped, NEW cursor \in Int, Page(cursor) # After(cursor)
  PROVE  Page(cursor) # {}
<1>0. After(cursor) # {}
  BY DEF Page
<1>1. After(cursor) \in SUBSET Nat
  <2>1. \A y \in After(cursor) : y \in Nat
    BY DEF After, StoredTyped
  <2> QED
    BY <2>1
<1>2. PICK o \in After(cursor) : \A p \in After(cursor) : o <= p
  BY <1>0, <1>1, HasLeast
<1>3. {p \in After(cursor) : p < o} = {}
  BY <1>1, <1>2
<1>4. Cardinality({p \in After(cursor) : p < o}) = 0
  BY <1>3, FS_EmptySet
<1> QED
  BY <1>4, PagesAssumption DEF Page

LEMMA NextIsLast ==
  ASSUME StoredTyped, NEW cursor \in Int, NextCursor(cursor) # Done
  PROVE  /\ NextCursor(cursor) \in Page(cursor)
         /\ \A o \in Page(cursor) : o <= NextCursor(cursor)
<1>1. Page(cursor) # {} /\ NextCursor(cursor) = Max(Page(cursor))
  BY PageNotEmpty DEF NextCursor
<1>0. MaxOrders \in Nat /\ stored \subseteq 0 .. MaxOrders
  BY DEF StoredTyped
<1>2. Page(cursor) \in SUBSET (0 .. MaxOrders)
  BY <1>0 DEF Page, After
<1>3. Max(Page(cursor)) \in Page(cursor) /\ \A o \in Page(cursor) : Max(Page(cursor)) >= o
  BY <1>0, <1>1, <1>2, HasGreatest
<1>4. \A o \in Page(cursor) : o \in Int
  BY <1>2
<1> QED
  BY <1>1, <1>3, <1>4

(* What a page adds to the list.                                                 *)
OnPages(pages) == UNION Range(pages)

LEMMA OnPagesIs ==
  ASSUME NEW pages, NEW x
  PROVE  x \in OnPages(pages) <=> \E i \in DOMAIN pages : x \in pages[i]
BY DEF OnPages, Range

LEMMA AppendListed ==
  ASSUME NEW pages \in Seq(SUBSET Ids), NEW page \in SUBSET Ids
  PROVE  /\ Append(pages, page) \in Seq(SUBSET Ids)
         /\ OnPages(Append(pages, page)) = OnPages(pages) \cup page
         /\ \A i \in DOMAIN Append(pages, page) :
              \/ Append(pages, page)[i] = page /\ i = Len(pages) + 1
              \/ i \in DOMAIN pages /\ Append(pages, page)[i] = pages[i] /\ i < Len(pages) + 1
<1> DEFINE longer == Append(pages, page)
<1>1. /\ longer \in Seq(SUBSET Ids) /\ Len(pages) \in Nat
      /\ DOMAIN pages = 1 .. Len(pages) /\ DOMAIN longer = 1 .. Len(pages) + 1
      /\ \A i \in DOMAIN longer : longer[i] = IF i = Len(pages) + 1 THEN page ELSE pages[i]
  OBVIOUS
<1> HIDE DEF longer
<1>2. ASSUME NEW i \in DOMAIN longer
      PROVE  \/ longer[i] = page /\ i = Len(pages) + 1
             \/ i \in DOMAIN pages /\ longer[i] = pages[i] /\ i < Len(pages) + 1
  <2>1. CASE i = Len(pages) + 1
    BY <1>1, <2>1
  <2>2. CASE i # Len(pages) + 1
    <3>1. i \in 1 .. Len(pages) /\ i < Len(pages) + 1
      BY <1>1, <2>2
    <3> QED
      BY <1>1, <2>2, <3>1
  <2> QED
    BY <2>1, <2>2
<1>3. /\ Len(pages) + 1 \in DOMAIN longer /\ longer[Len(pages) + 1] = page
      /\ \A i \in DOMAIN pages : i \in DOMAIN longer /\ longer[i] = pages[i]
  BY <1>1
<1>4. OnPages(longer) = OnPages(pages) \cup page
  <2>1. \A x : x \in OnPages(longer) <=> \E i \in DOMAIN longer : x \in longer[i]
    BY OnPagesIs
  <2>2. \A x : x \in OnPages(pages) <=> \E i \in DOMAIN pages : x \in pages[i]
    BY OnPagesIs
  <2>3. ASSUME NEW i \in DOMAIN longer, NEW x \in longer[i]
        PROVE  x \in OnPages(pages) \cup page
    BY <1>2, <2>2, <2>3
  <2>4. ASSUME NEW x \in page PROVE x \in OnPages(longer)
    BY <1>3, <2>1, <2>4
  <2>5. ASSUME NEW i \in DOMAIN pages, NEW x \in pages[i] PROVE x \in OnPages(longer)
    BY <1>3, <2>1, <2>5
  <2> HIDE DEF longer
  <2> QED
    BY <2>1, <2>2, <2>3, <2>4, <2>5
<1> QED
  BY <1>1, <1>2, <1>4 DEF longer

-------------------------------------------------------------------------------
(* Typing.  Only a null cursor says that there is no more.                       *)

Followed(s) == s.more => s.cursor # Done
TypeInv == TypeOK /\ Followed(state) /\ Followed(rendered)

LEMMA RequestTyped == \A cursor \in Ids : Request(cursor) \in Requests
BY DEF Request, Requests

LEMMA InitTyped == Init => TypeInv
<1> SUFFICES ASSUME Init PROVE TypeInv
  OBVIOUS
<1>1. Start \in States /\ [Start EXCEPT !.loading = TRUE] \in States
  <2>1. 0 \in Ids \cup {Done} /\ TRUE \in BOOLEAN /\ FALSE \in BOOLEAN
    BY PagesAssumption DEF Ids
  <2>2. Start \in States
    BY <2>1 DEF Start, States
  <2>3. [Start EXCEPT !.loading = TRUE] \in States
    BY <2>2, Zenon DEF States
  <2> QED
    BY <2>2, <2>3
<1>2. requests \in Seq(Requests) /\ loaded \in Seq(SUBSET Ids)
  <2>1. Request(0) \in Requests
    BY RequestTyped, PagesAssumption DEF Ids
  <2> QED
    BY <2>1 DEF Init
<1>3. Followed(state) /\ Followed(rendered)
  BY DEF Init, Followed, Start, Done
<1> QED
  BY <1>1, <1>2, <1>3, PagesAssumption DEF Init, TypeInv, TypeOK

LEMMA TypedStored == TypeOK => StoredTyped
BY PagesAssumption DEF TypeOK, StoredTyped, Ids

LEMMA NextTyped ==
  ASSUME TypeOK, NEW cursor \in Ids
  PROVE  Page(cursor) \in SUBSET Ids /\ NextCursor(cursor) \in Ids \cup {Done}
<1>1. StoredTyped /\ cursor \in Int /\ stored \subseteq Ids
  BY TypedStored, PagesAssumption DEF TypeOK, Ids
<1>2. Page(cursor) \in SUBSET Ids
  BY <1>1 DEF Page, After
<1> QED
  BY <1>1, <1>2, NextIsLast

LEMMA HeadTyped ==
  ASSUME TypeOK, requests # <<>>
  PROVE  Head(requests) \in Requests /\ Tail(requests) \in Seq(Requests)
BY DEF TypeOK

LEMMA AtTyped ==
  ASSUME TypeOK, NEW i \in DOMAIN requests
  PROVE  /\ requests[i] \in Requests
         /\ requests[i].cursor \in Ids /\ requests[i].page \in SUBSET Ids
<1>1. requests \in Seq(Requests)
  BY DEF TypeOK
<1>2. requests[i] \in Requests
  BY <1>1
<1> QED
  BY <1>2 DEF Requests

LEMMA TypeStep == TypeInv /\ [Next]_vars => TypeInv'
<1> SUFFICES ASSUME TypeInv, [Next]_vars PROVE TypeInv'
  OBVIOUS
<1> USE DEF TypeInv, TypeOK
<1>1. CASE UNCHANGED vars
  BY <1>1 DEF vars, Followed
<1>2. CASE Place
  <2>1. stored' \subseteq Ids \ {0} /\ late' \subseteq stored'
    BY <1>2 DEF Place
  <2> QED
    BY <1>2, <2>1 DEF Place, Followed
<1>3. ASSUME NEW o \in stored, Delete(o) PROVE TypeInv'
  BY <1>3 DEF Delete, Followed
<1>4. CASE Render
  BY <1>4 DEF Render, Followed
<1>5. CASE InView
  <2>1. CASE MayLoad
    <3>1. rendered.cursor \in Ids
      BY <2>1 DEF MayLoad, Followed, States
    <3>2. requests' \in Seq(Requests)
      <4>1. requests' = Append(requests, Request(rendered.cursor))
        BY <1>5, <2>1 DEF InView
      <4>2. \A S, seq, c : seq \in Seq(S) /\ c \in S => Append(seq, c) \in Seq(S)
        OBVIOUS
      <4> QED
        BY <3>1, <4>1, <4>2, RequestTyped
    <3>3. state' \in States /\ Followed(state')
      <4>1. state' = [state EXCEPT !.loading = TRUE]
        BY <1>5, <2>1 DEF InView
      <4>2. /\ state' \in States
            /\ state'.cursor = state.cursor /\ state'.more = state.more
        BY <4>1 DEF States
      <4> QED
        BY <4>2 DEF Followed
    <3> QED
      BY <1>5, <3>2, <3>3 DEF InView, Followed
  <2>2. CASE ~MayLoad
    BY <1>5, <2>2 DEF InView, Followed
  <2> QED
    BY <2>1, <2>2
<1>6. CASE Arrive
  <2>1. requests # <<>> /\ Head(requests).next # Unread
    BY <1>6 DEF Arrive, Answerable
  <2>2. /\ requests' \in Seq(Requests)
        /\ Head(requests).page \in SUBSET Ids /\ Head(requests).next \in Ids \cup {Done}
    BY <1>6, <2>1, HeadTyped DEF Arrive, Requests
  <2>3. loaded' \in Seq(SUBSET Ids)
    BY <1>6, <2>2 DEF Arrive
  <2>4. state' \in States /\ Followed(state')
    BY <1>6, <2>2 DEF Arrive, Advanced, States, Followed
  <2> QED
    BY <1>6, <2>2, <2>3, <2>4 DEF Arrive, Followed
<1>7. CASE Fail
  <2>1. requests' \in Seq(Requests)
    BY <1>7, HeadTyped DEF Fail, Answerable
  <2>2. state' \in States /\ Followed(state')
    BY <1>7 DEF Fail, States, Followed
  <2> QED
    BY <1>7, <2>1, <2>2, PagesAssumption DEF Fail, Followed
<1>8. ASSUME NEW i \in DOMAIN requests, Read(i) PROVE TypeInv'
  <2>1. requests[i] \in Requests /\ requests[i].cursor \in Ids
    BY AtTyped
  <2> DEFINE page == Page(requests[i].cursor)
             next == NextCursor(requests[i].cursor)
  <2>2. page \in SUBSET Ids /\ next \in Ids \cup {Done, Unread}
    BY <2>1, NextTyped
  <2>3. requests' = [requests EXCEPT ![i].page = page, ![i].next = next]
    BY <1>8 DEF Read
  <2> HIDE DEF page, next
  <2>4. requests' = [requests EXCEPT ![i] = [requests[i] EXCEPT !.page = page, !.next = next]]
    BY <2>3
  <2>5. [requests[i] EXCEPT !.page = page, !.next = next] \in Requests
    BY <2>1, <2>2 DEF Requests
  <2>6. requests' \in Seq(Requests)
    BY <2>4, <2>5
  <2> QED
    BY <1>8, <2>6 DEF Read, Followed
<1> QED
  BY <1>1, <1>2, <1>3, <1>4, <1>5, <1>6, <1>7, <1>8 DEF Next, Loading

-------------------------------------------------------------------------------
(* The list.  While there is more, there is one request at most, which asks for  *)
(* what follows the cursor; the list goes up to the cursor, and the page on its  *)
(* way goes on from there, and both leave out none but late orders.              *)

OneRequest ==
  requests # <<>> => /\ Len(requests) = 1 /\ requests[1].cursor = state.cursor
                     /\ state.loading /\ state.more
UpToCursor ==
  state.more => /\ state.cursor = 0 \/ state.cursor \in Listed
                /\ \A l \in Listed : l <= state.cursor
                /\ \A o \in stored \ late : o <= state.cursor => o \in Listed
GoesOn(r) == /\ \A p \in r.page : p > r.cursor
             /\ \A p \in r.page : \A o \in stored \ late : o > r.cursor /\ o < p => o \in r.page
             /\ r.next \in Ids => r.next \in r.page /\ \A p \in r.page : p <= r.next
             /\ r.next = Unread => r.page = {}
PagesGoOn == \A i \in DOMAIN requests : GoesOn(requests[i])
ListInv == OneRequest /\ UpToCursor /\ InOrder /\ NoGap /\ PagesGoOn

LEMMA ListedTyped == TypeOK => Listed \subseteq Ids /\ OnTheWay \subseteq Ids
<1> SUFFICES ASSUME TypeOK PROVE Listed \subseteq Ids /\ OnTheWay \subseteq Ids
  OBVIOUS
<1>1. \A i \in DOMAIN loaded : loaded[i] \in SUBSET Ids
  BY DEF TypeOK
<1>2. \A i \in DOMAIN requests : requests[i].page \in SUBSET Ids
  BY AtTyped
<1> QED
  BY <1>1, <1>2 DEF Listed, OnTheWay, Range

LEMMA OnTheWayIs == \A i \in DOMAIN requests : requests[i].page \subseteq OnTheWay
BY DEF OnTheWay, Range

(* The orders that are not late are those there were, or new ones after all that *)
(* has been read.                                                                *)
Fresh == \A o \in stored' \ late' :
           \/ o \in stored \ late
           \/ o \in Ids \ {0} /\ \A l \in Listed \cup OnTheWay : o > l

LEMMA PlaceFresh == TypeOK /\ Place => Fresh
<1> SUFFICES ASSUME TypeOK, Place PROVE Fresh
  OBVIOUS
<1>1. PICK id \in Ids \ {0} :
        /\ stored' = stored \cup {id}
        /\ late' = late \cup {n \in {id} : \E l \in Listed \cup OnTheWay : n <= l}
  BY DEF Place
<1>2. \A l \in Listed \cup OnTheWay \cup Ids : l \in Int
  BY ListedTyped DEF Ids
<1>3. id \notin late' => \A l \in Listed \cup OnTheWay : id > l
  BY <1>1, <1>2
<1> QED
  BY <1>1, <1>3 DEF Fresh

LEMMA ListKept ==
  ASSUME TypeInv, TypeInv', ListInv, loaded' = loaded, Fresh,
         state'.more => state.more /\ state'.cursor = state.cursor, OneRequest',
         \A i \in DOMAIN requests' : \/ i \in DOMAIN requests /\ requests'[i] = requests[i]
                                     \/ requests'[i].page = {} /\ requests'[i].next \notin Ids
  PROVE  ListInv'
<1>1. Listed' = Listed /\ InOrder'
  BY DEF Listed, ListInv, InOrder
<1>2. \A l \in Listed \cup OnTheWay \cup stored \cup stored' : l \in Int
  <2>1. Listed \subseteq Ids /\ OnTheWay \subseteq Ids
    BY ListedTyped DEF TypeInv
  <2>2. stored \subseteq Ids /\ stored' \subseteq Ids
    BY DEF TypeInv, TypeOK
  <2>3. \A l \in Ids : l \in Int
    BY DEF Ids
  <2> QED
    BY <2>1, <2>2, <2>3
<1>3. UpToCursor'
  <2> SUFFICES ASSUME state'.more
               PROVE  /\ state.cursor = 0 \/ state.cursor \in Listed
                      /\ \A l \in Listed : l <= state.cursor
                      /\ \A o \in stored' \ late' : o <= state.cursor => o \in Listed
    BY <1>1 DEF UpToCursor
  <2>1. /\ state.cursor = 0 \/ state.cursor \in Listed
        /\ \A l \in Listed : l <= state.cursor
        /\ \A o \in stored \ late : o <= state.cursor => o \in Listed
    BY DEF ListInv, UpToCursor
  <2>2. ASSUME NEW o \in stored' \ late', o <= state.cursor, o \notin stored \ late
        PROVE  FALSE
    <3>1. o \in Int /\ o # 0 /\ o >= 0 /\ \A l \in Listed : o > l
      BY <2>2 DEF Fresh, Ids
    <3>2. CASE state.cursor = 0
      BY <2>2, <3>1, <3>2
    <3>3. CASE state.cursor \in Listed
      BY <1>2, <2>2, <3>1, <3>3
    <3> QED
      BY <2>1, <3>2, <3>3
  <2> QED
    BY <2>1, <2>2
<1>4. NoGap'
  <2> SUFFICES ASSUME NEW o \in stored' \ late', NEW l \in Listed, o < l PROVE o \in Listed
    BY <1>1 DEF NoGap
  <2>1. CASE o \in stored \ late
    BY <2>1 DEF ListInv, NoGap
  <2>2. CASE o > l
    BY <1>2, <2>2
  <2> QED
    BY <2>1, <2>2 DEF Fresh
<1>5. PagesGoOn'
  <2> SUFFICES ASSUME NEW i \in DOMAIN requests' PROVE GoesOn(requests[i])'
    BY DEF PagesGoOn
  <2>1. CASE requests'[i].page = {} /\ requests'[i].next \notin Ids
    BY <2>1 DEF GoesOn
  <2>2. CASE i \in DOMAIN requests /\ requests'[i] = requests[i]
    <3> DEFINE r == requests[i]
    <3>1. GoesOn(r) /\ r.page \subseteq OnTheWay
      BY <2>2, OnTheWayIs DEF ListInv, PagesGoOn
    <3>2. ASSUME NEW p \in r.page, NEW o \in stored' \ late', o > r.cursor, o < p
          PROVE  o \in r.page
      <4>1. CASE o \in stored \ late
        BY <3>1, <3>2, <4>1 DEF GoesOn
      <4>2. CASE o > p
        BY <1>2, <3>1, <3>2, <4>2
      <4> QED
        BY <3>1, <4>1, <4>2 DEF Fresh
    <3>3. requests[i]' = r
      BY <2>2
    <3> HIDE DEF r
    <3> QED
      BY <3>1, <3>2, <3>3 DEF GoesOn
  <2> QED
    BY <2>1, <2>2
<1> QED
  BY <1>1, <1>3, <1>4, <1>5 DEF ListInv

(* The server reads what follows the cursor.                                     *)
LEMMA ReadGoesOn ==
  ASSUME TypeOK, PagesGoOn, NEW i \in DOMAIN requests, Read(i)
  PROVE  PagesGoOn'
<1> DEFINE cursor == requests[i].cursor
<1>1. StoredTyped /\ requests[i] \in Requests /\ cursor \in Ids /\ cursor \in Int
  <2>1. StoredTyped /\ requests[i] \in Requests /\ cursor \in Ids
    BY TypedStored, AtTyped
  <2>2. \A c \in Ids : c \in Int
    BY DEF Ids
  <2> QED
    BY <2>1, <2>2
<1>2. /\ DOMAIN requests' = DOMAIN requests
      /\ \A j \in DOMAIN requests : j # i => requests'[j] = requests[j]
      /\ requests'[i].cursor = cursor /\ requests'[i].page = Page(cursor)
      /\ requests'[i].next = NextCursor(cursor)
      /\ UNCHANGED <<stored, late>>
  <2> DEFINE page == Page(cursor)
             next == NextCursor(cursor)
  <2>1. /\ requests' = [requests EXCEPT ![i].page = page, ![i].next = next]
        /\ UNCHANGED <<stored, late>>
    BY DEF Read
  <2>2. requests \in Seq(Requests)
    BY DEF TypeOK
  <2> HIDE DEF page, next
  <2> QED
    <3>1. requests' = [requests EXCEPT ![i] = [requests[i] EXCEPT !.page = page, !.next = next]]
      BY <2>1
    <3>2. /\ DOMAIN requests' = DOMAIN requests
          /\ requests'[i] = [requests[i] EXCEPT !.page = page, !.next = next]
          /\ \A j \in DOMAIN requests : j # i => requests'[j] = requests[j]
      BY <2>2, <3>1
    <3>3. /\ requests'[i].cursor = requests[i].cursor
          /\ requests'[i].page = page /\ requests'[i].next = next
      BY <1>1, <3>2 DEF Requests
    <3> QED
      BY <2>1, <3>2, <3>3 DEF page, next
<1> HIDE DEF cursor
<1>3. NextCursor(cursor) \in Ids \cup {Done} /\ Done \notin Ids /\ Unread \notin Ids /\ Done # Unread
  BY <1>1, NextTyped DEF Done, Unread, Ids
<1>4. GoesOn(requests[i])'
  <2> DEFINE r == requests'[i]
  <2>1. r.cursor = cursor /\ r.page = Page(cursor) /\ r.next = NextCursor(cursor)
    BY <1>2
  <2> HIDE DEF r
  <2>2. \A p \in r.page : p > r.cursor
    BY <2>1 DEF Page, After
  <2>3. \A p \in r.page : \A o \in stored \ late : o > r.cursor /\ o < p => o \in r.page
    BY <1>1, <2>1, PageClosed
  <2>4. r.next \in Ids => r.next \in r.page /\ \A p \in r.page : p <= r.next
    BY <1>1, <1>3, <2>1, NextIsLast
  <2>5. r.next # Unread
    BY <1>3, <2>1
  <2> QED
    BY <1>2, <2>2, <2>3, <2>4, <2>5 DEF GoesOn, r
<1>5. ASSUME NEW j \in DOMAIN requests, j # i PROVE GoesOn(requests[j])'
  BY <1>2, <1>5 DEF PagesGoOn, GoesOn
<1> QED
  BY <1>2, <1>4, <1>5 DEF PagesGoOn

(* A page that arrives goes on where the list ends.                              *)
LEMMA ListArrive ==
  ASSUME TypeInv, ListInv, Arrive
  PROVE  ListInv'
<1> DEFINE r == requests[1]
           cursor == state.cursor
           page == r.page
<1>1. /\ requests' = <<>> /\ 1 \in DOMAIN requests /\ r \in Requests
      /\ state.more /\ r.cursor = cursor /\ r.next # Unread
      /\ loaded' = Append(loaded, page) /\ state' = Advanced(r.next)
      /\ UNCHANGED <<stored, late>>
  <2>1. requests # <<>> /\ Head(requests).next # Unread
    BY DEF Arrive, Answerable
  <2>2. Len(requests) = 1 /\ requests[1].cursor = state.cursor /\ state.more
    BY <2>1 DEF ListInv, OneRequest
  <2>3. /\ Head(requests) = requests[1] /\ Tail(requests) = <<>> /\ 1 \in DOMAIN requests
        /\ requests[1] \in Requests
    <3>1. requests \in Seq(Requests)
      BY DEF TypeInv, TypeOK
    <3>2. DOMAIN requests = {1} /\ Head(requests) = requests[1]
      BY <2>2, <3>1
    <3>3. Tail(requests) = <<>>
      <4>1. Len(Tail(requests)) = 0 /\ Tail(requests) \in Seq(Requests)
        BY <2>1, <2>2, <3>1
      <4> QED
        BY <4>1, EmptySeq
    <3> QED
      BY <3>2, <3>3, AtTyped DEF TypeInv
  <2> QED
    BY <2>1, <2>2, <2>3 DEF Arrive
<1>2. /\ page \in SUBSET Ids /\ r.next \in Ids \cup {Done} /\ cursor \in Ids
      /\ loaded \in Seq(SUBSET Ids)
  BY <1>1 DEF Requests, TypeInv, TypeOK
<1>3. GoesOn(r)
  BY <1>1 DEF ListInv, PagesGoOn
<1> HIDE DEF r, cursor, page
<1>4. /\ \A p \in page : p > cursor
      /\ \A p \in page : \A o \in stored \ late : o > cursor /\ o < p => o \in page
      /\ r.next \in Ids => r.next \in page /\ \A p \in page : p <= r.next
  BY <1>1, <1>3 DEF GoesOn, page
<1>5. /\ Listed' = Listed \cup page
      /\ \A i \in DOMAIN loaded' :
           \/ loaded'[i] = page /\ i = Len(loaded) + 1
           \/ i \in DOMAIN loaded /\ loaded'[i] = loaded[i] /\ i < Len(loaded) + 1
  <2>1. Listed = OnPages(loaded) /\ Listed' = OnPages(loaded')
    BY DEF Listed, OnPages
  <2> QED
    BY <1>1, <1>2, <2>1, AppendListed
<1>6. /\ \A l \in Listed : l \in Int /\ l <= cursor
      /\ \A o \in stored \ late : o <= cursor => o \in Listed
  <2>1. \A l \in Listed : l \in Int
    BY ListedTyped DEF TypeInv, Ids
  <2> QED
    BY <1>1, <2>1 DEF ListInv, UpToCursor, cursor
<1>7. (\A p \in page : p \in Int) /\ cursor \in Int /\ \A o \in stored : o \in Int
  BY <1>2 DEF Ids, TypeInv, TypeOK
<1>8. InOrder'
  <2> SUFFICES ASSUME NEW i \in DOMAIN loaded', NEW j \in DOMAIN loaded', i < j,
                      NEW o \in loaded'[i], NEW p \in loaded'[j]
               PROVE  o < p
    BY DEF InOrder
  <2>1. Len(loaded) \in Nat /\ DOMAIN loaded \subseteq Int
    BY <1>2
  <2>2. i \in DOMAIN loaded /\ loaded'[i] = loaded[i]
    BY <1>5, <2>1
  <2>3. CASE j \in DOMAIN loaded /\ loaded'[j] = loaded[j]
    BY <2>2, <2>3 DEF ListInv, InOrder
  <2>4. CASE loaded'[j] = page
    <3>1. o \in Listed
      BY <2>2 DEF Listed, Range
    <3>2. o \in Int /\ o <= cursor /\ p \in Int /\ p > cursor
      BY <1>4, <1>6, <1>7, <2>4, <3>1
    <3> QED
      BY <1>7, <3>2
  <2> QED
    BY <1>5, <2>3, <2>4
<1>9. NoGap'
  <2> SUFFICES ASSUME NEW o \in stored \ late, NEW l \in Listed \cup page, o < l
               PROVE  o \in Listed \cup page
    BY <1>1, <1>5 DEF NoGap
  <2>1. CASE l \in Listed
    BY <2>1 DEF ListInv, NoGap
  <2>2. CASE l \in page /\ o > cursor
    BY <1>4, <2>2
  <2>3. CASE o <= cursor
    BY <1>6, <2>3
  <2> QED
    BY <1>7, <2>1, <2>2, <2>3
<1>10. UpToCursor'
  <2> DEFINE next == r.next
  <2> SUFFICES ASSUME next # Done
               PROVE  /\ next \in Listed'
                      /\ \A l \in Listed' : l <= next
                      /\ \A o \in stored \ late : o <= next => o \in Listed'
    BY <1>1 DEF UpToCursor, Advanced
  <2>1. next \in Ids /\ next \in page /\ \A p \in page : p <= next
    BY <1>2, <1>4
  <2> HIDE DEF next
  <2>2. next \in Listed' /\ next \in Int /\ next > cursor
    BY <1>4, <1>5, <1>7, <2>1
  <2>3. \A l \in Listed' : l <= next
    BY <1>5, <1>6, <1>7, <2>1, <2>2
  <2>4. ASSUME NEW o \in stored \ late, o <= next PROVE o \in Listed'
    <3>1. CASE o = next
      BY <2>2, <3>1
    <3>2. CASE o < next
      BY <1>1, <1>9, <2>2, <3>2 DEF NoGap
    <3> QED
      BY <1>7, <2>2, <2>4, <3>1, <3>2
  <2> QED
    BY <2>2, <2>3, <2>4
<1>11. OneRequest' /\ PagesGoOn'
  BY <1>1 DEF OneRequest, PagesGoOn
<1> QED
  BY <1>8, <1>9, <1>10, <1>11 DEF ListInv

LEMMA ListStep ==
  ASSUME Prompt, TypeInv, ListInv, [Next]_vars
  PROVE  ListInv'
<1>0. TypeInv'
  BY TypeStep
<1>a. ASSUME UNCHANGED <<stored, late>> PROVE Fresh
  BY <1>a DEF Fresh
<1>1. CASE UNCHANGED vars
  <2>1. OneRequest'
    BY <1>1 DEF vars, ListInv, OneRequest
  <2> QED
    BY <1>0, <1>a, <1>1, <2>1, ListKept DEF vars
<1>2. CASE Place
  <2>1. OneRequest'
    BY <1>2 DEF Place, ListInv, OneRequest
  <2> QED
    BY <1>0, <1>2, <2>1, PlaceFresh, ListKept DEF Place, TypeInv
<1>3. ASSUME NEW o \in stored, Delete(o) PROVE ListInv'
  <2>1. OneRequest' /\ Fresh
    BY <1>3 DEF Delete, ListInv, OneRequest, Fresh
  <2> QED
    BY <1>0, <1>3, <2>1, ListKept DEF Delete
<1>4. CASE Render
  <2>1. OneRequest'
    BY <1>4 DEF Render, ListInv, OneRequest
  <2> QED
    BY <1>0, <1>a, <1>4, <2>1, ListKept DEF Render
<1>5. CASE InView
  <2>1. CASE ~MayLoad
    <3>1. OneRequest'
      BY <1>5, <2>1 DEF InView, ListInv, OneRequest
    <3> QED
      BY <1>0, <1>a, <1>5, <2>1, <3>1, ListKept DEF InView
  <2>2. CASE MayLoad
    <3>1. /\ state.more /\ ~state.loading /\ requests = <<>> /\ rendered = state
          /\ UNCHANGED <<stored, late, loaded>>
      BY <1>5, <2>2 DEF InView, MayLoad, ListInv, OneRequest
    <3>2. /\ requests' = <<Request(state.cursor)>>
          /\ state' = [state EXCEPT !.loading = TRUE] /\ state \in States
      BY <1>5, <2>2, <3>1 DEF InView, TypeInv, TypeOK
    <3>3. DOMAIN requests' = {1} /\ Len(requests') = 1 /\ requests'[1] = Request(state.cursor)
      BY <3>2
    <3>4. state'.loading /\ state'.more = state.more /\ state'.cursor = state.cursor
      BY <3>2 DEF States
    <3>5. OneRequest'
      BY <3>1, <3>3, <3>4 DEF OneRequest, Request
    <3>6. \A i \in DOMAIN requests' : requests'[i].page = {} /\ requests'[i].next \notin Ids
      BY <3>3 DEF Request, Unread, Ids
    <3> QED
      BY <1>0, <1>a, <3>1, <3>4, <3>5, <3>6, ListKept
  <2> QED
    BY <2>1, <2>2
<1>6. CASE Arrive
  BY <1>6, ListArrive
<1>7. CASE Fail
  <2>1. requests' = <<>> /\ ~state'.more
    BY <1>7 DEF Fail, Answerable, ListInv, OneRequest, TypeInv, TypeOK, States
  <2>2. OneRequest'
    BY <2>1 DEF OneRequest
  <2> QED
    BY <1>0, <1>a, <1>7, <2>1, <2>2, ListKept DEF Fail
<1>8. ASSUME NEW i \in DOMAIN requests, Read(i) PROVE ListInv'
  <2>1. UNCHANGED <<stored, late, loaded, state>>
    BY <1>8 DEF Read
  <2>2. PagesGoOn'
    BY <1>8, ReadGoesOn DEF TypeInv, ListInv
  <2>3. Len(requests') = Len(requests) /\ \A j \in DOMAIN requests :
          requests'[j].cursor = requests[j].cursor
    <3>1. requests \in Seq(Requests)
      BY DEF TypeInv, TypeOK
    <3> QED
      BY <1>8, <3>1 DEF Read, Requests
  <2>4. OneRequest'
    <3>1. requests # <<>> /\ requests \in Seq(Requests)
      BY DEF TypeInv, TypeOK
    <3>2. Len(requests) = 1 /\ 1 \in DOMAIN requests
      BY <3>1 DEF ListInv, OneRequest
    <3> QED
      BY <2>1, <2>3, <3>1, <3>2 DEF ListInv, OneRequest
  <2>5. UpToCursor' /\ InOrder' /\ NoGap'
    BY <2>1 DEF ListInv, UpToCursor, InOrder, NoGap, Listed
  <2> QED
    BY <2>2, <2>4, <2>5 DEF ListInv
<1> QED
  BY <1>1, <1>2, <1>3, <1>4, <1>5, <1>6, <1>7, <1>8 DEF Next, Loading

LEMMA InitList == Init => ListInv
<1> SUFFICES ASSUME Init PROVE ListInv
  OBVIOUS
<1>1. Listed = {}
  BY DEF Init, Listed, Range
<1>2. requests = <<Request(0)>> /\ state.loading /\ state.more /\ state.cursor = 0
  BY DEF Init, Start
<1>3. DOMAIN requests = {1} /\ Len(requests) = 1 /\ requests[1] = Request(0)
  BY <1>2
<1>4. OneRequest /\ PagesGoOn
  BY <1>2, <1>3 DEF OneRequest, PagesGoOn, GoesOn, Request, Unread, Ids
<1>5. UpToCursor
  <2>1. \A o \in stored : ~(o <= 0)
    BY PagesAssumption DEF Init, Ids
  <2> QED
    BY <1>1, <1>2, <2>1 DEF UpToCursor
<1> QED
  BY <1>1, <1>4, <1>5 DEF Init, ListInv, InOrder, NoGap

-------------------------------------------------------------------------------
(* Orders, pages, cursors and requests keep their types, whether React renders   *)
(* in time or not: no request is sent for a null cursor.                         *)
THEOREM PagesTypeCorrect == Spec => []TypeOK
<1>1. TypeInv => TypeOK
  BY DEF TypeInv
<1> QED
  BY <1>1, InitTyped, TypeStep, PTL DEF Spec

(* If React renders before the observer reports, the list shows every order once *)
(* and in the order of the row ids, whatever fails (loadMore's guard on loading  *)
(* keeps one request at a time).                                                 *)
THEOREM PromptInOrder ==
  ASSUME Prompt
  PROVE  Spec => []InOrder
<1>1. ListInv => InOrder
  BY DEF ListInv
<1>2. TypeInv /\ ListInv /\ [Next]_vars => ListInv'
  BY ListStep
<1> QED
  BY <1>1, <1>2, InitTyped, TypeStep, InitList, PTL DEF Spec

(* ... and skips none, whatever is placed or deleted between two pages (the      *)
(* cursor of list_current_session_orders is the last id sent, not an offset), but *)
(* an order that got the id of deleted ones, at or below a row already read.     *)
THEOREM PromptNoGap ==
  ASSUME Prompt
  PROVE  Spec => []NoGap
<1>1. ListInv => NoGap
  BY DEF ListInv
<1>2. TypeInv /\ ListInv /\ [Next]_vars => ListInv'
  BY ListStep
<1> QED
  BY <1>1, <1>2, InitTyped, TypeStep, InitList, PTL DEF Spec

===============================================================================
