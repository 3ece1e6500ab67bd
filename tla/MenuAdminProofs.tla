---------------------------- MODULE MenuAdminProofs ----------------------------
(* Theorems about MenuAdmin: types, forms are saved once, the list of a desk that *)
(* works alone is the stored one, and its moves result in the order asked for.    *)
EXTENDS MenuAdmin, FiniteSetTheorems, WellFoundedInduction, TLAPS

--------------------------------------------------------------------------------
(* The greatest of a bounded set.                                                 *)

Less == {ss \in Nat \X Nat : ss[1] < ss[2]}

LEMMA HasLeast ==
  ASSUME NEW S \in SUBSET Nat, S # {}
  PROVE  \E x \in S : \A y \in S : x <= y
<1>1. IsWellFoundedOn(Less, Nat)
  BY NatLessThanWellFounded, Zenon DEF Less, OpToRel
<1>2. PICK x \in S : \A y \in S : ~(<<y, x>> \in Less)
  BY <1>1, WFMin, Zenon
<1>3. ASSUME NEW y \in S PROVE x <= y
  <2>1. x \in Nat /\ y \in Nat
    OBVIOUS
  <2>2. <<y, x>> \in Nat \X Nat /\ <<y, x>>[1] = y /\ <<y, x>>[2] = x
    BY <2>1
  <2>3. ~(y < x)
    BY <1>2, <2>2, Zenon DEF Less
  <2> QED
    BY <2>1, <2>3
<1> QED
  BY <1>3

LEMMA HasGreatest ==
  ASSUME NEW a \in Int, NEW b \in Int, NEW S \in SUBSET (a .. b), S # {}
  PROVE  Max(S) \in S /\ \A y \in S : Max(S) >= y
<1> DEFINE T == {b - x : x \in S}
<1>0. T \in SUBSET Nat
  OBVIOUS
<1>1. T # {}
  OBVIOUS
<1>2. \E d \in T : \A e \in T : d <= e
  <2> HIDE DEF T
  <2> QED
    BY <1>0, <1>1, HasLeast
<1>3. PICK x \in S : \A y \in S : b - x <= b - y
  BY <1>2
<1>4. \A y \in S : x \in Int /\ y \in Int
  OBVIOUS
<1>5. \A y \in S : x >= y
  BY <1>3, <1>4
<1> QED
  BY <1>5 DEF Max

--------------------------------------------------------------------------------
(* Forms and lost answers leave room for ids and places: a menu is created from a *)
(* new form, or from one whose answer was lost.  Owes says that the form of a     *)
(* page may still create a menu.                                                  *)

Owes(k) == k.editing = None /\ k.form # 0 /\ ~(k.at = "answered" /\ k.ask.op = "create")
Owing == {d \in staff : Owes(desk[d])}
Room == forms + losses - Cardinality(Owing)

MenusIn(room, number) == [id : 1 .. room, category : Categories, place : 0 .. room - 1,
                          form : 1 .. number]
OrderIn(order, room) == /\ order \in [DOMAIN order -> 1 .. room]
                        /\ DOMAIN order \subseteq 1 .. room
AskIn(ask, room) == \/ ask \in [op : {"create", "update", "remove"}, id : 0 .. room,
                                category : Categories]
                    \/ /\ ask.op = "reorder"
                       /\ ask \in [op : {"reorder"}, order : {ask.order}, category : Categories]
                       /\ OrderIn(ask.order, room)
                    \/ ask = NoAsk
DeskIn(k, room, number) ==
  /\ k \in [at : Stages, ready : BOOLEAN, shown : SUBSET MenusIn(room, number),
            editing : 0 .. room, form : 0 .. number, ask : {k.ask}, last : -1 .. room - 1,
            list : SUBSET MenusIn(room, number)]
  /\ AskIn(k.ask, room)
Single(set) == \A m, n \in set : m.id = n.id => m = n
(* A form that is being saved: its request says what the page is editing.         *)
Formed(k) ==
  /\ Single(k.shown) /\ Single(k.list)
  /\ k.at = "reading" => k.ask.op = "create"
  /\ k.at \in {"sent", "reading", "answered"} /\ k.ask.op \in {"create", "update"} =>
       k.form # 0 /\ (k.ask.op = "create" <=> k.editing = None)

Staffed == staff \subseteq Desks /\ IsFiniteSet(staff) /\ staff # {} /\ DOMAIN desk = staff
Budget == /\ forms \in Nat /\ losses \in Nat
          /\ forms * Cardinality(staff) + 2 * losses <= MaxForms
MenuInv == /\ Staffed /\ Budget /\ Room \in Nat
           /\ menus \subseteq MenusIn(Room, forms)
           /\ Single(menus)
           /\ \A d \in staff : DeskIn(desk[d], Room, forms) /\ Formed(desk[d])

(* Without a loss a form is with one menu or one page, never with two.            *)
Saved(k) == k.at = "answered" /\ k.ask.op \in {"create", "update"}
Apart ==
  /\ \A m, n \in menus : m.form = n.form => m = n
  /\ \A d, e \in staff : desk[d].form # 0 /\ desk[d].form = desk[e].form => d = e
  /\ \A d \in staff : desk[d].form # 0 /\ ~Saved(desk[d]) =>
                        \A m \in menus : m.form # desk[d].form
SaveInv == losses = 0 => Apart

(* What a desk that works alone knows of the stored list.                         *)
Swap(set, order, c) == \E i, j \in IdsOf(set, c) :
                         /\ Listed(set, c)[j] = Listed(set, c)[i] + 1
                         /\ order = Swapped(Listed(set, c), i, j)
Knows(k, set) ==
  /\ (k.at = "idle" /\ k.ready) \/ k.at \in {"sent", "reading"} => k.shown = set
  /\ k.at = "listed" => k.list = set
  /\ k.at = "sent" /\ k.ask.op = "reorder" => Swap(set, k.ask.order, k.ask.category)
  /\ k.at \in {"answered", "asking", "listed"} /\ k.ask.op = "reorder" =>
       Listed(set, k.ask.category) = k.ask.order
AloneInv == Alone => \A d \in staff : Knows(desk[d], menus)

--------------------------------------------------------------------------------
(* Counting.                                                                      *)

Turned(d, k) == /\ staff' = staff /\ DOMAIN desk' = DOMAIN desk /\ desk'[d] = k
                /\ \A e \in staff \ {d} : desk'[e] = desk[e]

LEMMA MoreRoom ==
  ASSUME NEW room \in Nat, NEW more \in Nat, room <= more,
         NEW number \in Nat, NEW higher \in Nat, number <= higher
  PROVE  /\ MenusIn(room, number) \subseteq MenusIn(more, higher)
         /\ \A k : DeskIn(k, room, number) => DeskIn(k, more, higher)
<1>1. MenusIn(room, number) \subseteq MenusIn(more, higher)
  BY DEF MenusIn
<1>2. ASSUME NEW ask, AskIn(ask, room) PROVE AskIn(ask, more)
  BY <1>2 DEF AskIn, OrderIn
<1>3. ASSUME NEW k, DeskIn(k, room, number) PROVE DeskIn(k, more, higher)
  <2>1. AskIn(k.ask, more)
    BY <1>2, <1>3 DEF DeskIn
  <2>2. \A S \in SUBSET MenusIn(room, number) : S \in SUBSET MenusIn(more, higher)
    BY <1>1
  <2>3. 0 .. room \subseteq 0 .. more /\ -1 .. room - 1 \subseteq -1 .. more - 1
        /\ 0 .. number \subseteq 0 .. higher
    OBVIOUS
  <2> QED
    BY <1>3, <2>1, <2>2, <2>3 DEF DeskIn
<1> QED
  BY <1>1, <1>3

LEMMA Recount ==
  ASSUME Staffed, NEW d \in staff, NEW k, Turned(d, k)
  PROVE  /\ Cardinality(Owing) \in Nat /\ Cardinality(Owing') \in Nat
         /\ Cardinality(Owing') <= Cardinality(Owing) + 1
         /\ (Owes(k) => Owes(desk[d])) => Cardinality(Owing') <= Cardinality(Owing)
         /\ Owes(desk[d]) /\ ~Owes(k) => Cardinality(Owing') = Cardinality(Owing) - 1
<1> DEFINE old == Owing
           new == Owing'
<1>1. IsFiniteSet(old) /\ Cardinality(old) \in Nat
  BY FS_Subset, FS_CardinalityType DEF Staffed, Owing
<1>2. /\ \A e \in staff : e # d => (e \in new <=> e \in old)
      /\ new \subseteq staff /\ old \subseteq staff
      /\ d \in new <=> Owes(k)
      /\ d \in old <=> Owes(desk[d])
  BY DEF Turned, Owing
<1> HIDE DEF old, new
<1>3. /\ (d \in new => d \in old) => new \subseteq old
      /\ d \in new /\ d \notin old => new = old \cup {d}
      /\ d \in old /\ d \notin new => new = old \ {d}
  BY <1>2
<1>4. /\ IsFiniteSet(new) /\ Cardinality(new) \in Nat
      /\ (d \in new => d \in old) => Cardinality(new) <= Cardinality(old)
      /\ d \in new /\ d \notin old => Cardinality(new) = Cardinality(old) + 1
      /\ d \in old /\ d \notin new => Cardinality(new) = Cardinality(old) - 1
  BY <1>1, <1>3, FS_Subset, FS_AddElement, FS_RemoveElement, FS_CardinalityType
<1>5. /\ Cardinality(new) <= Cardinality(old) + 1
      /\ (Owes(k) => Owes(desk[d])) => Cardinality(new) <= Cardinality(old)
      /\ Owes(desk[d]) /\ ~Owes(k) => Cardinality(new) = Cardinality(old) - 1
  BY <1>1, <1>2, <1>4
<1> QED
  BY <1>1, <1>4, <1>5 DEF old, new

LEMMA Turn ==
  ASSUME MenuInv, NEW d \in staff, NEW k, Turned(d, k), Budget', forms <= forms',
         Room' \in Nat, Room <= Room', menus' \subseteq MenusIn(Room', forms'),
         Single(menus)', DeskIn(k, Room', forms'), Formed(k)
  PROVE  MenuInv'
<1>1. Staffed'
  BY DEF MenuInv, Staffed, Turned
<1>2. Room \in Nat /\ forms \in Nat /\ forms' \in Nat
  BY DEF MenuInv, Budget
<1>3. \A e \in staff' : DeskIn(desk'[e], Room', forms') /\ Formed(desk'[e])
  <2> SUFFICES ASSUME NEW e \in staff PROVE DeskIn(desk'[e], Room', forms') /\ Formed(desk'[e])
    BY DEF Turned
  <2>1. CASE e = d
    BY <2>1 DEF Turned
  <2>2. CASE e # d
    BY <1>2, <2>2, MoreRoom DEF MenuInv, Turned
  <2> QED
    BY <2>1, <2>2
<1> QED
  BY <1>1, <1>3 DEF MenuInv

(* Most steps fill in no form and lose nothing.                                   *)
LEMMA Quiet ==
  ASSUME MenuInv, NEW d \in staff, NEW k, Turned(d, k), UNCHANGED <<forms, losses>>,
         Owes(k) => Owes(desk[d]), DeskIn(k, Room, forms), Formed(k),
         menus' \subseteq MenusIn(Room, forms), Single(menus)'
  PROVE  MenuInv'
<1>1. Staffed /\ Room \in Nat /\ forms \in Nat /\ losses \in Nat
  BY DEF MenuInv, Budget
<1>2. Room' \in Nat /\ Room <= Room'
  BY <1>1, Recount DEF Room
<1>3. MenusIn(Room, forms) \subseteq MenusIn(Room', forms') /\ DeskIn(k, Room', forms')
  BY <1>1, <1>2, MoreRoom
<1>4. Budget'
  BY DEF MenuInv, Budget, Turned
<1>5. menus' \subseteq MenusIn(Room', forms') /\ forms <= forms'
  BY <1>1, <1>3
<1> QED
  BY <1>2, <1>3, <1>4, <1>5, Turn

--------------------------------------------------------------------------------
(* The page.                                                                      *)

LEMMA DeskFields ==
  ASSUME MenuInv, NEW d \in staff
  PROVE  /\ DeskIn(desk[d], Room, forms) /\ Formed(desk[d]) /\ Staffed
         /\ Room \in Nat /\ forms \in Nat /\ losses \in Nat
BY DEF MenuInv, Budget

LEMMA StartEditStep ==
  ASSUME MenuInv, NEW d \in staff, NEW m \in desk[d].shown, StartEdit(d, m)
  PROVE  MenuInv'
<1> DEFINE k == [desk[d] EXCEPT !.editing = m.id, !.form = 0]
<1>1. /\ Turned(d, k) /\ UNCHANGED <<menus, forms, losses>>
  BY DEF StartEdit, Turned, MenuInv, Staffed
<1>2. desk[d].at = "idle"
  BY DEF StartEdit, Usable
<1>3. m.id \in 0 .. Room
  BY DeskFields DEF DeskIn, MenusIn
<1>4. DeskIn(k, Room, forms)
  <2>1. k.ask = desk[d].ask /\ 0 \in 0 .. forms
    BY DeskFields DEF DeskIn
  <2> QED
    BY <1>3, <2>1, DeskFields DEF DeskIn
<1>5. Formed(k) /\ ~Owes(k)
  BY <1>2, DeskFields DEF Formed, DeskIn, Owes
<1> HIDE DEF k
<1> QED
  BY <1>1, <1>4, <1>5, Quiet DEF MenuInv

LEMMA CancelStep ==
  ASSUME MenuInv, NEW d \in staff, Cancel(d)
  PROVE  MenuInv'
<1> DEFINE k == [desk[d] EXCEPT !.editing = None, !.form = 0]
<1>1. /\ Turned(d, k) /\ UNCHANGED <<menus, forms, losses>>
  BY DEF Cancel, Turned, MenuInv, Staffed
<1>2. desk[d].at = "idle"
  BY DEF Cancel, Usable
<1>3. DeskIn(k, Room, forms)
  <2>1. k.ask = desk[d].ask /\ 0 \in 0 .. forms /\ None \in 0 .. Room
    BY DeskFields DEF DeskIn, None
  <2> QED
    BY <2>1, DeskFields DEF DeskIn
<1>4. Formed(k) /\ ~Owes(k)
  BY <1>2, DeskFields DEF Formed, DeskIn, Owes
<1> HIDE DEF k
<1> QED
  BY <1>1, <1>3, <1>4, Quiet DEF MenuInv

LEMMA MountStep ==
  ASSUME MenuInv, NEW d \in staff, Mount(d)
  PROVE  MenuInv'
<1>1. /\ Turned(d, Mounted) /\ UNCHANGED <<menus, forms, losses>>
  BY DEF Mount, Turned, MenuInv, Staffed
<1>2. DeskIn(Mounted, Room, forms)
  BY DeskFields DEF DeskIn, Mounted, None, AskIn, Stages
<1>3. Formed(Mounted) /\ ~Owes(Mounted)
  BY DEF Formed, Mounted, Owes, Single
<1> QED
  BY <1>1, <1>2, <1>3, Quiet DEF MenuInv

LEMMA DropStep ==
  ASSUME MenuInv, NEW d \in staff, NEW m \in desk[d].shown, Drop(d, m)
  PROVE  MenuInv'
<1> DEFINE ask == [op |-> "remove", id |-> m.id, category |-> m.category]
           k == [desk[d] EXCEPT !.at = "sent", !.ask = ask]
<1>1. /\ Turned(d, k) /\ UNCHANGED <<menus, forms, losses>>
  BY DEF Drop, Send, Turned, MenuInv, Staffed
<1>2. desk[d].at = "idle"
  BY DEF Drop, Usable
<1>3. m.id \in 0 .. Room /\ m.category \in Categories
  BY DeskFields DEF DeskIn, MenusIn
<1>4. AskIn(ask, Room) /\ ask.op = "remove"
  BY <1>3 DEF AskIn
<1> HIDE DEF ask
<1>5. DeskIn(k, Room, forms)
  BY <1>4, DeskFields DEF DeskIn, Stages
<1>6. Formed(k) /\ (Owes(k) => Owes(desk[d]))
  BY <1>2, <1>4, DeskFields DEF Formed, DeskIn, Owes
<1> HIDE DEF k
<1> QED
  BY <1>1, <1>5, <1>6, Quiet DEF MenuInv

(* Positions of a list are among the ids there can be.                            *)
LEMMA ListedIn ==
  ASSUME NEW room \in Nat, NEW number \in Nat, NEW set \in SUBSET MenusIn(room, number),
         Single(set), NEW c
  PROVE  OrderIn(Listed(set, c), room)
<1> DEFINE I == IdsOf(set, c)
<1>1. I \subseteq 1 .. room
  BY DEF IdsOf, MenusIn
<1>2. IsFiniteSet(I) /\ Cardinality(I) \in Nat /\ Cardinality(I) <= room
  <2>1. IsFiniteSet(1 .. room) /\ Cardinality(1 .. room) = room
    BY FS_Interval
  <2> QED
    BY <1>1, <2>1, FS_Subset, FS_CardinalityType
<1>3. ASSUME NEW j \in I PROVE Cardinality({i \in I : First(set, i, j)}) + 1 \in 1 .. room
  <2> DEFINE B == {i \in I : First(set, i, j)}
  <2>1. ~First(set, j, j)
    BY DEF First, Before, MenusIn, Single
  <2>2. B \subseteq I \ {j}
    BY <2>1
  <2> HIDE DEF B
  <2>3. IsFiniteSet(I \ {j}) /\ Cardinality(I \ {j}) = Cardinality(I) - 1
    BY <1>2, FS_RemoveElement
  <2>4. Cardinality(B) \in Nat /\ Cardinality(B) <= Cardinality(I) - 1
    BY <2>2, <2>3, FS_Subset, FS_CardinalityType
  <2> QED
    BY <1>2, <2>4 DEF B
<1> QED
  BY <1>1, <1>3 DEF OrderIn, Listed

LEMMA MoveStep ==
  ASSUME MenuInv, NEW d \in staff, NEW c \in Categories, Move(d, c)
  PROVE  MenuInv'
<1> DEFINE order == Listed(desk[d].shown, c)
<1>1. PICK i \in DOMAIN order, j \in DOMAIN order :
        desk' = Send(d, [op |-> "reorder", category |-> c, order |-> Swapped(order, i, j)])
  BY DEF Move
<1> DEFINE ask == [op |-> "reorder", category |-> c, order |-> Swapped(order, i, j)]
           k == [desk[d] EXCEPT !.at = "sent", !.ask = ask]
<1>2. /\ Turned(d, k) /\ UNCHANGED <<menus, forms, losses>>
  BY <1>1 DEF Move, Send, Turned, MenuInv, Staffed
<1>3. desk[d].at = "idle"
  BY DEF Move, Usable
<1>4. OrderIn(order, Room)
  BY DeskFields, ListedIn DEF DeskIn, Formed
<1> HIDE DEF order
<1>5. OrderIn(Swapped(order, i, j), Room)
  BY <1>4 DEF OrderIn, Swapped
<1>6. AskIn(ask, Room) /\ ask.op = "reorder"
  BY <1>5 DEF AskIn
<1> HIDE DEF ask
<1>7. DeskIn(k, Room, forms)
  BY <1>6, DeskFields DEF DeskIn, Stages
<1>8. Formed(k) /\ (Owes(k) => Owes(desk[d]))
  BY <1>3, <1>6, DeskFields DEF Formed, DeskIn, Owes
<1> HIDE DEF k
<1> QED
  BY <1>2, <1>7, <1>8, Quiet DEF MenuInv

(* The two steps that use up the bound.                                           *)

LEMMA SubmitStep ==
  ASSUME MenuInv, NEW d \in staff, NEW c \in Categories, Submit(d, c)
  PROVE  MenuInv'
<1>1. PICK form \in {desk[d].form, forms + 1} \cap 1 .. MaxForms :
        /\ form * Cardinality(staff) + 2 * losses <= MaxForms
        /\ forms' = IF form > forms THEN form ELSE forms
        /\ desk' = [Send(d, [op |-> IF desk[d].editing = None THEN "create" ELSE "update",
                             id |-> desk[d].editing, category |-> c])
                    EXCEPT ![d].form = form]
  BY DEF Submit
<1> DEFINE ask == [op |-> IF desk[d].editing = None THEN "create" ELSE "update",
                   id |-> desk[d].editing, category |-> c]
           k == [desk[d] EXCEPT !.at = "sent", !.ask = ask, !.form = form]
<1>2. Turned(d, k) /\ UNCHANGED <<menus, losses>>
  BY <1>1 DEF Submit, Send, Turned, MenuInv, Staffed
<1>3. desk[d].at = "idle" /\ desk[d].form \in 0 .. forms /\ desk[d].editing \in 0 .. Room
  BY DeskFields DEF Submit, Usable, DeskIn
<1>4. form \in 1 .. forms' /\ forms' \in Nat /\ forms <= forms'
      /\ (forms' = forms \/ forms' = forms + 1)
  BY <1>1, <1>3, DeskFields
<1>5. Budget'
  BY <1>1, <1>2, <1>4 DEF MenuInv, Budget, Turned
<1>6. AskIn(ask, Room) /\ ask.op \in {"create", "update"}
      /\ (ask.op = "create" <=> desk[d].editing = None)
  BY <1>3 DEF AskIn
<1> HIDE DEF ask
<1>7. DeskIn(desk[d], Room, forms')
  BY <1>4, DeskFields, MoreRoom
<1>8. DeskIn(k, Room, forms')
  <2>1. k.ask = ask /\ form \in 0 .. forms'
    BY <1>4, <1>7 DEF DeskIn
  <2> QED
    BY <1>6, <1>7, <2>1 DEF DeskIn, Stages
<1>9. Formed(k) /\ (Owes(k) <=> desk[d].editing = None)
  BY <1>3, <1>4, <1>6, DeskFields DEF Formed, DeskIn, Owes
<1>10. Room' \in Nat /\ Room <= Room'
  <2>1. Owes(desk[d]) <=> desk[d].editing = None /\ desk[d].form # 0
    BY <1>3 DEF Owes
  <2>2. forms' = forms => desk[d].form # 0
    BY <1>1, <1>3, <1>4
  <2>3. forms' = forms => (Owes(k) => Owes(desk[d]))
    BY <1>9, <2>1, <2>2
  <2> HIDE DEF k
  <2> QED
    BY <1>2, <1>4, <2>3, Recount, DeskFields DEF Room
<1> HIDE DEF k
<1>11. DeskIn(k, Room', forms') /\ menus' \subseteq MenusIn(Room', forms')
  BY <1>2, <1>4, <1>8, <1>10, DeskFields, MoreRoom DEF MenuInv
<1> QED
  BY <1>2, <1>4, <1>5, <1>9, <1>10, <1>11, Turn DEF MenuInv, Single

LEMMA LoseStep ==
  ASSUME MenuInv, NEW d \in staff, Lose(d)
  PROVE  MenuInv'
<1> DEFINE k == [desk[d] EXCEPT !.at = "idle", !.list = {}]
<1>1. /\ Turned(d, k) /\ UNCHANGED <<menus, forms>> /\ losses' = losses + 1
  BY DEF Lose, Turned, MenuInv, Staffed
<1>2. Budget'
  <2> DEFINE spent == forms * Cardinality(staff)
  <2>1. spent \in Int /\ losses \in Nat /\ MaxForms \in Nat
    BY MenuAssumption, FS_CardinalityType DEF MenuInv, Budget, Staffed
  <2>2. spent + 2 * losses < MaxForms - 1
    BY DEF Lose
  <2> HIDE DEF spent
  <2>3. spent + 2 * losses' <= MaxForms
    BY <1>1, <2>1, <2>2
  <2> QED
    BY <1>1, <2>1, <2>3 DEF MenuInv, Budget, Turned, spent
<1>3. DeskIn(k, Room, forms)
  <2>1. k.ask = desk[d].ask
    BY DeskFields DEF DeskIn
  <2> QED
    BY <2>1, DeskFields DEF DeskIn, Stages
<1>4. Formed(k)
  BY DeskFields DEF Formed, DeskIn, Single
<1> HIDE DEF k
<1>5. Room' \in Nat /\ Room <= Room'
  BY <1>1, Recount, DeskFields DEF Room
<1>6. DeskIn(k, Room', forms') /\ menus' \subseteq MenusIn(Room', forms')
  BY <1>1, <1>3, <1>5, DeskFields, MoreRoom DEF MenuInv
<1> QED
  BY <1>1, <1>2, <1>4, <1>5, <1>6, DeskFields, Turn DEF MenuInv, Single

--------------------------------------------------------------------------------
(* The server.                                                                    *)

LEMMA ReadLastStep ==
  ASSUME MenuInv, NEW d \in staff, ReadLast(d)
  PROVE  MenuInv'
<1> DEFINE S == {-1} \cup {m.place : m \in {n \in menus : n.category = desk[d].ask.category}}
           k == [desk[d] EXCEPT !.at = "reading", !.last = Max(S)]
<1>1. /\ Turned(d, k) /\ UNCHANGED <<menus, forms, losses>>
  BY DEF ReadLast, Turned, MenuInv, Staffed
<1>2. desk[d].at = "sent" /\ desk[d].ask.op = "create"
  BY DEF ReadLast, Asked
<1>3. Max(S) \in -1 .. Room - 1
  <2>1. S \in SUBSET (-1 .. Room - 1)
    <3>1. \A m \in menus : m.place \in -1 .. Room - 1
      BY DeskFields DEF MenuInv, MenusIn
    <3>2. -1 \in -1 .. Room - 1
      BY DeskFields
    <3> QED
      BY <3>1, <3>2
  <2>2. S # {}
    OBVIOUS
  <2>3. -1 \in Int /\ Room - 1 \in Int
    BY DeskFields
  <2> HIDE DEF S
  <2>4. Max(S) \in S
    BY <2>1, <2>2, <2>3, HasGreatest
  <2> QED
    BY <2>1, <2>4
<1> HIDE DEF S
<1>4. DeskIn(k, Room, forms)
  <2>1. k.ask = desk[d].ask
    BY DeskFields DEF DeskIn
  <2> QED
    BY <1>3, <2>1, DeskFields DEF DeskIn, Stages
<1>5. Formed(k) /\ (Owes(k) => Owes(desk[d]))
  BY <1>2, DeskFields DEF Formed, DeskIn, Owes
<1> HIDE DEF k
<1> QED
  BY <1>1, <1>4, <1>5, Quiet DEF MenuInv, Single

(* A commit leaves the desk with an answer.                                       *)
Done(k) == [k EXCEPT !.at = "answered", !.last = -1]

LEMMA DoneIn ==
  ASSUME MenuInv, NEW d \in staff, NEW rows, Commit(d, rows)
  PROVE  /\ Turned(d, Done(desk[d])) /\ UNCHANGED <<forms, losses>> /\ menus' = rows
         /\ DeskIn(Done(desk[d]), Room, forms)
         /\ desk[d].at \in {"sent", "reading"} =>
              /\ Formed(Done(desk[d]))
              /\ Owes(Done(desk[d])) => Owes(desk[d])
              /\ desk[d].ask.op = "create" => Owes(desk[d]) /\ ~Owes(Done(desk[d]))
<1>1. Turned(d, Done(desk[d])) /\ UNCHANGED <<forms, losses>> /\ menus' = rows
  BY DEF Commit, Done, Turned, MenuInv, Staffed
<1>2. /\ Done(desk[d]).ask = desk[d].ask /\ Done(desk[d]).at = "answered"
      /\ Done(desk[d]).editing = desk[d].editing /\ Done(desk[d]).form = desk[d].form
      /\ Done(desk[d]).shown = desk[d].shown /\ Done(desk[d]).list = desk[d].list
  BY DeskFields DEF DeskIn, Done
<1>3. DeskIn(Done(desk[d]), Room, forms)
  <2>1. -1 \in -1 .. Room - 1
    BY DeskFields
  <2> QED
    BY <1>2, <2>1, DeskFields DEF DeskIn, Stages, Done
<1>4. ASSUME desk[d].at \in {"sent", "reading"}
      PROVE  /\ Formed(Done(desk[d]))
             /\ Owes(Done(desk[d])) => Owes(desk[d])
             /\ desk[d].ask.op = "create" => Owes(desk[d]) /\ ~Owes(Done(desk[d]))
  BY <1>2, <1>4, DeskFields DEF Formed, Owes
<1> QED
  BY <1>1, <1>3, <1>4

LEMMA FormIn ==
  ASSUME MenuInv, NEW d \in staff, desk[d].ask.op \in {"create", "update"}, desk[d].form # 0
  PROVE  desk[d].form \in 1 .. forms /\ desk[d].ask.category \in Categories
<1>1. AskIn(desk[d].ask, Room) /\ desk[d].form \in 0 .. forms /\ forms \in Nat
  BY DeskFields DEF DeskIn
<1>2. desk[d].ask.category \in Categories
  BY <1>1 DEF AskIn, NoAsk
<1> QED
  BY <1>1, <1>2

LEMMA CreateStep ==
  ASSUME MenuInv, NEW d \in staff, Create(d)
  PROVE  MenuInv'
<1> DEFINE top == Max({0} \cup {m.id : m \in menus})
           new == [id |-> top + 1, category |-> desk[d].ask.category,
                   place |-> desk[d].last + 1, form |-> desk[d].form]
           k == Done(desk[d])
<1>1. desk[d].at = "reading" /\ desk[d].ask.op = "create" /\ desk[d].form # 0
      /\ Commit(d, menus \cup {new})
  BY DeskFields DEF Create, Formed
<1>2. top \in 0 .. Room /\ \A m \in menus : m.id <= top
  <2> DEFINE S == {0} \cup {m.id : m \in menus}
  <2>1. \A m \in menus : m.id \in 0 .. Room
    BY DeskFields DEF MenuInv, MenusIn
  <2>2. S \in SUBSET (0 .. Room)
    BY <2>1, DeskFields
  <2>4. /\ S # {} /\ \A m \in menus : m.id \in S
        /\ 0 \in Int /\ Room \in Int
    BY DeskFields
  <2> HIDE DEF S
  <2>3. Max(S) \in S /\ \A x \in S : Max(S) >= x
    BY <2>2, <2>4, HasGreatest, Zenon
  <2>5. top = Max(S)
    BY DEF S
  <2> HIDE DEF top
  <2>6. top \in 0 .. Room /\ \A x \in S : top >= x
    BY <2>2, <2>3, <2>5
  <2> QED
    BY <2>1, <2>4, <2>6
<1> HIDE DEF top
<1>3. /\ desk[d].last \in -1 .. Room - 1 /\ desk[d].form \in 1 .. forms
      /\ desk[d].ask.category \in Categories
  BY <1>1, FormIn, DeskFields DEF DeskIn
<1>4. new \in MenusIn(Room + 1, forms) /\ new.id = top + 1
  BY <1>2, <1>3, DeskFields DEF MenusIn
<1> HIDE DEF new
<1>5. /\ Turned(d, k) /\ UNCHANGED <<forms, losses>> /\ menus' = menus \cup {new}
      /\ DeskIn(k, Room, forms) /\ Formed(k) /\ Owes(desk[d]) /\ ~Owes(k)
  BY <1>1, DoneIn
<1> HIDE DEF k
<1>6. Room' = Room + 1
  BY <1>5, Recount, DeskFields DEF Room
<1>7. menus \subseteq MenusIn(Room', forms') /\ DeskIn(k, Room', forms')
  BY <1>5, <1>6, DeskFields, MoreRoom DEF MenuInv
<1>8. menus' \subseteq MenusIn(Room', forms')
  BY <1>4, <1>5, <1>6, <1>7
<1>9. Single(menus)'
  <2>1. \A m \in menus : m.id # new.id
    BY <1>2, <1>4, DeskFields DEF MenuInv, MenusIn
  <2> QED
    BY <1>5, <2>1 DEF MenuInv, Single
<1>10. Budget'
  BY <1>5 DEF MenuInv, Budget, Turned
<1> QED
  BY <1>5, <1>6, <1>7, <1>8, <1>9, <1>10, DeskFields, Turn

LEMMA UpdateStep ==
  ASSUME MenuInv, NEW d \in staff, Update(d)
  PROVE  MenuInv'
<1> DEFINE new(m) == IF m \in Named(d) THEN [m EXCEPT !.category = desk[d].ask.category,
                                                      !.form = desk[d].form]
                     ELSE m
           k == Done(desk[d])
<1>1. desk[d].at = "sent" /\ desk[d].ask.op = "update" /\ desk[d].form # 0
      /\ Commit(d, {new(m) : m \in menus})
  BY DeskFields DEF Update, Asked, Formed
<1>2. desk[d].form \in 1 .. forms /\ desk[d].ask.category \in Categories
  BY <1>1, FormIn
<1>3. \A m \in menus : new(m) \in MenusIn(Room, forms) /\ new(m).id = m.id
  BY <1>2 DEF MenuInv, MenusIn
<1> HIDE DEF new
<1>4. /\ Turned(d, k) /\ UNCHANGED <<forms, losses>> /\ menus' = {new(m) : m \in menus}
      /\ DeskIn(k, Room, forms) /\ Formed(k) /\ (Owes(k) => Owes(desk[d]))
  BY <1>1, DoneIn
<1> HIDE DEF k
<1>5. menus' \subseteq MenusIn(Room, forms) /\ Single(menus)'
  BY <1>3, <1>4 DEF MenuInv, Single
<1> QED
  BY <1>4, <1>5, Quiet

LEMMA DeleteStep ==
  ASSUME MenuInv, NEW d \in staff, Delete(d)
  PROVE  MenuInv'
<1> DEFINE k == Done(desk[d])
<1>1. desk[d].at = "sent" /\ Commit(d, menus \ Named(d))
  BY DEF Delete, Asked
<1>2. /\ Turned(d, k) /\ UNCHANGED <<forms, losses>> /\ menus' \subseteq menus
      /\ DeskIn(k, Room, forms) /\ Formed(k) /\ (Owes(k) => Owes(desk[d]))
  BY <1>1, DoneIn
<1> HIDE DEF k
<1>3. menus' \subseteq MenusIn(Room, forms) /\ Single(menus)'
  BY <1>2 DEF MenuInv, Single
<1> QED
  BY <1>2, <1>3, Quiet

LEMMA ReorderStep ==
  ASSUME MenuInv, NEW d \in staff, Reorder(d)
  PROVE  MenuInv'
<1> DEFINE new(m) == Placed(m, desk[d].ask.order, desk[d].ask.category)
           k == Done(desk[d])
<1>1. desk[d].at = "sent" /\ desk[d].ask.op = "reorder" /\ Commit(d, {new(m) : m \in menus})
  BY DEF Reorder, Asked
<1>2. OrderIn(desk[d].ask.order, Room)
  BY <1>1, DeskFields DEF DeskIn, AskIn, NoAsk
<1>3. \A m \in menus : new(m) \in MenusIn(Room, forms) /\ new(m).id = m.id
  <2> SUFFICES ASSUME NEW m \in menus
               PROVE  new(m) \in MenusIn(Room, forms) /\ new(m).id = m.id
    OBVIOUS
  <2>1. m \in MenusIn(Room, forms)
    BY DEF MenuInv
  <2>2. m.id \in DOMAIN desk[d].ask.order => desk[d].ask.order[m.id] - 1 \in 0 .. Room - 1
    BY <1>2, DeskFields DEF OrderIn
  <2> QED
    BY <2>1, <2>2 DEF Placed, MenusIn
<1> HIDE DEF new
<1>4. /\ Turned(d, k) /\ UNCHANGED <<forms, losses>> /\ menus' = {new(m) : m \in menus}
      /\ DeskIn(k, Room, forms) /\ Formed(k) /\ (Owes(k) => Owes(desk[d]))
  BY <1>1, DoneIn
<1> HIDE DEF k
<1>5. menus' \subseteq MenusIn(Room, forms) /\ Single(menus)'
  BY <1>3, <1>4 DEF MenuInv, Single
<1> QED
  BY <1>4, <1>5, Quiet

LEMMA RefuseStep ==
  ASSUME MenuInv, NEW d \in staff, Refuse(d)
  PROVE  MenuInv'
<1> DEFINE k == [desk[d] EXCEPT !.at = "idle"]
<1>1. Turned(d, k) /\ UNCHANGED <<menus, forms, losses>>
  BY DEF Refuse, Turned, MenuInv, Staffed
<1>2. desk[d].at = "sent"
  BY DEF Refuse, Asked
<1>3. DeskIn(k, Room, forms)
  <2>1. k.ask = desk[d].ask
    BY DeskFields DEF DeskIn
  <2> QED
    BY <2>1, DeskFields DEF DeskIn, Stages
<1>4. Formed(k) /\ (Owes(k) => Owes(desk[d]))
  BY <1>2, DeskFields DEF Formed, DeskIn, Owes
<1> HIDE DEF k
<1> QED
  BY <1>1, <1>3, <1>4, Quiet DEF MenuInv, Single

LEMMA ListStep ==
  ASSUME MenuInv, NEW d \in staff, List(d)
  PROVE  MenuInv'
<1> DEFINE k == [desk[d] EXCEPT !.at = "listed", !.list = menus]
<1>1. Turned(d, k) /\ UNCHANGED <<menus, forms, losses>>
  BY DEF List, Turned, MenuInv, Staffed
<1>2. desk[d].at = "asking"
  BY DEF List
<1>3. DeskIn(k, Room, forms)
  <2>1. k.ask = desk[d].ask /\ menus \in SUBSET MenusIn(Room, forms)
    BY DeskFields DEF DeskIn, MenuInv
  <2> QED
    BY <2>1, DeskFields DEF DeskIn, Stages
<1>4. Formed(k) /\ (Owes(k) => Owes(desk[d]))
  BY <1>2, DeskFields DEF Formed, DeskIn, Owes, MenuInv
<1> HIDE DEF k
<1> QED
  BY <1>1, <1>3, <1>4, Quiet DEF MenuInv, Single

LEMMA LoadStep ==
  ASSUME MenuInv, NEW d \in staff, Load(d)
  PROVE  MenuInv'
<1> DEFINE k == [desk[d] EXCEPT !.at = "idle", !.ready = TRUE, !.shown = desk[d].list,
                                !.list = {}]
<1>1. Turned(d, k) /\ UNCHANGED <<menus, forms, losses>>
  BY DEF Load, Turned, MenuInv, Staffed
<1>2. desk[d].at = "listed"
  BY DEF Load
<1>3. /\ k.ask = desk[d].ask /\ k.at = "idle" /\ k.shown = desk[d].list /\ k.list = {}
      /\ k.editing = desk[d].editing /\ k.form = desk[d].form
  BY DeskFields DEF DeskIn
<1>4. DeskIn(k, Room, forms)
  <2>1. desk[d].list \in SUBSET MenusIn(Room, forms)
    BY DeskFields DEF DeskIn
  <2> QED
    BY <1>3, <2>1, DeskFields DEF DeskIn, Stages
<1> HIDE DEF k
<1>5. Single(k.shown) /\ Single(k.list)
  BY <1>3, DeskFields DEF Formed, Single
<1>6. Formed(k) /\ (Owes(k) => Owes(desk[d]))
  BY <1>2, <1>3, <1>5 DEF Formed, Owes
<1> QED
  BY <1>1, <1>4, <1>6, Quiet DEF MenuInv, Single

(* After success the page asks for the list; a form that was saved is gone.       *)
LEMMA SucceededIs ==
  ASSUME MenuInv, NEW d \in staff, Answered(d)
  PROVE  /\ Turned(d, Succeeded(d)) /\ UNCHANGED <<menus, forms, losses>>
         /\ Succeeded(d).at = "asking" /\ Succeeded(d).ask = desk[d].ask
         /\ Succeeded(d).shown = desk[d].shown /\ Succeeded(d).list = desk[d].list
         /\ \/ Succeeded(d).editing = None /\ Succeeded(d).form = 0
            \/ /\ Succeeded(d).editing = desk[d].editing /\ Succeeded(d).form = desk[d].form
               /\ desk[d].ask.op \notin {"create", "update"}
         /\ DeskIn(Succeeded(d), Room, forms)
<1>1. Turned(d, Succeeded(d)) /\ UNCHANGED <<menus, forms, losses>>
  BY DEF Answered, Turned, MenuInv, Staffed
<1> DEFINE gone == [desk[d] EXCEPT !.at = "asking", !.editing = None, !.form = 0]
           kept == [desk[d] EXCEPT !.at = "asking"]
<1>2. \/ Succeeded(d) = gone
      \/ Succeeded(d) = kept /\ desk[d].ask.op \notin {"create", "update"}
  BY DEF Succeeded
<1>3. /\ gone.ask = desk[d].ask /\ gone.at = "asking" /\ gone.editing = None /\ gone.form = 0
      /\ gone.shown = desk[d].shown /\ gone.list = desk[d].list
  BY DeskFields DEF DeskIn
<1>4. /\ kept.ask = desk[d].ask /\ kept.at = "asking"
      /\ kept.editing = desk[d].editing /\ kept.form = desk[d].form
      /\ kept.shown = desk[d].shown /\ kept.list = desk[d].list
  BY DeskFields DEF DeskIn
<1>5. DeskIn(gone, Room, forms)
  <2>1. None \in 0 .. Room /\ 0 \in 0 .. forms
    BY DeskFields DEF None
  <2> QED
    BY <1>3, <2>1, DeskFields DEF DeskIn, Stages
<1>6. DeskIn(kept, Room, forms)
  BY <1>4, DeskFields DEF DeskIn, Stages
<1> HIDE DEF gone, kept
<1> QED
  BY <1>1, <1>2, <1>3, <1>4, <1>5, <1>6

LEMMA AnsweredStep ==
  ASSUME MenuInv, NEW d \in staff, Answered(d)
  PROVE  MenuInv'
<1> DEFINE k == Succeeded(d)
<1>1. desk[d].at = "answered"
  BY DEF Answered
<1>2. Formed(k) /\ (Owes(k) => Owes(desk[d]))
  BY <1>1, SucceededIs, DeskFields DEF Formed, Owes
<1>3. Turned(d, k) /\ UNCHANGED <<menus, forms, losses>> /\ DeskIn(k, Room, forms)
  BY SucceededIs
<1> HIDE DEF k
<1> QED
  BY <1>2, <1>3, Quiet DEF MenuInv, Single

--------------------------------------------------------------------------------
(* Types.                                                                         *)

LEMMA MenuStart == Init => MenuInv
<1> SUFFICES ASSUME Init PROVE MenuInv
  OBVIOUS
<1>1. /\ IsFiniteSet(staff) /\ Cardinality(staff) \in Nat /\ staff # {} /\ staff \subseteq Desks
      /\ DOMAIN desk = staff /\ forms = 0 /\ losses = 0 /\ menus = {}
      /\ \A d \in staff : desk[d] = Mounted
  <2>1. staff \in SUBSET Desks /\ IsFiniteSet(Desks) /\ desk = [d \in staff |-> Mounted]
    BY MenuAssumption DEF Init
  <2>2. IsFiniteSet(staff) /\ Cardinality(staff) \in Nat
    BY <2>1, FS_Subset, FS_CardinalityType
  <2> QED
    BY <2>1, <2>2 DEF Init
<1>2. ~Owes(Mounted) /\ Formed(Mounted) /\ DeskIn(Mounted, 0, 0)
  BY DEF Mounted, Owes, Formed, Single, DeskIn, AskIn, Stages, None
<1>3. Owing = {}
  BY <1>1, <1>2 DEF Owing
<1>4. Room = 0
  BY <1>1, <1>3, FS_EmptySet DEF Room
<1>5. Budget
  BY <1>1, MenuAssumption DEF Budget
<1> QED
  BY <1>1, <1>2, <1>4, <1>5 DEF MenuInv, Staffed, Single

(* The steps of Next, one by one.                                                 *)
Acts(d) == \/ Cancel(d) \/ Mount(d) \/ Lose(d) \/ ReadLast(d) \/ Create(d) \/ Update(d)
           \/ Delete(d) \/ Reorder(d) \/ Refuse(d) \/ List(d) \/ Answered(d) \/ Load(d)
           \/ \E m \in desk[d].shown : StartEdit(d, m) \/ Drop(d, m)
           \/ \E c \in Categories : Submit(d, c) \/ Move(d, c)

LEMMA NextActs == Next => \E d \in staff : Acts(d)
BY Zenon DEF Next, Requests, Acts

LEMMA MenuStep == MenuInv /\ [Next]_vars => MenuInv'
<1> SUFFICES ASSUME MenuInv, [Next]_vars PROVE MenuInv'
  OBVIOUS
<1>1. ASSUME NEW d \in staff, Acts(d) PROVE MenuInv'
  BY <1>1, CancelStep, MountStep, LoseStep, ReadLastStep, CreateStep, UpdateStep, DeleteStep,
     ReorderStep, RefuseStep, ListStep, AnsweredStep, LoadStep, StartEditStep, DropStep,
     SubmitStep, MoveStep, Zenon DEF Acts
<1>2. CASE UNCHANGED vars
  BY <1>2 DEF vars, MenuInv, Staffed, Budget, Room, Owing, Single
<1> QED
  BY <1>1, <1>2, NextActs

LEMMA MenuInvTypes == MenuInv => TypeOK
<1> SUFFICES ASSUME MenuInv PROVE TypeOK
  OBVIOUS
<1>1. /\ Room \in Nat /\ forms \in Nat /\ losses \in Nat /\ MaxForms \in Nat
      /\ Room <= MaxForms /\ forms <= MaxForms /\ losses <= MaxForms
  <2> DEFINE n == Cardinality(staff)
  <2>1. n \in Nat /\ n # 0
    BY FS_CardinalityType, FS_EmptySet DEF MenuInv, Staffed
  <2>2. Cardinality(Owing) \in Nat
    BY FS_Subset, FS_CardinalityType DEF Owing, MenuInv, Staffed
  <2>3. forms * n + 2 * losses <= MaxForms /\ MaxForms \in Nat
    BY MenuAssumption DEF MenuInv, Budget
  <2> HIDE DEF n
  <2>4. forms <= forms * n
    BY <2>1, DeskFields DEF MenuInv, Budget
  <2>5. forms * n \in Int
    BY <2>1 DEF MenuInv, Budget
  <2> QED
    BY <2>2, <2>3, <2>4, <2>5 DEF MenuInv, Budget, Room
<1>2. MenusIn(Room, forms) \subseteq Menus
  BY <1>1 DEF MenusIn, Menus, Ids, Places
<1>3. ASSUME NEW ask, AskIn(ask, Room) PROVE ask \in Asks
  <2>1. 0 .. Room \subseteq Ids \cup {None} /\ 1 .. Room \subseteq Ids
    BY <1>1 DEF Ids, None
  <2>2. ASSUME NEW order, OrderIn(order, Room) PROVE order \in Orders
    <3>1. DOMAIN order \in SUBSET Ids /\ order \in [DOMAIN order -> Ids]
      BY <2>1, <2>2 DEF OrderIn
    <3> QED
      BY <3>1, Zenon DEF Orders
  <2>3. CASE ask.op = "reorder" /\ ask \in [op : {"reorder"}, order : {ask.order},
                                            category : Categories] /\ OrderIn(ask.order, Room)
    BY <2>2, <2>3 DEF Asks
  <2>4. CASE ask \in [op : {"create", "update", "remove"}, id : 0 .. Room, category : Categories]
    BY <2>1, <2>4 DEF Asks
  <2> QED
    BY <1>3, <2>3, <2>4 DEF AskIn, Asks
<1>4. ASSUME NEW d \in staff PROVE desk[d] \in Desk
  <2>1. DeskIn(desk[d], Room, forms) /\ desk[d].ask \in Asks
    BY <1>3, DeskFields DEF DeskIn
  <2>2. SUBSET MenusIn(Room, forms) \subseteq SUBSET Menus
    BY <1>2
  <2>3. /\ 0 .. Room \subseteq Ids \cup {None} /\ 0 .. forms \subseteq 0 .. MaxForms
        /\ -1 .. Room - 1 \subseteq Places \cup {-1}
    BY <1>1 DEF Ids, Places, None
  <2> QED
    BY <2>1, <2>2, <2>3 DEF DeskIn, Desk
<1> QED
  BY <1>1, <1>2, <1>4 DEF MenuInv, TypeOK, Staffed, Single

(* Rows, requests, lists and forms stay within their types: ids and places, which *)
(* MenuService derives from the rows there are, outgrow neither the forms filled  *)
(* in nor the answers lost.                                                       *)
THEOREM MenusTypeCorrect == Spec => []TypeOK
<1>1. Spec => []MenuInv
  BY MenuStart, MenuStep, PTL DEF Spec
<1> QED
  BY <1>1, MenuInvTypes, PTL

--------------------------------------------------------------------------------
(* Forms are saved once.                                                          *)

(* Steps that save no form.                                                       *)
LEMMA ApartQuiet ==
  ASSUME MenuInv, Apart, NEW d \in staff, NEW k, Turned(d, k),
         k.form \in {0, desk[d].form}, k.form # 0 /\ ~Saved(k) => ~Saved(desk[d]),
         \A m, n \in menus' : m.form = n.form => m = n,
         \A m \in menus' : \E n \in menus : n.form = m.form
  PROVE  Apart'
<1>1. ASSUME NEW e \in staff, NEW f \in staff, desk'[e].form # 0, desk'[e].form = desk'[f].form
      PROVE  e = f
  <2>1. \A g \in staff : desk'[g].form # 0 => desk'[g].form = desk[g].form
    BY DEF Turned
  <2>2. desk[e].form # 0 /\ desk[e].form = desk[f].form
    BY <1>1, <2>1
  <2> QED
    BY <2>2 DEF Apart
<1>2. ASSUME NEW e \in staff, desk'[e].form # 0, ~Saved(desk'[e]), NEW m \in menus'
      PROVE  m.form # desk'[e].form
  <2>1. desk'[e].form = desk[e].form /\ ~Saved(desk[e])
    BY <1>2 DEF Turned
  <2> QED
    BY <1>2, <2>1 DEF Apart
<1> QED
  BY <1>1, <1>2 DEF Apart, Turned, Saved

LEMMA ApartSubmit ==
  ASSUME MenuInv, Apart, NEW d \in staff, NEW c \in Categories, Submit(d, c)
  PROVE  Apart'
<1>1. PICK form \in {desk[d].form, forms + 1} \cap 1 .. MaxForms :
        desk' = [Send(d, [op |-> IF desk[d].editing = None THEN "create" ELSE "update",
                          id |-> desk[d].editing, category |-> c])
                 EXCEPT ![d].form = form]
  BY DEF Submit
<1>2. /\ menus' = menus /\ staff' = staff
      /\ \A e \in staff \ {d} : desk'[e] = desk[e]
  BY <1>1 DEF Submit, Send, MenuInv, Staffed
<1>3. desk'[d].form = form /\ desk'[d].at = "sent"
  BY <1>1, DeskFields DEF Send, Staffed, DeskIn
<1>4. /\ \A e \in staff : desk[e].form \in 0 .. forms
      /\ \A m \in menus : m.form \in 1 .. forms
      /\ forms \in Nat /\ form # 0 /\ ~Saved(desk[d])
  BY <1>1, DeskFields DEF MenuInv, DeskIn, MenusIn, Submit, Usable, Saved
<1>5. form = desk[d].form \/ form = forms + 1
  BY <1>1
<1>6. ASSUME NEW e \in staff, e # d PROVE desk[e].form # form
  BY <1>4, <1>5, <1>6 DEF Apart
<1>7. ASSUME NEW m \in menus PROVE m.form # form
  BY <1>4, <1>5, <1>7 DEF Apart
<1>8. \A e, f \in staff : desk'[e].form # 0 /\ desk'[e].form = desk'[f].form => e = f
  BY <1>2, <1>3, <1>6 DEF Apart
<1>9. \A e \in staff : desk'[e].form # 0 /\ ~Saved(desk'[e]) =>
                         \A m \in menus : m.form # desk'[e].form
  BY <1>2, <1>3, <1>7 DEF Apart
<1> QED
  BY <1>2, <1>8, <1>9 DEF Apart, Saved

(* A form that is saved goes to one menu, and its page has no other use for it.   *)
LEMMA ApartSave ==
  ASSUME MenuInv, Apart, NEW d \in staff, Turned(d, Done(desk[d])),
         desk[d].at # "answered", desk[d].ask.op \in {"create", "update"}, desk[d].form # 0,
         \A m, n \in menus' : m.form = n.form => m = n,
         \A m \in menus' : m.form = desk[d].form \/ \E n \in menus : n.form = m.form
  PROVE  Apart'
<1> DEFINE k == Done(desk[d])
<1>1. k.form = desk[d].form /\ Saved(k)
  BY DeskFields DEF DeskIn, Done, Saved
<1>2. desk'[d] = k /\ staff' = staff /\ \A e \in staff \ {d} : desk'[e] = desk[e]
  BY DEF Turned
<1> HIDE DEF k
<1>3. \A e \in staff : desk'[e].form = desk[e].form
  BY <1>1, <1>2
<1>4. ASSUME NEW e \in staff, desk[e].form # 0, ~Saved(desk'[e]), NEW m \in menus'
      PROVE  m.form # desk[e].form
  <2>1. e # d /\ ~Saved(desk[e])
    BY <1>1, <1>2, <1>4
  <2>2. desk[e].form # desk[d].form
    BY <1>4, <2>1 DEF Apart
  <2> QED
    BY <1>4, <2>1, <2>2 DEF Apart
<1>5. \A e, f \in staff : desk'[e].form # 0 /\ desk'[e].form = desk'[f].form => e = f
  BY <1>3 DEF Apart
<1>6. \A e \in staff : desk'[e].form # 0 /\ ~Saved(desk'[e]) =>
                         \A m \in menus' : m.form # desk'[e].form
  BY <1>3, <1>4
<1> QED
  BY <1>2, <1>5, <1>6 DEF Apart, Saved

LEMMA ApartCreate ==
  ASSUME MenuInv, Apart, NEW d \in staff, Create(d)
  PROVE  Apart'
<1> DEFINE new == [id |-> Max({0} \cup {m.id : m \in menus}) + 1,
                   category |-> desk[d].ask.category, place |-> desk[d].last + 1,
                   form |-> desk[d].form]
<1>1. Commit(d, menus \cup {new}) /\ new.form = desk[d].form
  BY DEF Create
<1> HIDE DEF new
<1>2. /\ desk[d].at = "reading" /\ desk[d].ask.op = "create" /\ desk[d].form # 0
      /\ Turned(d, Done(desk[d])) /\ menus' = menus \cup {new}
  BY <1>1, DoneIn, DeskFields DEF Create, Formed
<1>3. \A m \in menus : m.form # desk[d].form
  BY <1>2 DEF Apart, Saved
<1>4. /\ \A m, n \in menus' : m.form = n.form => m = n
      /\ \A m \in menus' : m.form = desk[d].form \/ \E n \in menus : n.form = m.form
  BY <1>1, <1>2, <1>3 DEF Apart
<1> QED
  BY <1>2, <1>4, ApartSave

LEMMA ApartUpdate ==
  ASSUME MenuInv, Apart, NEW d \in staff, Update(d)
  PROVE  Apart'
<1> DEFINE new(m) == IF m \in Named(d) THEN [m EXCEPT !.category = desk[d].ask.category,
                                                      !.form = desk[d].form]
                     ELSE m
<1>1. /\ desk[d].at = "sent" /\ desk[d].ask.op = "update" /\ desk[d].form # 0
      /\ Turned(d, Done(desk[d])) /\ menus' = {new(m) : m \in menus}
  BY DoneIn, DeskFields DEF Update, Asked, Formed
<1>2. \A m \in menus : m.form # desk[d].form
  BY <1>1 DEF Apart, Saved
<1>3. /\ \A m, n \in Named(d) : m = n
      /\ \A m \in menus : m \in Named(d) => new(m).form = desk[d].form
      /\ \A m \in menus : m \notin Named(d) => new(m) = m
  BY DEF Named, MenuInv, Single, MenusIn
<1> HIDE DEF new
<1>4. /\ \A m, n \in menus' : m.form = n.form => m = n
      /\ \A m \in menus' : m.form = desk[d].form \/ \E n \in menus : n.form = m.form
  BY <1>1, <1>2, <1>3 DEF Apart
<1> QED
  BY <1>1, <1>4, ApartSave

LEMMA ApartDelete ==
  ASSUME MenuInv, Apart, NEW d \in staff, Delete(d)
  PROVE  Apart'
<1> DEFINE k == Done(desk[d])
<1>1. /\ Turned(d, k) /\ menus' = menus \ Named(d)
      /\ desk[d].at = "sent" /\ k.form = desk[d].form
  BY DoneIn, DeskFields DEF Delete, Asked, Done, DeskIn
<1> HIDE DEF k
<1>2. ~Saved(desk[d])
  BY <1>1 DEF Saved
<1> QED
  BY <1>1, <1>2, ApartQuiet DEF Apart

LEMMA ApartReorder ==
  ASSUME MenuInv, Apart, NEW d \in staff, Reorder(d)
  PROVE  Apart'
<1> DEFINE k == Done(desk[d])
           new(m) == Placed(m, desk[d].ask.order, desk[d].ask.category)
<1>1. /\ Turned(d, k) /\ menus' = {new(m) : m \in menus}
      /\ desk[d].at = "sent" /\ k.form = desk[d].form
  BY DoneIn, DeskFields DEF Reorder, Asked, Done, DeskIn
<1>2. ~Saved(desk[d])
  BY <1>1 DEF Saved
<1>3. \A m \in menus : new(m).form = m.form
  BY DEF MenuInv, MenusIn, Placed
<1> HIDE DEF k, new
<1>4. /\ \A m, n \in menus' : m.form = n.form => m = n
      /\ \A m \in menus' : \E n \in menus : n.form = m.form
  BY <1>1, <1>3 DEF Apart
<1> QED
  BY <1>1, <1>2, <1>4, ApartQuiet

(* Steps that leave the menus alone.                                              *)
LEMMA ApartPage ==
  ASSUME MenuInv, Apart, NEW d \in staff, NEW k, Turned(d, k), menus' = menus,
         k.form \in {0, desk[d].form}, k.form # 0 /\ ~Saved(k) => ~Saved(desk[d])
  PROVE  Apart'
<1>1. /\ \A m, n \in menus' : m.form = n.form => m = n
      /\ \A m \in menus' : \E n \in menus : n.form = m.form
  BY DEF Apart
<1> QED
  BY <1>1, ApartQuiet

LEMMA ApartOthers ==
  ASSUME MenuInv, Apart, NEW d \in staff,
         \/ Cancel(d) \/ Mount(d) \/ ReadLast(d) \/ Refuse(d) \/ List(d) \/ Load(d)
         \/ \E m \in desk[d].shown : StartEdit(d, m) \/ Drop(d, m)
         \/ \E c \in Categories : Move(d, c)
  PROVE  Apart'
<1>1. desk[d].at # "answered" => ~Saved(desk[d])
  BY DEF Saved
<1>2. /\ menus' = menus /\ Turned(d, desk'[d])
      /\ desk[d].at # "answered"
      /\ desk'[d].form \in {0, desk[d].form}
  <2>1. CASE Cancel(d)
    BY <2>1, DeskFields DEF Cancel, Usable, Turned, Staffed, DeskIn
  <2>2. CASE Mount(d)
    <3>1. Mounted.form = 0
      BY DEF Mounted
    <3> QED
      BY <2>2, <3>1, DeskFields DEF Mount, Turned, Staffed
  <2>3. CASE \E m \in desk[d].shown : StartEdit(d, m)
    BY <2>3, DeskFields DEF StartEdit, Usable, Turned, Staffed, DeskIn
  <2>4. CASE ReadLast(d) \/ Refuse(d)
    BY <2>4, DeskFields DEF ReadLast, Refuse, Asked, Turned, Staffed, DeskIn
  <2>5. CASE List(d)
    BY <2>5, DeskFields DEF List, Turned, Staffed, DeskIn
  <2>6. CASE Load(d)
    BY <2>6, DeskFields DEF Load, Turned, Staffed, DeskIn
  <2>7. ASSUME NEW ask, desk' = Send(d, ask), Usable(d), UNCHANGED <<menus, staff>>
        PROVE  /\ menus' = menus /\ Turned(d, desk'[d])
               /\ desk[d].at # "answered"
               /\ desk'[d].form \in {0, desk[d].form}
    BY <2>7, DeskFields DEF Send, Usable, Turned, Staffed, DeskIn
  <2>8. CASE \E m \in desk[d].shown : Drop(d, m)
    BY <2>7, <2>8 DEF Drop
  <2>9. CASE \E c \in Categories : Move(d, c)
    <3>1. PICK c \in Categories : Move(d, c)
      BY <2>9
    <3>2. PICK ask : desk' = Send(d, ask) /\ Usable(d) /\ UNCHANGED <<menus, staff>>
      BY <3>1 DEF Move
    <3> QED
      BY <2>7, <3>2
  <2> QED
    BY <2>1, <2>2, <2>3, <2>4, <2>5, <2>6, <2>8, <2>9
<1> QED
  BY <1>1, <1>2, ApartPage

LEMMA ApartAnswered ==
  ASSUME MenuInv, Apart, NEW d \in staff, Answered(d)
  PROVE  Apart'
<1> DEFINE k == Succeeded(d)
<1>1. /\ Turned(d, k) /\ menus' = menus
      /\ k.form \in {0, desk[d].form} /\ (k.form # 0 => ~Saved(desk[d]))
  BY SucceededIs DEF Saved
<1> HIDE DEF k
<1> QED
  BY <1>1, ApartPage

LEMMA SaveStep == MenuInv /\ SaveInv /\ [Next]_vars => SaveInv'
<1> SUFFICES ASSUME MenuInv, SaveInv, [Next]_vars, losses' = 0 PROVE Apart'
  BY DEF SaveInv
<1>1. ASSUME NEW d \in staff, Acts(d) PROVE Apart'
  <2>1. ~Lose(d)
    BY DeskFields DEF Lose
  <2>2. losses' = losses
    BY <1>1, <2>1, Zenon DEF Acts, Cancel, Mount, ReadLast, Create, Update, Delete, Reorder,
      Refuse, List, Answered, Load, StartEdit, Drop, Submit, Move, Commit
  <2>3. Apart
    BY <2>2 DEF SaveInv
  <2> QED
    BY <1>1, <2>1, <2>3, ApartOthers, ApartCreate, ApartUpdate, ApartDelete, ApartReorder,
      ApartAnswered, ApartSubmit, Zenon DEF Acts
<1>2. CASE UNCHANGED vars
  BY <1>2 DEF vars, SaveInv, Apart, Saved
<1> QED
  BY <1>1, <1>2, NextActs

(* Whichever desks work at the same time and whatever they do to one another's    *)
(* menus, a form is saved to one menu only, as long as no answer is lost.         *)
THEOREM MenusSavedOnce == Spec => []SavedOnce
<1>1. Init => SaveInv
  BY DEF Init, SaveInv, Apart, Mounted
<1>2. SaveInv => SavedOnce
  BY DEF SaveInv, Apart, SavedOnce
<1> QED
  BY <1>1, <1>2, MenuStart, MenuStep, SaveStep, PTL DEF Spec

--------------------------------------------------------------------------------
(* Lists and positions.                                                           *)

(* Positions are ranks.                                                           *)
Ranks(f, I) == /\ f \in [I -> Nat]
               /\ \A j \in I : f[j] = Cardinality({i \in I : f[i] < f[j]}) + 1
               /\ \A i, j \in I : f[i] = f[j] => i = j

LEMMA ListedRanks ==
  ASSUME NEW room \in Nat, NEW number \in Nat, NEW set \in SUBSET MenusIn(room, number),
         Single(set), NEW c
  PROVE  Ranks(Listed(set, c), IdsOf(set, c)) /\ IsFiniteSet(IdsOf(set, c))
<1> DEFINE I == IdsOf(set, c)
           B(j) == {i \in I : First(set, i, j)}
           L == Listed(set, c)
<1>1. I \subseteq 1 .. room /\ \A i \in I : \E m \in set : m.id = i
  BY DEF IdsOf, MenusIn
<1>2. IsFiniteSet(I)
  <2>1. IsFiniteSet(1 .. room)
    BY FS_Interval
  <2> QED
    BY <1>1, <2>1, FS_Subset
<1>3. /\ \A i \in I : ~First(set, i, i)
      /\ \A i, j, h \in I : First(set, i, j) /\ First(set, j, h) => First(set, i, h)
      /\ \A i, j \in I : i = j \/ First(set, i, j) \/ First(set, j, i)
  <2>1. \A m, n \in set : /\ m.id \in Int /\ m.place \in Int /\ n.id \in Int /\ n.place \in Int
                          /\ m.id = n.id => m = n
    BY DEF MenusIn, Single
  <2>2. \A i \in I : ~First(set, i, i)
    BY <2>1 DEF First, Before
  <2>3. \A i, j, h \in I : First(set, i, j) /\ First(set, j, h) => First(set, i, h)
    BY <2>1 DEF First, Before
  <2>4. \A i, j \in I : i = j \/ First(set, i, j) \/ First(set, j, i)
    BY <1>1, <2>1 DEF First, Before
  <2> QED
    BY <2>2, <2>3, <2>4
<1>4. \A j \in I : L[j] = Cardinality(B(j)) + 1
  BY DEF Listed
<1>5. L \in [I -> Nat]
  <2>1. \A j \in I : IsFiniteSet(B(j)) /\ Cardinality(B(j)) \in Nat
    BY <1>2, FS_Subset, FS_CardinalityType
  <2> QED
    BY <1>4, <2>1 DEF Listed
<1>6. ASSUME NEW i \in I, NEW j \in I, First(set, i, j) PROVE L[i] < L[j]
  <2>1. B(i) \subseteq B(j) /\ i \in B(j) /\ i \notin B(i)
    BY <1>3, <1>6
  <2>2. IsFiniteSet(B(i)) /\ IsFiniteSet(B(j))
    BY <1>2, FS_Subset
  <2> HIDE DEF B
  <2>3. Cardinality(B(i)) \in Nat /\ Cardinality(B(j)) \in Nat
        /\ Cardinality(B(i)) < Cardinality(B(j))
    BY <2>1, <2>2, FS_Subset, FS_CardinalityType
  <2> QED
    BY <1>4, <2>3
<1>7. \A i, j \in I : /\ First(set, i, j) <=> L[i] < L[j]
                      /\ L[i] = L[j] => i = j
  <2> HIDE DEF L
  <2> SUFFICES ASSUME NEW i \in I, NEW j \in I
               PROVE  (First(set, i, j) <=> L[i] < L[j]) /\ (L[i] = L[j] => i = j)
    OBVIOUS
  <2>1. L[i] \in Nat /\ L[j] \in Nat
    BY <1>5
  <2> QED
    BY <1>3, <1>6, <2>1
<1>8. \A j \in I : B(j) = {i \in I : L[i] < L[j]}
  BY <1>7
<1> QED
  BY <1>2, <1>4, <1>5, <1>7, <1>8 DEF Ranks

(* An arrow exchanges neighbours, which leaves ranks.                             *)
LEMMA SwappedRanks ==
  ASSUME NEW I, IsFiniteSet(I), NEW f, Ranks(f, I), NEW a \in I, NEW b \in I, f[b] = f[a] + 1
  PROVE  Ranks(Swapped(f, a, b), I)
<1> DEFINE g == Swapped(f, a, b)
<1>1. /\ f \in [I -> Nat] /\ \A i, j \in I : f[i] = f[j] => i = j
      /\ \A j \in I : f[j] = Cardinality({i \in I : f[i] < f[j]}) + 1
  BY DEF Ranks
<1>2. a # b
  BY <1>1
<1>3. g \in [I -> Nat] /\ g[a] = f[b] /\ g[b] = f[a] /\ \A i \in I \ {a, b} : g[i] = f[i]
  BY <1>1, <1>2 DEF Swapped
<1> HIDE DEF g
<1>4. \A i, j \in I : g[i] = g[j] => i = j
  BY <1>1, <1>3
<1>5. ASSUME NEW j \in I PROVE g[j] = Cardinality({i \in I : g[i] < g[j]}) + 1
  <2>1. CASE j = a
    <3> DEFINE S == {i \in I : f[i] < f[a]}
    <3>1. {i \in I : g[i] < g[a]} = S \cup {b}
      BY <1>1, <1>2, <1>3
    <3>2. b \notin S /\ IsFiniteSet(S)
      BY <1>1, FS_Subset
    <3>3. Cardinality(S) + 1 = f[a]
      BY <1>1
    <3> HIDE DEF S
    <3>4. Cardinality(S \cup {b}) = Cardinality(S) + 1
      BY <3>2, FS_AddElement
    <3> QED
      BY <1>3, <2>1, <3>1, <3>3, <3>4
  <2>2. CASE j = b
    <3>1. {i \in I : g[i] < g[b]} = {i \in I : f[i] < f[a]}
      BY <1>1, <1>2, <1>3
    <3> QED
      BY <1>1, <1>3, <2>2, <3>1
  <2>3. CASE j \notin {a, b}
    <3>1. f[j] # f[a] /\ f[j] # f[b] /\ f[j] \in Nat /\ f[a] \in Nat
      BY <1>1, <2>3
    <3>2. {i \in I : g[i] < g[j]} = {i \in I : f[i] < f[j]}
      BY <1>1, <1>2, <1>3, <2>3, <3>1
    <3> QED
      BY <1>1, <1>3, <2>3, <3>2
  <2> QED
    BY <2>1, <2>2, <2>3
<1> QED
  BY <1>3, <1>4, <1>5 DEF Ranks, g

(* Menus placed by their ranks are listed in that order, whatever their places    *)
(* had been.                                                                      *)
LEMMA PlacedListed ==
  ASSUME NEW room \in Nat, NEW number \in Nat, NEW set \in SUBSET MenusIn(room, number),
         Single(set), NEW c, NEW order, Ranks(order, IdsOf(set, c))
  PROVE  Listed({Placed(m, order, c) : m \in set}, c) = order
<1> DEFINE I == IdsOf(set, c)
           p(m) == Placed(m, order, c)
           new == {p(m) : m \in set}
<1>1. DOMAIN order = I /\ \A i \in I : order[i] \in Nat
  BY DEF Ranks
<1>2. \A m \in set : /\ p(m).id = m.id /\ p(m).category = m.category
                     /\ m.id \in I => p(m).place = order[m.id] - 1
  <2>1. \A m \in set : m.id \in I => m.category = c
    BY DEF IdsOf, Single
  <2> QED
    BY <1>1, <2>1 DEF Placed, MenusIn
<1> HIDE DEF p
<1>3. IdsOf(new, c) = I
  BY <1>2 DEF IdsOf
<1>4. ASSUME NEW i \in I, NEW j \in I PROVE First(new, i, j) <=> order[i] < order[j]
  <2>1. PICK m \in set, n \in set : m.id = i /\ n.id = j
    BY DEF IdsOf
  <2>2. p(m) \in new /\ p(n) \in new
    OBVIOUS
  <2>3. \A x \in new : /\ x.id = i => x = p(m)
                       /\ x.id = j => x = p(n)
    BY <1>2, <2>1 DEF Single
  <2>4. First(new, i, j) <=> Before(p(m), p(n))
    BY <1>2, <2>1, <2>2, <2>3 DEF First
  <2>5. /\ p(m).place = order[i] - 1 /\ p(n).place = order[j] - 1
        /\ p(m).id = i /\ p(n).id = j /\ i \in Int /\ j \in Int
        /\ order[i] = order[j] => i = j
    BY <1>2, <2>1 DEF Ranks, MenusIn
  <2> QED
    BY <1>1, <2>4, <2>5 DEF Before
<1>5. \A j \in I : {i \in I : First(new, i, j)} = {i \in I : order[i] < order[j]}
  BY <1>4
<1> HIDE DEF new
<1>6. Listed(new, c) = [j \in I |-> Cardinality({i \in I : First(new, i, j)}) + 1]
  BY <1>3 DEF Listed
<1>7. \A j \in I : Listed(new, c)[j] = order[j]
  BY <1>5, <1>6 DEF Ranks
<1> QED
  BY <1>6, <1>7 DEF Ranks, new, p

--------------------------------------------------------------------------------
(* A desk that works alone.                                                       *)

LEMMA AloneOnly ==
  ASSUME MenuInv, Alone, NEW d \in staff
  PROVE  \A e \in staff : e = d
BY FS_Singleton DEF Alone, MenuInv, Staffed

LEMMA SwapIs ==
  ASSUME MenuInv, NEW order, NEW c, Swap(menus, order, c)
  PROVE  Ranks(order, IdsOf(menus, c))
<1>1. PICK i \in IdsOf(menus, c), j \in IdsOf(menus, c) :
        /\ Listed(menus, c)[j] = Listed(menus, c)[i] + 1
        /\ order = Swapped(Listed(menus, c), i, j)
  BY DEF Swap
<1>2. Ranks(Listed(menus, c), IdsOf(menus, c)) /\ IsFiniteSet(IdsOf(menus, c))
  BY ListedRanks DEF MenuInv, Budget
<1> QED
  BY <1>1, <1>2, SwappedRanks

(* The page while nothing is sent.                                                *)
LEMMA KnowsPage ==
  ASSUME MenuInv, NEW d \in staff, Knows(desk[d], menus),
         \/ Cancel(d) \/ Mount(d)
         \/ \E m \in desk[d].shown : StartEdit(d, m) \/ Drop(d, m)
         \/ \E c \in Categories : Submit(d, c)
  PROVE  Knows(desk'[d], menus')
<1>1. CASE Mount(d)
  <2>1. desk'[d] = Mounted /\ menus' = menus
    BY <1>1, DeskFields DEF Mount, Staffed
  <2> QED
    BY <2>1 DEF Knows, Mounted, NoAsk
<1>2. CASE Cancel(d) \/ \E m \in desk[d].shown : StartEdit(d, m)
  <2>1. PICK editing :
          /\ desk' = [desk EXCEPT ![d] = [@ EXCEPT !.editing = editing, !.form = 0]]
          /\ menus' = menus /\ desk[d].at = "idle" /\ desk[d].ready
    BY <1>2 DEF Cancel, StartEdit, Usable
  <2>2. desk'[d].at = "idle" /\ desk'[d].shown = desk[d].shown
    BY <2>1, DeskFields DEF Staffed, DeskIn
  <2> QED
    BY <2>1, <2>2 DEF Knows
<1>3. ASSUME menus' = menus, Usable(d), desk'[d].at = "sent", desk'[d].shown = desk[d].shown,
             desk'[d].ask.op # "reorder"
      PROVE  Knows(desk'[d], menus')
  BY <1>3 DEF Knows, Usable
<1>4. CASE \E m \in desk[d].shown : Drop(d, m)
  <2>1. PICK m \in desk[d].shown : Drop(d, m)
    BY <1>4
  <2>2. /\ menus' = menus /\ Usable(d)
        /\ desk'[d].at = "sent" /\ desk'[d].shown = desk[d].shown
        /\ desk'[d].ask.op = "remove"
    BY <2>1, DeskFields DEF Drop, Send, Staffed, DeskIn
  <2> QED
    BY <1>3, <2>2
<1>5. CASE \E c \in Categories : Submit(d, c)
  <2>1. PICK c \in Categories : Submit(d, c)
    BY <1>5
  <2>2. PICK form \in {desk[d].form, forms + 1} \cap 1 .. MaxForms :
          desk' = [Send(d, [op |-> IF desk[d].editing = None THEN "create" ELSE "update",
                            id |-> desk[d].editing, category |-> c])
                   EXCEPT ![d].form = form]
    BY <2>1 DEF Submit
  <2>3. /\ desk'[d].at = "sent" /\ desk'[d].shown = desk[d].shown
        /\ desk'[d].ask.op # "reorder"
    BY <2>2, DeskFields DEF Send, Staffed, DeskIn
  <2> QED
    BY <1>3, <2>1, <2>3 DEF Submit
<1> QED
  BY <1>1, <1>2, <1>4, <1>5

LEMMA KnowsMove ==
  ASSUME MenuInv, NEW d \in staff, Knows(desk[d], menus), NEW c \in Categories, Move(d, c)
  PROVE  Knows(desk'[d], menus')
<1>1. desk[d].shown = menus /\ menus' = menus
  BY DEF Move, Usable, Knows
<1> DEFINE order == Listed(menus, c)
<1>2. PICK i \in DOMAIN order, j \in DOMAIN order :
        /\ order[j] = order[i] + 1
        /\ desk' = Send(d, [op |-> "reorder", category |-> c, order |-> Swapped(order, i, j)])
  BY <1>1 DEF Move
<1>3. DOMAIN order = IdsOf(menus, c)
  BY DEF Listed
<1> HIDE DEF order
<1>4. /\ desk'[d].at = "sent" /\ desk'[d].shown = menus
      /\ desk'[d].ask = [op |-> "reorder", category |-> c, order |-> Swapped(order, i, j)]
  BY <1>1, <1>2, DeskFields DEF Send, Staffed, DeskIn
<1>5. Swap(menus, desk'[d].ask.order, desk'[d].ask.category)
  BY <1>2, <1>3, <1>4 DEF Swap, order
<1> QED
  BY <1>1, <1>4, <1>5 DEF Knows

LEMMA KnowsServer ==
  ASSUME MenuInv, NEW d \in staff, Knows(desk[d], menus),
         \/ ReadLast(d) \/ Create(d) \/ Update(d) \/ Delete(d) \/ Refuse(d) \/ List(d)
  PROVE  Knows(desk'[d], menus')
<1>1. CASE Create(d) \/ Update(d) \/ Delete(d)
  <2>1. desk' = [desk EXCEPT ![d].at = "answered", ![d].last = -1]
    BY <1>1 DEF Create, Update, Delete, Commit
  <2>2. desk[d].ask.op # "reorder"
    BY <1>1, DeskFields DEF Create, Update, Delete, Asked, Formed
  <2>3. desk'[d].at = "answered" /\ desk'[d].ask = desk[d].ask
    BY <2>1, DeskFields DEF Staffed, DeskIn
  <2> QED
    BY <2>2, <2>3 DEF Knows
<1>2. CASE ReadLast(d) \/ Refuse(d)
  <2>1. /\ menus' = menus /\ desk[d].at = "sent" /\ desk'[d].at \in {"reading", "idle"}
        /\ desk'[d].shown = desk[d].shown
    BY <1>2, DeskFields DEF ReadLast, Refuse, Asked, Staffed, DeskIn
  <2> QED
    BY <2>1 DEF Knows
<1>3. CASE List(d)
  <2>1. /\ menus' = menus /\ desk[d].at = "asking" /\ desk'[d].at = "listed"
        /\ desk'[d].list = menus /\ desk'[d].ask = desk[d].ask
    BY <1>3, DeskFields DEF List, Staffed, DeskIn
  <2> QED
    BY <2>1 DEF Knows
<1> QED
  BY <1>1, <1>2, <1>3

LEMMA KnowsReorder ==
  ASSUME MenuInv, NEW d \in staff, Knows(desk[d], menus), Reorder(d)
  PROVE  Knows(desk'[d], menus')
<1> DEFINE order == desk[d].ask.order
           c == desk[d].ask.category
<1>1. Ranks(order, IdsOf(menus, c))
  BY SwapIs DEF Knows, Reorder, Asked
<1>2. menus' = {Placed(m, order, c) : m \in menus}
  BY DEF Reorder, Commit
<1>3. desk'[d].at = "answered" /\ desk'[d].ask = desk[d].ask
  BY DeskFields DEF Reorder, Commit, Staffed, DeskIn
<1>4. Listed(menus', c) = order
  BY <1>1, <1>2, PlacedListed DEF MenuInv, Budget
<1> QED
  BY <1>3, <1>4 DEF Knows

LEMMA KnowsAnswer ==
  ASSUME MenuInv, NEW d \in staff, Knows(desk[d], menus), Answered(d) \/ Load(d)
  PROVE  Knows(desk'[d], menus')
<1>1. CASE Answered(d)
  <2>1. /\ menus' = menus /\ desk[d].at = "answered" /\ desk'[d].at = "asking"
        /\ desk'[d].ask = desk[d].ask
    BY <1>1, SucceededIs DEF Answered, Turned
  <2> QED
    BY <2>1 DEF Knows
<1>2. CASE Load(d)
  <2>1. /\ menus' = menus /\ desk[d].at = "listed" /\ desk'[d].at = "idle"
        /\ desk'[d].shown = desk[d].list
    BY <1>2, DeskFields DEF Load, Staffed, DeskIn
  <2> QED
    BY <2>1 DEF Knows
<1> QED
  BY <1>1, <1>2

LEMMA AloneStep == MenuInv /\ AloneInv /\ [Next]_vars => AloneInv'
<1> SUFFICES ASSUME MenuInv, AloneInv, [Next]_vars, Alone'
             PROVE  \A d \in staff' : Knows(desk'[d], menus')
  BY DEF AloneInv
<1>1. ASSUME NEW d \in staff, Acts(d) PROVE \A e \in staff' : Knows(desk'[e], menus')
  <2>1. ~Lose(d)
    BY DeskFields DEF Lose, Alone
  <2>2. UNCHANGED <<losses, staff>>
    BY <1>1, <2>1, Zenon DEF Acts, Cancel, Mount, ReadLast, Create, Update, Delete, Reorder,
      Refuse, List, Answered, Load, StartEdit, Drop, Submit, Move, Commit
  <2>3. Alone
    BY <2>2 DEF Alone
  <2>4. Knows(desk[d], menus) /\ \A e \in staff' : e = d
    BY <2>2, <2>3, AloneOnly DEF AloneInv
  <2>5. Knows(desk'[d], menus')
    BY <1>1, <2>1, <2>4, KnowsPage, KnowsMove, KnowsServer, KnowsReorder, KnowsAnswer,
       Zenon DEF Acts
  <2> QED
    BY <2>4, <2>5
<1>2. CASE UNCHANGED vars
  <2>1. Alone /\ staff' = staff /\ \A d \in staff : Knows(desk[d], menus)
    BY <1>2 DEF vars, Alone, AloneInv
  <2> QED
    BY <1>2, <2>1 DEF vars
<1> QED
  BY <1>1, <1>2, NextActs

LEMMA AloneStart == Init => AloneInv
BY DEF Init, AloneInv, Knows, Mounted, NoAsk

(* A desk that works alone, and whose answers arrive, has the stored list before  *)
(* it whenever its buttons can be pressed: load() follows every change.           *)
THEOREM AloneShownIsStored == Spec => []ShownIsStored
<1>1. AloneInv => ShownIsStored
  BY DEF AloneInv, Knows, ShownIsStored, Usable
<1> QED
  BY <1>1, AloneStart, AloneStep, MenuStart, MenuStep, PTL DEF Spec

(* ... and its moves result in the order the arrow announced, whatever equal      *)
(* places and gaps earlier changes had left.                                      *)
THEOREM AloneMovedAsAsked == Spec => []MovedAsAsked
<1>1. AloneInv => MovedAsAsked
  BY DEF AloneInv, Knows, MovedAsAsked
<1> QED
  BY <1>1, AloneStart, AloneStep, MenuStart, MenuStep, PTL DEF Spec

================================================================================
