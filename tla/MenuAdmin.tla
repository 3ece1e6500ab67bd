------------------------------- MODULE MenuAdmin -------------------------------
(* MenuManageView and MenuService: desks that create, change, delete and move    *)
(* menus, each from the list it loaded last, and the table they work on.         *)
EXTENDS Integers, FiniteSetsExt

CONSTANTS Desks, Categories,
          MaxForms   \* bound on forms filled in (menus created or changed), times the
                     \* desks at work, plus twice the requests and answers lost

ASSUME MenuAssumption == MaxForms \in Nat /\ IsFiniteSet(Desks)

VARIABLES menus, \* rows of the table menu
          desk,  \* state of each MenuManageView and of its request
          forms, \* forms filled in so far
          losses,
          staff  \* the desks at work in this behaviour: it never changes

vars == <<menus, desk, forms, losses, staff>>

None == 0
Ids == 1 .. MaxForms
Places == 0 .. MaxForms - 1
(* What a form says is its number; a row carries the one saved last.           *)
Menus == [id : Ids, category : Categories, place : Places, form : 1 .. MaxForms]
NoAsk == [op |-> "none"]
(* The order of a category: the position of each of its menus, by id.         *)
Orders == UNION {[S -> Ids] : S \in SUBSET Ids}
Asks == [op : {"create", "update", "remove"}, id : Ids \cup {None}, category : Categories]
        \cup [op : {"reorder"}, order : Orders, category : Categories] \cup {NoAsk}
Stages == {"idle", "sent", "reading", "answered", "asking", "listed"}

(* at is where the request stands, asking and listed being the GET of load();  *)
(* last and list are what was read, ready says the first load() has ended.     *)
Desk == [at : Stages, ready : BOOLEAN, shown : SUBSET Menus, editing : Ids \cup {None},
         form : 0 .. MaxForms, ask : Asks, last : Places \cup {-1},
         list : SUBSET Menus]

TypeOK == /\ menus \subseteq Menus /\ \A m, n \in menus : m.id = n.id => m = n
          /\ staff \subseteq Desks /\ DOMAIN desk = staff /\ \A d \in staff : desk[d] \in Desk
          /\ forms \in 0 .. MaxForms /\ losses \in 0 .. MaxForms

Mounted == [at |-> "asking", ready |-> FALSE, shown |-> {}, editing |-> None, form |-> 0,
            ask |-> NoAsk, last |-> -1, list |-> {}]
Init == /\ menus = {} /\ forms = 0 /\ losses = 0
        /\ staff \in (SUBSET Desks) \ {{}} /\ desk = [d \in staff |-> Mounted]

(* Menus of a category as pages list them: by place, the older of equals first. *)
Before(m, n) == m.place < n.place \/ (m.place = n.place /\ m.id < n.id)
First(set, i, j) == \E m, n \in set : m.id = i /\ n.id = j /\ Before(m, n)
IdsOf(set, c) == {m.id : m \in {n \in set : n.category = c}}
Listed(set, c) ==
  [j \in IdsOf(set, c) |-> Cardinality({i \in IdsOf(set, c) : First(set, i, j)}) + 1]

-------------------------------------------------------------------------------
(* The page: busy disables every button while a request is under way.          *)
Usable(d) == desk[d].at = "idle" /\ desk[d].ready
Send(d, ask) == [desk EXCEPT ![d] = [@ EXCEPT !.at = "sent", !.ask = ask]]

StartEdit(d, m) == /\ Usable(d) /\ desk[d].editing # m.id
                   /\ desk' = [desk EXCEPT ![d] = [@ EXCEPT !.editing = m.id, !.form = 0]]
                   /\ UNCHANGED <<menus, forms, losses, staff>>

Cancel(d) == /\ Usable(d) /\ desk[d].editing # None
             /\ desk' = [desk EXCEPT ![d] = [@ EXCEPT !.editing = None, !.form = 0]]
             /\ UNCHANGED <<menus, forms, losses, staff>>

(* A new form, or the one that is still there after an error.                  *)
Submit(d, c) ==
  /\ Usable(d)
  /\ \E form \in {desk[d].form, forms + 1} \cap 1 .. MaxForms :
       /\ form * Cardinality(staff) + 2 * losses <= MaxForms
       /\ forms' = IF form > forms THEN form ELSE forms
       /\ desk' = [Send(d, [op |-> IF desk[d].editing = None THEN "create" ELSE "update",
                            id |-> desk[d].editing, category |-> c])
                   EXCEPT ![d].form = form]
  /\ UNCHANGED <<menus, losses, staff>>

Drop(d, m) == /\ Usable(d)
              /\ desk' = Send(d, [op |-> "remove", id |-> m.id, category |-> m.category])
              /\ UNCHANGED <<menus, forms, losses, staff>>

(* A menu changes places with the next one of its category, whichever of the    *)
(* two arrows was pressed.                                                      *)
Swapped(order, i, j) == [order EXCEPT ![i] = order[j], ![j] = order[i]]
Move(d, c) ==
  LET order == Listed(desk[d].shown, c) IN
  /\ Usable(d)
  /\ \E i, j \in DOMAIN order :
       /\ order[j] = order[i] + 1
       /\ desk' = Send(d, [op |-> "reorder", category |-> c, order |-> Swapped(order, i, j)])
  /\ UNCHANGED <<menus, forms, losses, staff>>

-------------------------------------------------------------------------------
(* The server.  A request that names a menu that is gone is answered with 404. *)
Asked(d, op) == desk[d].at = "sent" /\ desk[d].ask.op = op
Named(d) == {m \in menus : m.id = desk[d].ask.id}
Commit(d, rows) == /\ menus' = rows
                   /\ desk' = [desk EXCEPT ![d].at = "answered", ![d].last = -1]
                   /\ UNCHANGED <<forms, losses, staff>>

ReadLast(d) ==
  /\ Asked(d, "create")
  /\ desk' = [desk EXCEPT ![d].at = "reading", ![d].last =
                Max({-1} \cup {m.place : m \in {n \in menus : n.category = desk[d].ask.category}})]
  /\ UNCHANGED <<menus, forms, losses, staff>>

(* SQLite gives the id after the greatest there is.                            *)
Create(d) ==
  /\ desk[d].at = "reading"
  /\ Commit(d, menus \cup {[id |-> Max({0} \cup {m.id : m \in menus}) + 1,
                            category |-> desk[d].ask.category, place |-> desk[d].last + 1,
                            form |-> desk[d].form]})

(* A menu keeps its place when it changes to another category.                 *)
Update(d) == /\ Asked(d, "update") /\ Named(d) # {}
             /\ Commit(d, {IF m \in Named(d) THEN [m EXCEPT !.category = desk[d].ask.category,
                                                            !.form = desk[d].form]
                           ELSE m : m \in menus})

Delete(d) == Asked(d, "remove") /\ Named(d) # {} /\ Commit(d, menus \ Named(d))

(* Mutants: positions are counted from one; the last one asked is not written.  *)
PlacedFromOne(m, order, c) ==
  IF m.category = c /\ m.id \in DOMAIN order THEN [m EXCEPT !.place = order[m.id]] ELSE m
PlacedButLast(m, order, c) ==
  IF m.category = c /\ m.id \in DOMAIN order /\ order[m.id] < Cardinality(DOMAIN order)
  THEN [m EXCEPT !.place = order[m.id] - 1] ELSE m
Placed(m, order, c) ==
  IF m.category = c /\ m.id \in DOMAIN order THEN [m EXCEPT !.place = order[m.id] - 1] ELSE m

Reorder(d) == /\ Asked(d, "reorder")
              /\ Commit(d, {Placed(m, desk[d].ask.order, desk[d].ask.category) : m \in menus})

(* Mutant: an error leaves the page busy.                                      *)
RefuseBusy(d) == /\ (Asked(d, "update") \/ Asked(d, "remove")) /\ Named(d) = {}
                 /\ desk' = [desk EXCEPT ![d].ask = NoAsk]
                 /\ UNCHANGED <<menus, forms, losses, staff>>

Refuse(d) == /\ (Asked(d, "update") \/ Asked(d, "remove")) /\ Named(d) = {}
             /\ desk' = [desk EXCEPT ![d].at = "idle"]
             /\ UNCHANGED <<menus, forms, losses, staff>>

List(d) == /\ desk[d].at = "asking"
           /\ desk' = [desk EXCEPT ![d].at = "listed", ![d].list = menus]
           /\ UNCHANGED <<menus, forms, losses, staff>>

-------------------------------------------------------------------------------
(* Answers.                                                                    *)
(* Mutants: the form is kept after success, the list is not loaded again.      *)
FormKept(d) == [desk[d] EXCEPT !.at = "asking"]
NotReloaded(d) == [desk[d] EXCEPT !.at = "idle", !.editing = None, !.form = 0]

(* resetForm after a submit, or after the menu being edited was deleted.       *)
Succeeded(d) ==
  IF \/ desk[d].ask.op \in {"create", "update"}
     \/ desk[d].ask.op = "remove" /\ desk[d].ask.id = desk[d].editing
  THEN [desk[d] EXCEPT !.at = "asking", !.editing = None, !.form = 0]
  ELSE [desk[d] EXCEPT !.at = "asking"]

Answered(d) == /\ desk[d].at = "answered" /\ desk' = [desk EXCEPT ![d] = Succeeded(d)]
               /\ UNCHANGED <<menus, forms, losses, staff>>

Load(d) == /\ desk[d].at = "listed"
           /\ desk' = [desk EXCEPT ![d] = [@ EXCEPT !.at = "idle", !.ready = TRUE,
                                                    !.shown = desk[d].list, !.list = {}]]
           /\ UNCHANGED <<menus, forms, losses, staff>>

(* A request or answer is lost: the error is shown and nothing is loaded.      *)
Lose(d) == /\ forms * Cardinality(staff) + 2 * losses < MaxForms - 1
           /\ desk[d].at \notin {"idle", "reading"}
           /\ losses' = losses + 1
           /\ desk' = [desk EXCEPT ![d] = [@ EXCEPT !.at = "idle", !.list = {}]]
           /\ UNCHANGED <<menus, forms, staff>>

(* The page is left and entered again.                                         *)
Mount(d) == /\ desk[d].at = "idle" /\ desk' = [desk EXCEPT ![d] = Mounted]
            /\ UNCHANGED <<menus, forms, losses, staff>>

Requests(d) == \/ ReadLast(d) \/ Create(d) \/ Update(d) \/ Delete(d) \/ Reorder(d)
               \/ Refuse(d) \/ List(d) \/ Answered(d) \/ Load(d)

Next == \E d \in staff :
          \/ Cancel(d) \/ Mount(d) \/ Lose(d) \/ Requests(d)
          \/ \E m \in desk[d].shown : StartEdit(d, m) \/ Drop(d, m)
          \/ \E c \in Categories : Submit(d, c) \/ Move(d, c)

(* Requests are handled and answered, users do as they please.                 *)
Spec == Init /\ [][Next]_vars /\ \A d \in Desks : WF_vars(d \in staff /\ Requests(d))

-------------------------------------------------------------------------------
(* A desk that works alone, and whose answers arrive, has the stored list before *)
(* it whenever its buttons can be pressed: load() follows every change.        *)
Alone == Cardinality(staff) = 1 /\ losses = 0
ShownIsStored == Alone => \A d \in staff : Usable(d) => desk[d].shown = menus

(* ... and a move changes the order of the category into the one the arrow      *)
(* announced, whatever equal places and gaps earlier changes had left.         *)
MovedAsAsked == Alone => \A d \in staff :
                  desk[d].at = "listed" /\ desk[d].ask.op = "reorder" =>
                    Listed(desk[d].list, desk[d].ask.category) = desk[d].ask.order

(* A form is saved to one menu only, whichever desks work at the same time, as  *)
(* long as no answer is lost.                                                  *)
SavedOnce == losses = 0 => \A m, n \in menus : m.form = n.form => m = n

(* busy ends: the buttons of a page come back.                                 *)
BusyEnds == \A d \in Desks : []<>(d \in staff => desk[d].at = "idle")

================================================================================
