---------------------------- MODULE TableOrders -----------------------------
(***************************************************************************)
(* The ordering core of the backend: table sessions, orders and the order  *)
(* history, under the threads that serve requests.                         *)
(*                                                                         *)
(* FastAPI runs the synchronous endpoints on a thread pool, every service  *)
(* call opens its own SQLAlchemy session, and the SQLite driver starts a   *)
(* transaction at the first INSERT, UPDATE or DELETE only.  A request is   *)
(* therefore a few SELECTs, each of which sees the last committed state,   *)
(* followed by one write transaction; other requests run between any two   *)
(* of these steps, and a write uses what the earlier reads returned.  That *)
(* is the grain of this module: one action per SELECT that decides         *)
(* something, one per write transaction.                                   *)
(*                                                                         *)
(* The contents of an order (items, prices, total) never change once it is *)
(* inserted, so they are abstracted to `uid', the order's place in the     *)
(* sequence of all orders ever accepted.  The row id is kept apart from    *)
(* it, because SQLite hands out the id of a deleted row again.             *)
(***************************************************************************)
EXTENDS Naturals, FiniteSets, Sequences

CONSTANTS
    Workers,        \* the server's request threads
    Tables,         \* the restaurant's tables
    Exclusive,      \* kinds of request that never overlap for one table
    MaxOrders,      \* bound: orders accepted or under way
    MaxSessions     \* bound: sessions opened or being opened

ASSUME ExclusiveAssumption == Exclusive \subseteq {"customer", "staff"}
ASSUME BoundsAssumption == MaxOrders \in Nat /\ MaxSessions \in Nat

VARIABLES
    session,    \* table_session: the row with id s is session[s]; never deleted
    orders,     \* order: the set of live rows
    history,    \* order_history: the set of rows
    job,        \* what each worker's current request holds in memory
    placed,     \* orders ever committed (the last uid)
    removed,    \* uids of the orders staff deleted: the row they read, on success
    closings    \* close transactions ever committed: they tell history rows apart

dbvars == <<session, orders, history, placed, removed, closings>>
vars == <<session, orders, history, job, placed, removed, closings>>

-----------------------------------------------------------------------------
(* The stored rows. *)

Statuses == {"waiting", "preparing", "done"}        \* 대기중, 준비중, 완료
Allowed == {<<"waiting", "preparing">>, <<"preparing", "done">>}

AnyOtherStatus(current, next) == current # next       \* mutant: only X -> X refused
IsAllowedTransition(current, next) == <<current, next>> \in Allowed

SessionRow == [table : Tables, status : {"active", "closed"}]

Order == [uid : Nat, id : Nat, number : Nat, table : Tables, session : Nat,
          status : Statuses]

HistoryRow == [uid : Nat, number : Nat, table : Tables, session : Nat,
               closing : Nat]

(* The ids of table t's active sessions, and the row .first() returns. *)
ActiveAnywhere(t) ==                                  \* mutant: the table is not compared
    {s \in DOMAIN session : t \in Tables /\ session[s].status = "active"}
Active(t) ==
    {s \in DOMAIN session : session[s].table = t /\ session[s].status = "active"}
IsFirst(s, S) == s \in S /\ \A r \in S : s <= r

WithStatus(o, s) == [o EXCEPT !.status = s]

(* A session's rows as move_session_orders loads them. *)
ServedOf(s) == {o \in orders : o.session = s /\ o.status = "done"}  \* mutant: served only
OrdersOf(s) == {o \in orders : o.session = s}

(* What a close leaves of the order table, and of the session table.  Rows *)
(* go by id, one by one; an id with no row any more is only a warning.     *)
NothingDeleted(moved) == orders \cup moved            \* mutant: the copies stay
LaterOnly(moved) ==                                   \* mutant: DELETE ... WHERE id <= ?
    {o \in orders : \A m \in moved : m.id < o.id}
Unmoved(moved) == {o \in orders : \A m \in moved : m.id # o.id}

MarkedDone(s) == [session EXCEPT ![s].status = "done"]     \* mutant: an order's status
StillActive(s) == [session EXCEPT ![s].status = "active"]  \* mutant: status not set
Closed(s) == [session EXCEPT ![s].status = "closed"]

(* SQLite's next INTEGER PRIMARY KEY: one more than the largest id in the  *)
(* table now, not the largest it ever held.                                *)
IsLastId(i) ==                                        \* mutant: off by one
    /\ \A o \in orders : o.id <= i
    /\ i = 1 \/ \E o \in orders : o.id = i
IsNextId(i) ==
    /\ \A o \in orders : o.id < i
    /\ i = 1 \/ \E o \in orders : o.id = i - 1

(* The day's largest order number among the rows of the order table.  The  *)
(* model is one business day; numbers are the day's sequence, below 1000.  *)
IsLastNumber(n) ==
    /\ n = 0 \/ \E o \in orders : o.number = n
    /\ \A o \in orders : o.number <= n

NeverTaken(n) == n \notin Nat                         \* mutant: no UNIQUE index
NumberTaken(n) == \E o \in orders : o.number = n

-----------------------------------------------------------------------------
(* What a request holds between its steps.                                 *)

Idle == [at |-> "idle"]

OpeningJob   == [at : {"opening"}, table : Tables]
NumberingJob == [at : {"numbering"}, table : Tables, session : Nat]
InsertingJob == [at : {"inserting"}, table : Tables, session : Nat, number : Nat]
LoadingJob   == [at : {"loading"}, table : Tables, session : Nat]
MigratingJob == [at : {"migrating"}, table : Tables, session : Nat,
                 moved : SUBSET Order]
UpdatingJob  == [at : {"updating"}, table : Tables, order : Order, next : Statuses]
DeletingJob  == [at : {"deleting"}, table : Tables, order : Order]

CustomerJob == OpeningJob \cup NumberingJob \cup InsertingJob
StaffJob    == LoadingJob \cup MigratingJob \cup UpdatingJob \cup DeletingJob
Job         == {Idle} \cup CustomerJob \cup StaffJob

Kind(j) ==
    IF j.at \in {"opening", "numbering", "inserting"} THEN "customer" ELSE "staff"

(* A worker takes a request of kind k for table t.  The code excludes      *)
(* nothing; a run whose Exclusive is not empty restricts who sends what:   *)
(* "customer" is one tablet per table that waits for its answer, "staff"   *)
(* one member of staff at a time per table.                                *)
Admit(w, t, k) ==
    /\ job[w] = Idle
    /\ k \in Exclusive =>
         \A v \in Workers : job[v] # Idle =>
            ~(job[v].table = t /\ Kind(job[v]) \in Exclusive)

(* The bounds of the model: orders and sessions that exist or are under way. *)
RoomForOrder ==
    placed + Cardinality({w \in Workers : job[w] # Idle /\ Kind(job[w]) = "customer"})
        < MaxOrders
RoomForSession ==
    Len(session) + Cardinality({w \in Workers : job[w].at = "opening"}) < MaxSessions

Continue(w, j) == job' = [job EXCEPT ![w] = j]
Finish(w) == job' = [job EXCEPT ![w] = Idle]

-----------------------------------------------------------------------------
(* create_order: POST /api/orders                                          *)

(* get_or_start_active_session looks for the table's active session. *)
FindSession(w, t) ==
    /\ Admit(w, t, "customer")
    /\ RoomForOrder
    /\ \E s \in Active(t) :
         /\ IsFirst(s, Active(t))
         /\ Continue(w, [at |-> "numbering", table |-> t, session |-> s])
    /\ UNCHANGED dbvars

StartSession(w, t) ==                                 \* mutant: does not look first
    /\ Admit(w, t, "customer")
    /\ RoomForOrder
    /\ RoomForSession
    /\ Continue(w, [at |-> "opening", table |-> t])
    /\ UNCHANGED dbvars

FindNoSession(w, t) ==
    /\ Admit(w, t, "customer")
    /\ RoomForOrder
    /\ RoomForSession
    /\ Active(t) = {}
    /\ Continue(w, [at |-> "opening", table |-> t])
    /\ UNCHANGED dbvars

(* ... and inserts one when the SELECT found none; its own transaction. *)
OpenSession(w) ==
    /\ job[w].at = "opening"
    /\ session' = Append(session, [table |-> job[w].table, status |-> "active"])
    /\ Continue(w, [at |-> "numbering", table |-> job[w].table,
                    session |-> Len(session) + 1])
    /\ UNCHANGED <<orders, history, placed, removed, closings>>

(* A menu of the cart does not exist any more: 404.  The session opened    *)
(* for the request stays open.                                             *)
RejectUnknownMenu(w) ==
    /\ job[w].at = "numbering"
    /\ Finish(w)
    /\ UNCHANGED dbvars

ReadNumber(w) ==
    /\ job[w].at = "numbering"
    /\ \E n \in {0} \cup {o.number : o \in orders} :
         /\ IsLastNumber(n)
         /\ Continue(w, [at |-> "inserting", table |-> job[w].table,
                         session |-> job[w].session, number |-> n + 1])
    /\ UNCHANGED dbvars

InsertOrder(w) ==
    /\ job[w].at = "inserting"
    /\ ~NumberTaken(job[w].number)
    /\ \E i \in 1 .. placed + 1 :
         /\ IsNextId(i)
         /\ orders' = orders \cup
              {[uid |-> placed + 1, id |-> i, number |-> job[w].number,
                table |-> job[w].table, session |-> job[w].session,
                status |-> "waiting"]}
    /\ placed' = placed + 1
    /\ Finish(w)
    /\ UNCHANGED <<session, history, removed, closings>>

(* The UNIQUE constraint is checked by the flush inside repo.create, which *)
(* is outside the `try' that would take a new number: the request fails.   *)
NumberCollision(w) ==
    /\ job[w].at = "inserting"
    /\ NumberTaken(job[w].number)
    /\ Finish(w)
    /\ UNCHANGED dbvars

-----------------------------------------------------------------------------
(* close_table: POST /api/admin/tables/{id}/close                          *)

(* No active session: CONFLICT. *)
CloseConflicts(w, t) ==
    /\ Admit(w, t, "staff")
    /\ Active(t) = {}
    /\ UNCHANGED vars

FindSessionToClose(w, t) ==
    /\ Admit(w, t, "staff")
    /\ \E s \in Active(t) :
         /\ IsFirst(s, Active(t))
         /\ Continue(w, [at |-> "loading", table |-> t, session |-> s])
    /\ UNCHANGED dbvars

LoadOrders(w) ==
    /\ job[w].at = "loading"
    /\ Continue(w, [at |-> "migrating", table |-> job[w].table,
                    session |-> job[w].session, moved |-> OrdersOf(job[w].session)])
    /\ UNCHANGED dbvars

(* One transaction: a history row for every order loaded, the loaded rows  *)
(* deleted, the session closed.                                            *)
CommitClose(w) ==
    /\ job[w].at = "migrating"
    /\ history' = history \cup
         {[uid |-> o.uid, number |-> o.number, table |-> o.table,
           session |-> job[w].session, closing |-> closings + 1] : o \in job[w].moved}
    /\ orders' = Unmoved(job[w].moved)
    /\ session' = Closed(job[w].session)
    /\ closings' = closings + 1
    /\ Finish(w)
    /\ UNCHANGED <<placed, removed>>

-----------------------------------------------------------------------------
(* change_status and delete_order: PATCH and DELETE /api/admin/orders/{id} *)

(* The row is read and the move validated; 404, 409 and 422 change nothing. *)
ReadForStatus(w, o, next) ==
    /\ Admit(w, o.table, "staff")
    /\ IsAllowedTransition(o.status, next)
    /\ Continue(w, [at |-> "updating", table |-> o.table, order |-> o, next |-> next])
    /\ UNCHANGED dbvars

(* UPDATE ... WHERE id = ?, whatever row has the id by now. *)
UpdateStatus(w) ==
    /\ job[w].at = "updating"
    /\ \E o \in orders : o.id = job[w].order.id
    /\ orders' = {IF o.id = job[w].order.id THEN WithStatus(o, job[w].next) ELSE o :
                    o \in orders}
    /\ Finish(w)
    /\ UNCHANGED <<session, history, placed, removed, closings>>

(* The UPDATE matched no row: StaleDataError, rolled back. *)
UpdateMissesRow(w) ==
    /\ job[w].at = "updating"
    /\ ~\E o \in orders : o.id = job[w].order.id
    /\ Finish(w)
    /\ UNCHANGED dbvars

ReadForDelete(w, o) ==
    /\ Admit(w, o.table, "staff")
    /\ Continue(w, [at |-> "deleting", table |-> o.table, order |-> o])
    /\ UNCHANGED dbvars

(* DELETE ... WHERE id = ?; succeeds, with a warning, if the row is gone. *)
DeleteOrder(w) ==
    /\ job[w].at = "deleting"
    /\ orders' = {o \in orders : o.id # job[w].order.id}
    /\ removed' = removed \cup {job[w].order.uid}
    /\ Finish(w)
    /\ UNCHANGED <<session, history, placed, closings>>

-----------------------------------------------------------------------------
(* Failures.                                                               *)

(* "database is locked" or any other error of the write transaction: it is *)
(* rolled back and the request answered with 500.                          *)
WriteFails(w) ==
    /\ job[w].at \in {"opening", "inserting", "migrating", "updating", "deleting"}
    /\ Finish(w)
    /\ UNCHANGED dbvars

(* The process dies and comes back: requests are lost, commits are kept. *)
Restart ==
    /\ \E w \in Workers : job[w] # Idle
    /\ job' = [w \in Workers |-> Idle]
    /\ UNCHANGED dbvars

Init ==
    /\ session = <<>>
    /\ orders = {}
    /\ history = {}
    /\ job = [w \in Workers |-> Idle]
    /\ placed = 0
    /\ removed = {}
    /\ closings = 0

Customer(w) ==
    \/ \E t \in Tables : FindSession(w, t) \/ FindNoSession(w, t)
    \/ OpenSession(w)
    \/ RejectUnknownMenu(w)
    \/ ReadNumber(w)
    \/ InsertOrder(w)
    \/ NumberCollision(w)

Staff(w) ==
    \/ \E t \in Tables : CloseConflicts(w, t) \/ FindSessionToClose(w, t)
    \/ LoadOrders(w)
    \/ CommitClose(w)
    \/ \E o \in orders :
         ReadForDelete(w, o) \/ \E next \in Statuses : ReadForStatus(w, o, next)
    \/ UpdateStatus(w)
    \/ UpdateMissesRow(w)
    \/ DeleteOrder(w)

Next == (\E w \in Workers : Customer(w) \/ Staff(w) \/ WriteFails(w)) \/ Restart

Spec == Init /\ [][Next]_vars

-----------------------------------------------------------------------------
(* Properties that hold however requests overlap.                          *)

(* The variables have their types: what is stored and what requests hold. *)
TypeOK ==
    /\ session \in Seq(SessionRow)
    /\ orders \subseteq Order
    /\ history \subseteq HistoryRow
    /\ job \in [Workers -> Job]
    /\ placed \in Nat
    /\ removed \subseteq Nat
    /\ closings \in Nat

(* Two live orders differ in row id, in order number and in identity, even *)
(* though ids and numbers of deleted rows are handed out again by requests *)
(* that read the old maximum before others wrote (Order.id, order_number). *)
KeysUnique ==
    \A o, p \in orders :
        o.id = p.id \/ o.number = p.number \/ o.uid = p.uid => o = p

(* An order and its history row belong to the table its session belongs to *)
(* although create_order carries the session id over several transactions  *)
(* and close_table copies table_id from the order, session_id from the     *)
(* session (order.py, order_history.py).                                   *)
RowsFollowSession ==
    \A r \in orders \cup history :
        r.session \in DOMAIN session /\ session[r.session].table = r.table

(* History holds only orders of closed sessions: the migration and the     *)
(* closing of the session commit together, and nothing reopens a session   *)
(* (close_table's single transaction).                                     *)
ArchiveImpliesClosed ==
    \A h \in history :
        h.session \in DOMAIN session => session[h.session].status = "closed"

-----------------------------------------------------------------------------
(* A property that needs customers' requests for a table not to overlap.   *)

(* "At most one status='active' per table" (models/table_session.py).      *)
AtMostOneActive ==
    \A s, r \in DOMAIN session :
        /\ session[s].table = session[r].table
        /\ session[s].status = "active"
        /\ session[r].status = "active"
        => s = r

-----------------------------------------------------------------------------
(* Properties that need staff's requests for a table not to overlap.       *)

Live(u) == \E o \in orders : o.uid = u
Archived(u) == \E h \in history : h.uid = u

(* No order vanishes: it is live, archived or was deleted by staff, even   *)
(* when its id is one that another order had before (move_session_orders   *)
(* and delete_order delete by id).                                         *)
NothingLost ==
    \A u \in 1 .. placed : Live(u) \/ Archived(u) \/ u \in removed

(* An order has one fate: an archived order is archived once, and is       *)
(* neither still live nor one that staff deleted (close_table,             *)
(* delete_order).                                                          *)
ArchivedOnce == \A h, g \in history : h.uid = g.uid => h = g
DeletedNotArchived == \A u \in removed : ~Archived(u)
NotLiveAnyMore == \A u \in removed \cup {h.uid : h \in history} : ~Live(u)
OneFate == ArchivedOnce /\ DeletedNotArchived /\ NotLiveAnyMore

(* Whatever requests interleave, the status of an order moves along        *)
(* Allowed: no step back from done, none skipped (change_status).          *)
StatusForward ==
    [][\A o \in orders, p \in orders' :
          o.uid = p.uid /\ o.status # p.status => <<o.status, p.status>> \in Allowed]_vars

-----------------------------------------------------------------------------
(* What overlapping requests may do, and no more.                           *)

(* A request commits on what it has read and others have changed since:    *)
(* the session of its order was closed, the session it closes has other    *)
(* orders by now or is not the table's only active one any more, the order *)
(* it advances is not as it was.  Only the UNIQUE index looks again.       *)
LateOrder(w) == InsertOrder(w) /\ session[job[w].session].status = "closed"
MissedOrders(w) == CommitClose(w) /\ job[w].moved # OrdersOf(job[w].session)
StaleCommit(w) ==
    \/ LateOrder(w)
    \/ MissedOrders(w)
    \/ CommitClose(w) /\ Active(job[w].table) # {job[w].session}
    \/ UpdateStatus(w) /\ job[w].order \notin orders

(* Orders that live in a closed session: left behind by a close or added   *)
(* after it, they are in no list of the dashboard and in no history.       *)
Leftover ==
    {o.uid : o \in {p \in orders : session[p.session].status = "closed"}}

(* Whatever requests overlap, an order comes to live in a closed session   *)
(* only by an order that is late for the close of its own session, or by a *)
(* close whose list of orders is (close_table: the table's total is 0      *)
(* after a close, whatever was being ordered); nothing else that changes   *)
(* sessions or orders, a second close of the session included, does it.    *)
LeftoverOnlyIfLate ==
    [][\/ Leftover' \subseteq Leftover
       \/ \E w \in Workers : LateOrder(w) \/ MissedOrders(w)]_vars

Occupied == {t \in Tables : Active(t) # {}}
Bill ==
    {[uid |-> o.uid, table |-> o.table, status |-> o.status] :
        o \in {p \in orders : session[p.session].status = "active"}}
Archive == {[uid |-> h.uid, table |-> h.table] : h \in history}

Service == INSTANCE TableService WITH
    occupied <- Occupied, bill <- Bill, archive <- Archive, placed <- placed

(* Whatever requests overlap, a step of the server is one atomic operation  *)
(* of TableService, or nothing the floor can see, or a stale commit: what  *)
(* the dashboard lists (orders of active sessions) is the bill, an order   *)
(* is placed, advanced or struck out by the one write of its request, and  *)
(* closing a table archives exactly its bill.  A second active session of  *)
(* a table, a reused id, failures and restarts alone do no harm.           *)
AtomicUnlessStale ==
    [][\/ [Service!SNext]_(Service!svars)
       \/ \E w \in Workers : StaleCommit(w)]_vars

-----------------------------------------------------------------------------
(* A property that needs requests for a table not to overlap.              *)

(* The statements of the requests add up to the atomic operations of       *)
(* TableService: no commit is stale.                                       *)
RefinesService == Service!SSpec
=============================================================================
