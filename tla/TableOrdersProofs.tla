------------------------- MODULE TableOrdersProofs --------------------------
(***************************************************************************)
(* Proofs about TableOrders, for any set of workers and tables, in four    *)
(* parts; all but the first rest on the first:                             *)
(*   1. keys, tables and the archive, however requests overlap;            *)
(*   2. TableOrders and TableService, however requests overlap;            *)
(*   3. customers' requests for a table do not overlap;                    *)
(*   4. staff's requests for a table do not overlap.                       *)
(***************************************************************************)
EXTENDS TableOrders, TLAPS

-----------------------------------------------------------------------------
(***************************************************************************)
(* Part 1.  What holds however requests overlap.                           *)
(***************************************************************************)

(* A job's program counter determines which record it is. *)
LEMMA JobShape ==
    ASSUME NEW j \in Job
    PROVE  /\ j.at = "idle" => j = Idle
           /\ j.at = "opening" => j \in OpeningJob
           /\ j.at = "numbering" => j \in NumberingJob
           /\ j.at = "inserting" => j \in InsertingJob
           /\ j.at = "loading" => j \in LoadingJob
           /\ j.at = "migrating" => j \in MigratingJob
           /\ j.at = "updating" => j \in UpdatingJob
           /\ j.at = "deleting" => j \in DeletingJob
           /\ j # Idle => j.table \in Tables /\ j.at # "idle"
    BY DEF Job, CustomerJob, StaffJob, Idle, OpeningJob, NumberingJob,
           InsertingJob, LoadingJob, MigratingJob, UpdatingJob, DeletingJob

LEMMA JobKind ==
    ASSUME NEW j \in Job, j # Idle
    PROVE  /\ Kind(j) = "customer" <=> j.at \in {"opening", "numbering", "inserting"}
           /\ Kind(j) = "staff" <=> j.at \in {"loading", "migrating", "updating", "deleting"}
    BY DEF Job, CustomerJob, StaffJob, Idle, OpeningJob, NumberingJob, Kind,
           InsertingJob, LoadingJob, MigratingJob, UpdatingJob, DeletingJob

(* Setting the status of an order leaves its other columns alone. *)
LEMMA WithStatusFields ==
    ASSUME NEW o \in Order, NEW s \in Statuses
    PROVE  /\ WithStatus(o, s) \in Order
           /\ WithStatus(o, s).status = s
           /\ WithStatus(o, s).uid = o.uid
           /\ WithStatus(o, s).id = o.id
           /\ WithStatus(o, s).number = o.number
           /\ WithStatus(o, s).table = o.table
           /\ WithStatus(o, s).session = o.session
    BY DEF WithStatus, Order

(* Closing a session changes the status of its row and nothing else. *)
LEMMA ClosedRows ==
    ASSUME session \in Seq(SessionRow), NEW s \in Nat
    PROVE  /\ Closed(s) \in Seq(SessionRow)
           /\ DOMAIN Closed(s) = DOMAIN session
           /\ Len(Closed(s)) = Len(session)
           /\ \A r \in DOMAIN session :
                /\ Closed(s)[r].table = session[r].table
                /\ Closed(s)[r].status = IF r = s THEN "closed" ELSE session[r].status
<1>1. \A r \in DOMAIN session : session[r] \in SessionRow
  OBVIOUS
<1>2. \A row \in SessionRow :
        /\ [row EXCEPT !.status = "closed"] \in SessionRow
        /\ [row EXCEPT !.status = "closed"].table = row.table
        /\ [row EXCEPT !.status = "closed"].status = "closed"
  BY DEF SessionRow
<1>3. Closed(s) = [r \in DOMAIN session |->
                     IF r = s THEN [session[r] EXCEPT !.status = "closed"] ELSE session[r]]
  BY Zenon DEF Closed
<1>4. \A r \in DOMAIN session : Closed(s)[r] \in SessionRow
  BY <1>1, <1>2, <1>3
<1>5. Closed(s) \in [1 .. Len(session) -> SessionRow]
  BY <1>3, <1>4
<1> QED
  BY <1>1, <1>2, <1>3, <1>5

THEOREM TypeCorrect == Spec => []TypeOK
<1>1. Init => TypeOK
  BY DEF Init, TypeOK, Job
<1>2. TypeOK /\ [Next]_vars => TypeOK'
  <2> SUFFICES ASSUME TypeOK, [Next]_vars PROVE TypeOK'
    OBVIOUS
  <2> USE DEF TypeOK
  <2>1. ASSUME NEW w \in Workers, NEW j \in Job, Continue(w, j)
        PROVE  job' \in [Workers -> Job]
    BY <2>1 DEF Continue
  <2>2. ASSUME NEW w \in Workers, Finish(w)
        PROVE  job' \in [Workers -> Job]
    BY <2>2 DEF Finish, Job
  <2>3. ASSUME NEW w \in Workers, NEW t \in Tables, FindSession(w, t)
        PROVE  TypeOK'
    <3>1. PICK s \in Active(t) :
            Continue(w, [at |-> "numbering", table |-> t, session |-> s])
      BY <2>3 DEF FindSession
    <3>2. [at |-> "numbering", table |-> t, session |-> s] \in Job
      BY DEF Job, CustomerJob, NumberingJob, Active
    <3> QED
      BY <2>1, <2>3, <3>1, <3>2 DEF FindSession, dbvars
  <2>4. ASSUME NEW w \in Workers, NEW t \in Tables, FindNoSession(w, t)
        PROVE  TypeOK'
    <3>1. [at |-> "opening", table |-> t] \in Job
      BY DEF Job, CustomerJob, OpeningJob
    <3> QED
      BY <2>1, <2>4, <3>1 DEF FindNoSession, dbvars
  <2>5. ASSUME NEW w \in Workers, OpenSession(w)
        PROVE  TypeOK'
    <3>1. job[w] \in OpeningJob
      BY <2>5, JobShape DEF OpenSession
    <3>2. [at |-> "numbering", table |-> job[w].table,
           session |-> Len(session) + 1] \in Job
      BY <3>1 DEF Job, CustomerJob, OpeningJob, NumberingJob
    <3>3. session' \in Seq(SessionRow)
      BY <2>5, <3>1 DEF OpenSession, OpeningJob, SessionRow
    <3> QED
      BY <2>1, <2>5, <3>2, <3>3 DEF OpenSession
  <2>6. ASSUME NEW w \in Workers, ReadNumber(w)
        PROVE  TypeOK'
    <3>1. job[w] \in NumberingJob
      BY <2>6, JobShape DEF ReadNumber
    <3>2. PICK n \in {0} \cup {o.number : o \in orders} :
            Continue(w, [at |-> "inserting", table |-> job[w].table,
                         session |-> job[w].session, number |-> n + 1])
      BY <2>6 DEF ReadNumber
    <3>3. n \in Nat
      BY DEF Order
    <3>4. [at |-> "inserting", table |-> job[w].table,
           session |-> job[w].session, number |-> n + 1] \in Job
      BY <3>1, <3>3 DEF Job, CustomerJob, NumberingJob, InsertingJob
    <3> QED
      BY <2>1, <2>6, <3>2, <3>4 DEF ReadNumber, dbvars
  <2>7. ASSUME NEW w \in Workers, InsertOrder(w)
        PROVE  TypeOK'
    <3>1. job[w] \in InsertingJob
      BY <2>7, JobShape DEF InsertOrder
    <3>2. orders' \subseteq Order
      BY <2>7, <3>1 DEF InsertOrder, InsertingJob, Order, Statuses
    <3> QED
      BY <2>2, <2>7, <3>2 DEF InsertOrder
  <2>8. ASSUME NEW w \in Workers, NEW t \in Tables, FindSessionToClose(w, t)
        PROVE  TypeOK'
    <3>1. PICK s \in Active(t) :
            Continue(w, [at |-> "loading", table |-> t, session |-> s])
      BY <2>8 DEF FindSessionToClose
    <3>2. [at |-> "loading", table |-> t, session |-> s] \in Job
      BY DEF Job, StaffJob, LoadingJob, Active
    <3> QED
      BY <2>1, <2>8, <3>1, <3>2 DEF FindSessionToClose, dbvars
  <2>9. ASSUME NEW w \in Workers, LoadOrders(w)
        PROVE  TypeOK'
    <3>1. job[w] \in LoadingJob
      BY <2>9, JobShape DEF LoadOrders
    <3>2. [at |-> "migrating", table |-> job[w].table, session |-> job[w].session,
           moved |-> OrdersOf(job[w].session)] \in Job
      BY <3>1 DEF Job, StaffJob, LoadingJob, MigratingJob, OrdersOf
    <3> QED
      BY <2>1, <2>9, <3>2 DEF LoadOrders, dbvars
  <2>10. ASSUME NEW w \in Workers, CommitClose(w)
         PROVE  TypeOK'
    <3>1. job[w] \in MigratingJob
      BY <2>10, JobShape DEF CommitClose
    <3>2. history' \subseteq HistoryRow
      BY <2>10, <3>1 DEF CommitClose, MigratingJob, Order, HistoryRow
    <3>3. session' \in Seq(SessionRow)
      BY <2>10, <3>1, ClosedRows DEF CommitClose, MigratingJob
    <3>4. orders' \subseteq Order
      BY <2>10 DEF CommitClose, Unmoved
    <3> QED
      BY <2>2, <2>10, <3>2, <3>3, <3>4 DEF CommitClose
  <2>11. ASSUME NEW w \in Workers, NEW o \in orders, NEW next \in Statuses,
                ReadForStatus(w, o, next)
         PROVE  TypeOK'
    <3>1. [at |-> "updating", table |-> o.table, order |-> o, next |-> next] \in Job
      BY DEF Job, StaffJob, UpdatingJob, Order
    <3> QED
      BY <2>1, <2>11, <3>1 DEF ReadForStatus, dbvars
  <2>12. ASSUME NEW w \in Workers, UpdateStatus(w)
         PROVE  TypeOK'
    <3>1. job[w] \in UpdatingJob
      BY <2>12, JobShape DEF UpdateStatus
    <3>2. orders' \subseteq Order
      BY <2>12, <3>1, WithStatusFields DEF UpdateStatus, UpdatingJob
    <3> QED
      BY <2>2, <2>12, <3>2 DEF UpdateStatus
  <2>13. ASSUME NEW w \in Workers, NEW o \in orders, ReadForDelete(w, o)
         PROVE  TypeOK'
    <3>1. [at |-> "deleting", table |-> o.table, order |-> o] \in Job
      BY DEF Job, StaffJob, DeletingJob, Order
    <3> QED
      BY <2>1, <2>13, <3>1 DEF ReadForDelete, dbvars
  <2>14. ASSUME NEW w \in Workers, DeleteOrder(w)
         PROVE  TypeOK'
    <3>1. job[w] \in DeletingJob
      BY <2>14, JobShape DEF DeleteOrder
    <3>2. removed' \subseteq Nat
      BY <2>14, <3>1 DEF DeleteOrder, DeletingJob, Order
    <3> QED
      BY <2>2, <2>14, <3>2 DEF DeleteOrder
  <2>15. ASSUME NEW w \in Workers,
                \/ RejectUnknownMenu(w) \/ NumberCollision(w)
                \/ UpdateMissesRow(w) \/ WriteFails(w)
         PROVE  TypeOK'
    BY <2>2, <2>15 DEF RejectUnknownMenu, NumberCollision, UpdateMissesRow,
                       WriteFails, dbvars
  <2>16. CASE Restart
    BY <2>16 DEF Restart, dbvars, Job
  <2>17. CASE UNCHANGED vars
    BY <2>17 DEF vars
  <2>18. QED
    BY <2>3, <2>4, <2>5, <2>6, <2>7, <2>8, <2>9, <2>10, <2>11, <2>12, <2>13,
       <2>14, <2>15, <2>16, <2>17 DEF Next, Customer, Staff, CloseConflicts
<1>3. QED
  BY <1>1, <1>2, PTL DEF Spec

-----------------------------------------------------------------------------
(* Keys and table columns, however requests overlap.                       *)

(* Uids are handed out in order, and no row has id 0. *)
UidsBounded ==
    /\ \A o \in orders : o.uid <= placed
    /\ \A h \in history : h.uid <= placed

(* The session id a request carries is a row of its table, the orders a    *)
(* close has loaded are of its session, and a row a request has read is of *)
(* its table and may become what is asked for.                             *)
JobFollowsSession(j) ==
    /\ j.at \in {"numbering", "inserting", "loading", "migrating"} =>
         j.session \in DOMAIN session /\ session[j.session].table = j.table
    /\ j.at = "migrating" =>
         \A m \in j.moved :
            m.session = j.session /\ m.table = j.table /\ m.uid <= placed
    /\ j.at \in {"updating", "deleting"} =>
         j.order.table = j.table /\ j.order.uid <= placed
    /\ j.at = "updating" => <<j.order.status, j.next>> \in Allowed
JobsFollowSession == \A w \in Workers : JobFollowsSession(job[w])

DataInv ==
    /\ KeysUnique
    /\ RowsFollowSession
    /\ ArchiveImpliesClosed
    /\ UidsBounded
    /\ JobsFollowSession

(* A step that only gives worker w a new job, one that is consistent with  *)
(* the stored sessions, preserves the invariant.                           *)
LEMMA DataContinue ==
    ASSUME TypeOK, DataInv, UNCHANGED dbvars, NEW w \in Workers, NEW j,
           Continue(w, j), JobFollowsSession(j)
    PROVE  DataInv'
<1>1. (KeysUnique /\ RowsFollowSession /\ ArchiveImpliesClosed /\ UidsBounded)'
  BY DEF DataInv, dbvars, KeysUnique, RowsFollowSession, ArchiveImpliesClosed,
         UidsBounded
<1>2. \A v \in Workers : job'[v] = IF v = w THEN j ELSE job[v]
  BY DEF TypeOK, Continue
<1>3. JobsFollowSession'
  BY <1>2 DEF DataInv, JobsFollowSession, JobFollowsSession, dbvars
<1> QED
  BY <1>1, <1>3 DEF DataInv

(* So does a request that ends without having written. *)
LEMMA DataFinish ==
    ASSUME TypeOK, DataInv, UNCHANGED dbvars, NEW w \in Workers, Finish(w)
    PROVE  DataInv'
<1>1. JobFollowsSession(Idle)
  BY DEF JobFollowsSession, Idle
<1> QED
  BY <1>1, DataContinue DEF Finish, Continue

LEMMA DataInvStep == TypeOK /\ DataInv /\ [Next]_vars => DataInv'
<1> SUFFICES ASSUME TypeOK, DataInv, [Next]_vars PROVE DataInv'
  OBVIOUS
<1>1. ASSUME NEW w \in Workers, NEW t \in Tables, FindSession(w, t)
      PROVE  DataInv'
  <2>1. PICK s \in Active(t) :
          Continue(w, [at |-> "numbering", table |-> t, session |-> s])
    BY <1>1 DEF FindSession
  <2>2. JobFollowsSession([at |-> "numbering", table |-> t, session |-> s])
    BY DEF JobFollowsSession, Active
  <2> QED
    BY <1>1, <2>1, <2>2, DataContinue DEF FindSession
<1>2. ASSUME NEW w \in Workers, NEW t \in Tables, FindNoSession(w, t)
      PROVE  DataInv'
  <2>1. JobFollowsSession([at |-> "opening", table |-> t])
    BY DEF JobFollowsSession
  <2> QED
    BY <1>2, <2>1, DataContinue DEF FindNoSession
<1>3. ASSUME NEW w \in Workers, OpenSession(w)
      PROVE  DataInv'
  <2>1. job[w] \in OpeningJob
    BY <1>3, JobShape DEF OpenSession, TypeOK
  <2>2. /\ Len(session') = Len(session) + 1
        /\ DOMAIN session = 1 .. Len(session)
        /\ DOMAIN session' = 1 .. Len(session) + 1
        /\ \A s \in DOMAIN session : session'[s] = session[s]
        /\ session'[Len(session) + 1].table = job[w].table
        /\ session'[Len(session) + 1].status = "active"
    BY <1>3, <2>1 DEF OpenSession, OpeningJob, TypeOK
  <2>3. DOMAIN session \subseteq DOMAIN session'
    BY <2>2 DEF TypeOK
  <2>4. \A h \in history : h.session \in DOMAIN session
    BY DEF DataInv, RowsFollowSession
  <2>5. (KeysUnique /\ RowsFollowSession /\ UidsBounded)'
    BY <1>3, <2>2, <2>3 DEF DataInv, OpenSession, KeysUnique, RowsFollowSession,
                            UidsBounded
  <2>6. ArchiveImpliesClosed'
    BY <1>3, <2>2, <2>4 DEF DataInv, OpenSession, ArchiveImpliesClosed
  <2>7. ASSUME NEW v \in Workers PROVE JobFollowsSession(job[v])'
    <3>1. CASE v = w
      <4>1. job'[v] = [at |-> "numbering", table |-> job[w].table,
                       session |-> Len(session) + 1]
        BY <1>3, <3>1 DEF OpenSession, Continue, TypeOK
      <4> QED
        BY <2>2, <4>1 DEF JobFollowsSession, TypeOK
    <3>2. CASE v # w
      <4>1. job'[v] = job[v]
        BY <1>3, <3>2 DEF OpenSession, Continue, TypeOK
      <4> QED
        BY <1>3, <2>2, <2>3, <4>1 DEF DataInv, JobsFollowSession, JobFollowsSession,
                                      OpenSession
    <3> QED
      BY <3>1, <3>2
  <2> QED
    BY <2>5, <2>6, <2>7 DEF DataInv, JobsFollowSession
<1>4. ASSUME NEW w \in Workers, ReadNumber(w)
      PROVE  DataInv'
  <2>1. PICK n \in {0} \cup {o.number : o \in orders} :
          Continue(w, [at |-> "inserting", table |-> job[w].table,
                       session |-> job[w].session, number |-> n + 1])
    BY <1>4 DEF ReadNumber
  <2>2. JobFollowsSession([at |-> "inserting", table |-> job[w].table,
                           session |-> job[w].session, number |-> n + 1])
    BY <1>4 DEF ReadNumber, DataInv, JobsFollowSession, JobFollowsSession
  <2> QED
    BY <1>4, <2>1, <2>2, DataContinue DEF ReadNumber
<1>5. ASSUME NEW w \in Workers, InsertOrder(w)
      PROVE  DataInv'
  <2>1. job[w] \in InsertingJob
    BY <1>5, JobShape DEF InsertOrder, TypeOK
  <2>2. PICK i \in 1 .. placed + 1 :
          /\ IsNextId(i)
          /\ orders' = orders \cup
               {[uid |-> placed + 1, id |-> i, number |-> job[w].number,
                 table |-> job[w].table, session |-> job[w].session,
                 status |-> "waiting"]}
    BY <1>5 DEF InsertOrder
  <2> DEFINE new == [uid |-> placed + 1, id |-> i, number |-> job[w].number,
                     table |-> job[w].table, session |-> job[w].session,
                     status |-> "waiting"]
  <2>3. \A o \in orders : o.id # new.id /\ o.number # new.number /\ o.uid # new.uid
    BY <1>5, <2>2 DEF InsertOrder, IsNextId, NumberTaken, DataInv, UidsBounded,
                      TypeOK, Order
  <2>4. KeysUnique'
    BY <2>2, <2>3 DEF DataInv, KeysUnique
  <2>5. new.session \in DOMAIN session /\ session[new.session].table = new.table
    BY <1>5 DEF InsertOrder, DataInv, JobsFollowSession, JobFollowsSession
  <2>6. (RowsFollowSession /\ ArchiveImpliesClosed)'
    BY <1>5, <2>2, <2>5 DEF InsertOrder, DataInv, RowsFollowSession, ArchiveImpliesClosed
  <2>7. UidsBounded'
    BY <1>5, <2>2 DEF InsertOrder, DataInv, UidsBounded, TypeOK, Order, HistoryRow
  <2>8. ASSUME NEW v \in Workers PROVE JobFollowsSession(job[v])'
    <3>1. job'[v] = IF v = w THEN Idle ELSE job[v]
      BY <1>5 DEF InsertOrder, Finish, TypeOK
    <3>2. CASE v = w
      BY <3>1, <3>2 DEF JobFollowsSession, Idle
    <3>3. CASE v # w
      <4>1. job[v].at = "migrating" => job[v] \in MigratingJob
        BY JobShape DEF TypeOK
      <4>2. job[v].at = "updating" => job[v] \in UpdatingJob
        BY JobShape DEF TypeOK
      <4>3. job[v].at = "deleting" => job[v] \in DeletingJob
        BY JobShape DEF TypeOK
      <4> QED
        BY <1>5, <3>1, <3>3, <4>1, <4>2, <4>3
           DEF InsertOrder, DataInv, JobsFollowSession, JobFollowsSession, TypeOK,
               MigratingJob, UpdatingJob, DeletingJob, Order
    <3> QED
      BY <3>2, <3>3
  <2> QED
    BY <2>4, <2>6, <2>7, <2>8 DEF DataInv, JobsFollowSession
<1>6. ASSUME NEW w \in Workers, NEW t \in Tables, FindSessionToClose(w, t)
      PROVE  DataInv'
  <2>1. PICK s \in Active(t) :
          Continue(w, [at |-> "loading", table |-> t, session |-> s])
    BY <1>6 DEF FindSessionToClose
  <2>2. JobFollowsSession([at |-> "loading", table |-> t, session |-> s])
    BY DEF JobFollowsSession, Active
  <2> QED
    BY <1>6, <2>1, <2>2, DataContinue DEF FindSessionToClose
<1>7. ASSUME NEW w \in Workers, LoadOrders(w)
      PROVE  DataInv'
  <2> DEFINE j == [at |-> "migrating", table |-> job[w].table,
                   session |-> job[w].session, moved |-> OrdersOf(job[w].session)]
  <2>1. job[w].session \in DOMAIN session /\ session[job[w].session].table = job[w].table
    BY <1>7 DEF LoadOrders, DataInv, JobsFollowSession, JobFollowsSession
  <2>2. \A m \in OrdersOf(job[w].session) :
          m.session = job[w].session /\ m.table = job[w].table /\ m.uid <= placed
    BY <2>1 DEF DataInv, OrdersOf, RowsFollowSession, UidsBounded
  <2>3. JobFollowsSession(j)
    BY <2>1, <2>2 DEF JobFollowsSession
  <2> QED
    BY <1>7, <2>3, DataContinue DEF LoadOrders
<1>8. ASSUME NEW w \in Workers, CommitClose(w)
      PROVE  DataInv'
  <2>1. job[w] \in MigratingJob
    BY <1>8, JobShape DEF CommitClose, TypeOK
  <2> DEFINE s == job[w].session
  <2>2. /\ s \in DOMAIN session
        /\ session[s].table = job[w].table
        /\ \A m \in job[w].moved :
             m.session = s /\ m.table = job[w].table /\ m.uid <= placed
    BY <1>8 DEF CommitClose, DataInv, JobsFollowSession, JobFollowsSession
  <2>3. /\ DOMAIN session' = DOMAIN session
        /\ \A r \in DOMAIN session :
             /\ session'[r].table = session[r].table
             /\ session'[r].status = IF r = s THEN "closed" ELSE session[r].status
    BY <1>8, <2>1, ClosedRows DEF CommitClose, MigratingJob, TypeOK
  <2>4. orders' \subseteq orders
    BY <1>8 DEF CommitClose, Unmoved
  <2>5. ASSUME NEW h \in history'
        PROVE  \/ h \in history
               \/ h.session = s /\ h.table = job[w].table /\ h.uid <= placed
    BY <1>8, <2>2 DEF CommitClose
  <2>6. (KeysUnique /\ RowsFollowSession /\ UidsBounded)'
    BY <1>8, <2>2, <2>3, <2>4, <2>5 DEF CommitClose, DataInv, KeysUnique,
                                        RowsFollowSession, UidsBounded
  <2>7. ArchiveImpliesClosed'
    BY <2>2, <2>3, <2>5 DEF DataInv, ArchiveImpliesClosed
  <2>8. ASSUME NEW v \in Workers PROVE JobFollowsSession(job[v])'
    <3>1. job'[v] = IF v = w THEN Idle ELSE job[v]
      BY <1>8 DEF CommitClose, Finish, TypeOK
    <3> QED
      BY <1>8, <2>3, <3>1 DEF CommitClose, DataInv, JobsFollowSession,
                              JobFollowsSession, Idle
  <2> QED
    BY <2>6, <2>7, <2>8 DEF DataInv, JobsFollowSession
<1>9. ASSUME NEW w \in Workers, NEW o \in orders, NEW next \in Statuses,
             ReadForStatus(w, o, next)
      PROVE  DataInv'
  <2>1. JobFollowsSession([at |-> "updating", table |-> o.table, order |-> o,
                           next |-> next])
    BY <1>9 DEF JobFollowsSession, DataInv, UidsBounded, ReadForStatus, IsAllowedTransition
  <2> QED
    BY <1>9, <2>1, DataContinue DEF ReadForStatus
<1>10. ASSUME NEW w \in Workers, UpdateStatus(w)
       PROVE  DataInv'
  <2>1. job[w] \in UpdatingJob
    BY <1>10, JobShape DEF UpdateStatus, TypeOK
  <2>2. ASSUME NEW p \in orders'
        PROVE  \E o \in orders :
                 /\ p.uid = o.uid /\ p.id = o.id /\ p.number = o.number
                 /\ p.table = o.table /\ p.session = o.session
                 /\ p = IF o.id = job[w].order.id
                        THEN WithStatus(o, job[w].next) ELSE o
    BY <1>10, <2>1, WithStatusFields DEF UpdateStatus, UpdatingJob, TypeOK
  <2>3. KeysUnique'
    <3> SUFFICES ASSUME NEW p \in orders', NEW q \in orders',
                        p.id = q.id \/ p.number = q.number \/ p.uid = q.uid
                 PROVE  p = q
      BY DEF KeysUnique
    <3>1. PICK o \in orders :
            /\ p.uid = o.uid /\ p.id = o.id /\ p.number = o.number
            /\ p = IF o.id = job[w].order.id THEN WithStatus(o, job[w].next) ELSE o
      BY <2>2
    <3>2. PICK r \in orders :
            /\ q.uid = r.uid /\ q.id = r.id /\ q.number = r.number
            /\ q = IF r.id = job[w].order.id THEN WithStatus(r, job[w].next) ELSE r
      BY <2>2
    <3>3. o = r
      BY <3>1, <3>2 DEF DataInv, KeysUnique
    <3> QED
      BY <3>1, <3>2, <3>3
  <2>4. (RowsFollowSession /\ ArchiveImpliesClosed /\ UidsBounded)'
    BY <1>10, <2>2 DEF UpdateStatus, DataInv, RowsFollowSession, ArchiveImpliesClosed,
                       UidsBounded
  <2>5. ASSUME NEW v \in Workers PROVE JobFollowsSession(job[v])'
    <3>1. job'[v] = IF v = w THEN Idle ELSE job[v]
      BY <1>10 DEF UpdateStatus, Finish, TypeOK
    <3> QED
      BY <1>10, <3>1 DEF UpdateStatus, DataInv, JobsFollowSession,
                         JobFollowsSession, Idle
  <2> QED
    BY <2>3, <2>4, <2>5 DEF DataInv, JobsFollowSession
<1>11. ASSUME NEW w \in Workers, NEW o \in orders, ReadForDelete(w, o)
       PROVE  DataInv'
  <2>1. JobFollowsSession([at |-> "deleting", table |-> o.table, order |-> o])
    BY DEF JobFollowsSession, DataInv, UidsBounded
  <2> QED
    BY <1>11, <2>1, DataContinue DEF ReadForDelete
<1>12. ASSUME NEW w \in Workers, DeleteOrder(w)
       PROVE  DataInv'
  <2>1. orders' \subseteq orders
    BY <1>12 DEF DeleteOrder
  <2>2. (KeysUnique /\ RowsFollowSession /\ ArchiveImpliesClosed /\ UidsBounded)'
    BY <1>12, <2>1 DEF DeleteOrder, DataInv, KeysUnique, RowsFollowSession,
                       ArchiveImpliesClosed, UidsBounded
  <2>3. ASSUME NEW v \in Workers PROVE JobFollowsSession(job[v])'
    <3>1. job'[v] = IF v = w THEN Idle ELSE job[v]
      BY <1>12 DEF DeleteOrder, Finish, TypeOK
    <3> QED
      BY <1>12, <3>1 DEF DeleteOrder, DataInv, JobsFollowSession,
                         JobFollowsSession, Idle
  <2> QED
    BY <2>2, <2>3 DEF DataInv, JobsFollowSession
<1>13. ASSUME NEW w \in Workers,
              \/ RejectUnknownMenu(w) \/ NumberCollision(w)
              \/ UpdateMissesRow(w) \/ WriteFails(w)
       PROVE  DataInv'
  BY <1>13, DataFinish DEF RejectUnknownMenu, NumberCollision, UpdateMissesRow, WriteFails
<1>14. CASE Restart
  BY <1>14 DEF Restart, dbvars, DataInv, KeysUnique, RowsFollowSession,
               ArchiveImpliesClosed, UidsBounded, JobsFollowSession,
               JobFollowsSession, Idle
<1>15. CASE UNCHANGED vars
  BY <1>15 DEF vars, DataInv, KeysUnique, RowsFollowSession, ArchiveImpliesClosed,
               UidsBounded, JobsFollowSession, JobFollowsSession
<1>16. QED
  BY <1>1, <1>2, <1>3, <1>4, <1>5, <1>6, <1>7, <1>8, <1>9, <1>10, <1>11, <1>12,
     <1>13, <1>14, <1>15 DEF Next, Customer, Staff, CloseConflicts

LEMMA DataInvInit == Init => DataInv
  BY DEF Init, DataInv, KeysUnique, RowsFollowSession, ArchiveImpliesClosed,
         UidsBounded, JobsFollowSession, JobFollowsSession, Idle

LEMMA DataInvariant == Spec => []DataInv
  BY TypeCorrect, DataInvInit, DataInvStep, PTL DEF Spec

(* Row ids, order numbers and uids stay unique among the live orders, with *)
(* any number of threads reading maxima that others are about to outdate.  *)
THEOREM KeysStayUnique == Spec => []KeysUnique
<1>1. DataInv => KeysUnique
  BY DEF DataInv
<1> QED
  BY <1>1, DataInvariant, PTL

(* Live and archived orders keep the table of their session. *)
THEOREM RowsKeepTable == Spec => []RowsFollowSession
<1>1. DataInv => RowsFollowSession
  BY DEF DataInv
<1> QED
  BY <1>1, DataInvariant, PTL

(* What is archived belongs to a session that is closed. *)
THEOREM ArchivedIsClosed == Spec => []ArchiveImpliesClosed
<1>1. DataInv => ArchiveImpliesClosed
  BY DEF DataInv
<1> QED
  BY <1>1, DataInvariant, PTL

-----------------------------------------------------------------------------
(***************************************************************************)
(* Part 2. TableOrders and TableService, however requests overlap: a       *)
(* commit that is not stale is one operation on the bill, and everything   *)
(* else is a stuttering step.                                              *)
(***************************************************************************)

Known == TypeOK /\ DataInv

OnBill == {o \in orders : session[o.session].status = "active"}
BillRow(o) == [uid |-> o.uid, table |-> o.table, status |-> o.status]

LEMMA BillRowFields ==
    ASSUME NEW o
    PROVE  /\ BillRow(o).uid = o.uid
           /\ BillRow(o).table = o.table
           /\ BillRow(o).status = o.status
  BY DEF BillRow

LEMMA BillIsOnBill ==
    /\ Bill = {BillRow(o) : o \in OnBill}
    /\ Bill' = {BillRow(o) : o \in OnBill'}
  BY DEF Bill, OnBill, BillRow

LEMMA BillRowsApart ==
    ASSUME Known
    PROVE  \A o, p \in orders : BillRow(o) = BillRow(p) => o = p
  BY BillRowFields DEF Known, DataInv, KeysUnique

(* Every order has the row of its session, which is active or closed. *)
LEMMA SessionsOfRows ==
    ASSUME Known
    PROVE  /\ \A o \in orders : /\ o \in Order /\ o.session \in DOMAIN session
                               /\ session[o.session].table = o.table
           /\ \A s \in DOMAIN session : session[s].status \in {"active", "closed"}
<1>1. \A o \in orders : /\ o \in Order /\ o.session \in DOMAIN session
                       /\ session[o.session].table = o.table
  BY DEF Known, TypeOK, DataInv, RowsFollowSession
<1>2. \A s \in DOMAIN session : session[s] \in SessionRow
  BY DEF Known, TypeOK
<1> QED
  BY <1>1, <1>2 DEF SessionRow

(* A step that changes neither sessions nor orders nor history stutters. *)
LEMMA StutterStep ==
    ASSUME UNCHANGED <<session, orders, history, placed>>
    PROVE  UNCHANGED Service!svars
<1>1. Occupied' = Occupied
  BY DEF Occupied, Active
<1>2. Bill' = Bill
  BY DEF Bill
<1>3. Archive' = Archive
  BY DEF Archive
<1> QED
  BY <1>1, <1>2, <1>3 DEF Service!svars

(* The new session is the last row; it changes none of the others. *)
LEMMA OpenedRows ==
    ASSUME Known, NEW w \in Workers, OpenSession(w)
    PROVE  /\ job[w].table \in Tables
           /\ DOMAIN session' = DOMAIN session \cup {Len(session) + 1}
           /\ \A s \in DOMAIN session : session'[s] = session[s]
           /\ session'[Len(session) + 1].status = "active"
           /\ session'[Len(session) + 1].table = job[w].table
<1>1. job[w] \in OpeningJob
  BY JobShape DEF OpenSession, Known, TypeOK
<1> QED
  BY <1>1 DEF OpenSession, OpeningJob, Known, TypeOK

(* The first request of a party occupies its table; a second active        *)
(* session of the table changes nothing.                                   *)
LEMMA OpenIsSit ==
    ASSUME Known, NEW w \in Workers, OpenSession(w)
    PROVE  Service!Sit(job[w].table) \/ UNCHANGED Service!svars
<1> DEFINE t == job[w].table
<1>1. /\ t \in Tables
      /\ DOMAIN session' = DOMAIN session \cup {Len(session) + 1}
      /\ \A s \in DOMAIN session : session'[s] = session[s]
      /\ session'[Len(session) + 1].status = "active"
      /\ session'[Len(session) + 1].table = t
  BY OpenedRows
<1>2. orders' = orders /\ history' = history /\ placed' = placed
  BY DEF OpenSession
<1> HIDE DEF t
<1>3. \A u \in Tables : Active(u)' # {} <=> u = t \/ Active(u) # {}
  BY <1>1 DEF Active
<1>4. Occupied' = Occupied \cup {t}
  BY <1>1, <1>3 DEF Occupied
<1>5. OnBill' = OnBill
  BY <1>1, <1>2, SessionsOfRows DEF OnBill
<1>6. Bill' = Bill /\ Archive' = Archive
  BY <1>2, <1>5, BillIsOnBill DEF Archive
<1> QED
  BY <1>1, <1>2, <1>4, <1>6 DEF Service!Sit, Service!svars, t

LEMMA InsertIsPlace ==
    ASSUME Known, NEW w \in Workers, InsertOrder(w), ~LateOrder(w)
    PROVE  job[w].table \in Tables /\ Service!Place(job[w].table)
<1>1. PICK new :
        /\ BillRow(new) = [uid |-> placed + 1, table |-> job[w].table, status |-> "waiting"]
        /\ new.session = job[w].session
        /\ orders' = orders \cup {new}
  <2>1. PICK i \in 1 .. placed + 1 :
          orders' = orders \cup
            {[uid |-> placed + 1, id |-> i, number |-> job[w].number,
              table |-> job[w].table, session |-> job[w].session,
              status |-> "waiting"]}
    BY DEF InsertOrder
  <2> QED
    BY <2>1 DEF BillRow
<1>2. /\ job[w].session \in DOMAIN session
      /\ session[job[w].session].table = job[w].table
      /\ session[job[w].session].status = "active"
      /\ job[w].table \in Tables
  BY JobShape, SessionsOfRows DEF InsertOrder, LateOrder, Known, TypeOK, DataInv,
     JobsFollowSession, JobFollowsSession, InsertingJob
<1>3. job[w].table \in Occupied
  BY <1>2 DEF Occupied, Active
<1>4. session' = session /\ history' = history /\ placed' = placed + 1
  BY DEF InsertOrder
<1>5. OnBill' = OnBill \cup {new}
  BY <1>1, <1>2, <1>4 DEF OnBill
<1>6. Bill' = Bill \cup {[uid |-> placed + 1, table |-> job[w].table, status |-> "waiting"]}
  BY <1>1, <1>5, BillIsOnBill
<1>7. Occupied' = Occupied /\ Archive' = Archive
  BY <1>4 DEF Occupied, Active, Archive
<1> QED
  BY <1>2, <1>3, <1>4, <1>6, <1>7 DEF Service!Place

(* A delete strikes out whichever order has the id, or none. *)
LEMMA DeleteIsStrike ==
    ASSUME Known, NEW w \in Workers, DeleteOrder(w)
    PROVE  (\E b \in Bill : Service!Strike(b)) \/ UNCHANGED Service!svars
<1>1. session' = session /\ history' = history /\ placed' = placed
  BY DEF DeleteOrder
<1>2. Occupied' = Occupied /\ Archive' = Archive
  BY <1>1 DEF Occupied, Active, Archive
<1>3. CASE \E gone \in OnBill : gone.id = job[w].order.id
  <2>1. PICK gone \in OnBill : gone.id = job[w].order.id
    BY <1>3
  <2>2. orders' = orders \ {gone}
    BY <2>1 DEF DeleteOrder, OnBill, Known, DataInv, KeysUnique
  <2>3. OnBill' = OnBill \ {gone}
    BY <1>1, <2>2 DEF OnBill
  <2>4. \A o \in OnBill : BillRow(o) = BillRow(gone) => o = gone
    BY <2>1, BillRowsApart DEF OnBill
  <2>5. Bill' = Bill \ {BillRow(gone)} /\ BillRow(gone) \in Bill
    BY <2>1, <2>3, <2>4, BillIsOnBill
  <2> QED
    BY <1>1, <1>2, <2>5 DEF Service!Strike
<1>4. CASE \A o \in OnBill : o.id # job[w].order.id
  <2>1. OnBill' = OnBill
    BY <1>1, <1>4 DEF DeleteOrder, OnBill
  <2> QED
    BY <1>1, <1>2, <2>1, BillIsOnBill DEF Service!svars
<1> QED
  BY <1>3, <1>4

(* The row an UPDATE changes is the row that was read, if that is still    *)
(* stored as it was.                                                       *)
LEMMA UpdateHitsRow ==
    ASSUME TypeOK, DataInv, NEW w \in Workers, UpdateStatus(w), job[w].order \in orders
    PROVE  /\ job[w].next \in Statuses
           /\ job[w].order.table = job[w].table
           /\ <<job[w].order.status, job[w].next>> \in Allowed
           /\ orders' = (orders \ {job[w].order})
                          \cup {WithStatus(job[w].order, job[w].next)}
<1>1. job[w] \in UpdatingJob
  BY JobShape DEF UpdateStatus, TypeOK
<1>2. /\ job[w].order.table = job[w].table
      /\ <<job[w].order.status, job[w].next>> \in Allowed
  BY DEF UpdateStatus, DataInv, JobsFollowSession, JobFollowsSession
<1>3. \A o \in orders : o.id = job[w].order.id <=> o = job[w].order
  BY DEF DataInv, KeysUnique
<1> QED
  BY <1>1, <1>2, <1>3 DEF UpdateStatus, UpdatingJob

LEMMA UpdateIsAdvance ==
    ASSUME Known, NEW w \in Workers, UpdateStatus(w), job[w].order \in orders
    PROVE  \/ \E b \in Bill : \E next \in Service!Statuses : Service!Advance(b, next)
           \/ UNCHANGED Service!svars
<1> DEFINE old == job[w].order
           next == job[w].next
           new == WithStatus(job[w].order, job[w].next)
<1>1. /\ old \in orders
      /\ next \in Statuses
      /\ <<old.status, next>> \in Allowed
      /\ orders' = (orders \ {old}) \cup {new}
  BY UpdateHitsRow DEF Known
<1>2. new.uid = old.uid /\ new.table = old.table /\ new.status = next /\ new.session = old.session
  BY <1>1, WithStatusFields DEF Known, TypeOK
<1>3. placed' = placed /\ session' = session /\ history' = history
  BY DEF UpdateStatus
<1> HIDE DEF old, new, next
<1>4. Occupied' = Occupied /\ Archive' = Archive
  BY <1>3 DEF Occupied, Active, Archive
<1>5. CASE old \in OnBill
  <2>1. OnBill' = (OnBill \ {old}) \cup {new}
    BY <1>1, <1>2, <1>3, <1>5 DEF OnBill
  <2>2. \A o \in OnBill : BillRow(o) = BillRow(old) => o = old
    BY <1>1, BillRowsApart DEF OnBill
  <2>3. BillRow(new) = [BillRow(old) EXCEPT !.status = next]
    BY <1>2 DEF BillRow
  <2>4. Bill' = (Bill \ {BillRow(old)}) \cup {BillRow(new)} /\ BillRow(old) \in Bill
    BY <1>5, <2>1, <2>2, BillIsOnBill
  <2>5. <<BillRow(old).status, next>> \in Service!Allowed /\ next \in Service!Statuses
    BY <1>1, BillRowFields DEF Allowed, Service!Allowed, Statuses, Service!Statuses
  <2>6. Service!Advance(BillRow(old), next)
    BY <1>3, <1>4, <2>3, <2>4, <2>5 DEF Service!Advance
  <2> QED
    BY <2>4, <2>5, <2>6
<1>6. CASE old \notin OnBill
  <2>1. OnBill' = OnBill
    BY <1>1, <1>2, <1>3, <1>6 DEF OnBill
  <2> QED
    BY <1>3, <1>4, <2>1, BillIsOnBill DEF Service!svars
<1> QED
  BY <1>5, <1>6

(* What a close commits, stale or not, and of which rows. *)
LEMMA ClosingRows ==
    ASSUME Known, NEW w \in Workers, CommitClose(w)
    PROVE  /\ job[w].table \in Tables
           /\ job[w].session \in DOMAIN session
           /\ session[job[w].session].table = job[w].table
           /\ DOMAIN session' = DOMAIN session
           /\ \A r \in DOMAIN session :
                /\ session'[r].table = session[r].table
                /\ session'[r].status = IF r = job[w].session THEN "closed"
                                                              ELSE session[r].status
           /\ job[w].moved = OrdersOf(job[w].session) =>
                orders' = orders \ OrdersOf(job[w].session)
<1>1. job[w] \in MigratingJob
  BY JobShape DEF CommitClose, Known, TypeOK
<1>2. /\ job[w].session \in DOMAIN session
      /\ session[job[w].session].table = job[w].table
  BY DEF CommitClose, Known, DataInv, JobsFollowSession, JobFollowsSession
<1>3. ASSUME job[w].moved = OrdersOf(job[w].session)
      PROVE  orders' = orders \ OrdersOf(job[w].session)
  BY <1>3 DEF CommitClose, Unmoved, OrdersOf, Known, DataInv, KeysUnique
<1>4. /\ DOMAIN session' = DOMAIN session
      /\ \A r \in DOMAIN session :
           /\ session'[r].table = session[r].table
           /\ session'[r].status = IF r = job[w].session THEN "closed"
                                                         ELSE session[r].status
  BY <1>1, ClosedRows DEF CommitClose, MigratingJob, Known, TypeOK
<1> QED
  BY <1>1, <1>2, <1>3, <1>4 DEF MigratingJob

LEMMA CloseIsSettle ==
    ASSUME Known, NEW w \in Workers, CommitClose(w), ~StaleCommit(w)
    PROVE  job[w].table \in Tables /\ Service!Settle(job[w].table)
<1> DEFINE s == job[w].session
           t == job[w].table
<1>0. job[w].moved = OrdersOf(s) /\ Active(t) = {s}
  BY DEF StaleCommit, MissedOrders
<1>1. /\ s \in DOMAIN session
      /\ session[s].table = t
      /\ orders' = orders \ OrdersOf(s)
      /\ DOMAIN session' = DOMAIN session
      /\ \A r \in DOMAIN session :
           /\ session'[r].table = session[r].table
           /\ session'[r].status = IF r = s THEN "closed" ELSE session[r].status
  BY <1>0, ClosingRows
<1>2. t \in Tables /\ placed' = placed
  BY ClosingRows DEF CommitClose
<1>3. history' = history \cup
        {[uid |-> o.uid, number |-> o.number, table |-> o.table, session |-> s,
          closing |-> closings + 1] : o \in OrdersOf(s)}
  BY <1>0 DEF CommitClose
<1> HIDE DEF s, t
<1>4. \A r \in DOMAIN session :
        session[r].table = t /\ session[r].status = "active" <=> r = s
  BY <1>0, <1>1 DEF Active
<1>5. OrdersOf(s) = {o \in OnBill : o.table = t}
  BY <1>1, <1>4, SessionsOfRows DEF OrdersOf, OnBill
<1>6. t \in Occupied
  BY <1>0, <1>2 DEF Occupied
<1>7. Occupied' = Occupied \ {t}
  <2>1. \A u \in Tables : Active(u)' # {} <=> Active(u) # {} /\ u # t
    <3> SUFFICES ASSUME NEW u \in Tables
                 PROVE  Active(u)' # {} <=> Active(u) # {} /\ u # t
      OBVIOUS
    <3>1. \A r \in DOMAIN session :
            (session'[r].table = u /\ session'[r].status = "active")
              <=> (session[r].table = u /\ session[r].status = "active" /\ u # t)
      BY <1>1, <1>4
    <3> QED
      BY <1>1, <3>1 DEF Active
  <2> QED
    BY <2>1 DEF Occupied
<1>8. Service!BillOf(t) = {BillRow(o) : o \in OrdersOf(s)}
  BY <1>5, BillIsOnBill, BillRowFields DEF Service!BillOf
<1>9. Bill' = Bill \ Service!BillOf(t)
  <2>1. OnBill' = OnBill \ OrdersOf(s)
    BY <1>1, SessionsOfRows DEF OnBill, OrdersOf
  <2>2. OrdersOf(s) \subseteq OnBill /\ OnBill \subseteq orders
    BY <1>5 DEF OnBill
  <2> QED
    BY <1>8, <2>1, <2>2, BillRowsApart, BillIsOnBill
<1>10. Archive' = Archive \cup {[uid |-> b.uid, table |-> t] : b \in Service!BillOf(t)}
  <2>1. {[uid |-> b.uid, table |-> t] : b \in Service!BillOf(t)}
          = {[uid |-> o.uid, table |-> o.table] : o \in OrdersOf(s)}
    BY <1>5, <1>8, BillRowFields
  <2>2. Archive' = Archive \cup {[uid |-> o.uid, table |-> o.table] : o \in OrdersOf(s)}
    <3> DEFINE row(o) == [uid |-> o.uid, number |-> o.number, table |-> o.table,
                          session |-> s, closing |-> closings + 1]
               key(h) == [uid |-> h.uid, table |-> h.table]
    <3>1. history' = history \cup {row(o) : o \in OrdersOf(s)}
      BY <1>3
    <3>2. \A o : key(row(o)) = key(o)
      OBVIOUS
    <3>3. Archive = {key(h) : h \in history} /\ Archive' = {key(h) : h \in history'}
      BY DEF Archive
    <3> HIDE DEF row, key
    <3>4. Archive' = Archive \cup {key(o) : o \in OrdersOf(s)}
      BY <3>1, <3>2, <3>3
    <3> QED
      BY <3>4 DEF key
  <2> QED
    BY <2>1, <2>2
<1> QED
  BY <1>2, <1>6, <1>7, <1>9, <1>10 DEF Service!Settle, t

-----------------------------------------------------------------------------
Writes(w) == OpenSession(w) \/ InsertOrder(w) \/ CommitClose(w) \/ UpdateStatus(w)
               \/ DeleteOrder(w)

(* All other steps leave the stored rows alone. *)
LEMMA OnlyWrites ==
    ASSUME [Next]_vars, \A w \in Workers : ~Writes(w)
    PROVE  UNCHANGED <<session, orders, history, placed>>
  BY DEF Writes, Next, Customer, Staff, FindSession, FindNoSession, RejectUnknownMenu,
         ReadNumber, NumberCollision, CloseConflicts, FindSessionToClose, LoadOrders,
         ReadForStatus, UpdateMissesRow, ReadForDelete, WriteFails, Restart, vars, dbvars

LEMMA AtomicStep ==
    ASSUME Known, [Next]_vars
    PROVE  [Service!SNext]_(Service!svars) \/ \E w \in Workers : StaleCommit(w)
<1>1. CASE \A w \in Workers : ~Writes(w)
  BY <1>1, OnlyWrites, StutterStep
<1>2. ASSUME NEW w \in Workers, Writes(w), ~StaleCommit(w)
      PROVE  [Service!SNext]_(Service!svars)
  <2>1. CASE OpenSession(w)
    BY <2>1, OpenIsSit, OpenedRows DEF Service!SNext
  <2>2. CASE InsertOrder(w)
    BY <1>2, <2>2, InsertIsPlace DEF StaleCommit, Service!SNext
  <2>3. CASE CommitClose(w)
    BY <1>2, <2>3, CloseIsSettle DEF Service!SNext
  <2>4. CASE UpdateStatus(w)
    BY <1>2, <2>4, UpdateIsAdvance DEF StaleCommit, Service!SNext
  <2>5. CASE DeleteOrder(w)
    BY <2>5, DeleteIsStrike DEF Service!SNext
  <2> QED
    BY <1>2, <2>1, <2>2, <2>3, <2>4, <2>5 DEF Writes
<1> QED
  BY <1>1, <1>2

LEMMA LeftoverStep ==
    ASSUME Known, [Next]_vars
    PROVE  \/ Leftover' \subseteq Leftover
           \/ \E w \in Workers : LateOrder(w) \/ MissedOrders(w)
<1>s. ASSUME \A o \in orders' : session'[o.session].status = "closed" =>
               \E p \in orders : p.uid = o.uid /\ session[p.session].status = "closed"
      PROVE  Leftover' \subseteq Leftover
  BY <1>s DEF Leftover
<1>1. CASE \A w \in Workers : ~Writes(w)
  BY <1>1, <1>s, OnlyWrites
<1>2. ASSUME NEW w \in Workers, OpenSession(w) PROVE Leftover' \subseteq Leftover
  <2>1. orders' = orders
    BY <1>2 DEF OpenSession
  <2> QED
    BY <1>2, <1>s, <2>1, OpenedRows, SessionsOfRows
<1>3. ASSUME NEW w \in Workers, InsertOrder(w), ~LateOrder(w) PROVE Leftover' \subseteq Leftover
  BY <1>3, <1>s DEF InsertOrder, LateOrder
<1>4. ASSUME NEW w \in Workers, CommitClose(w), ~MissedOrders(w)
      PROVE  Leftover' \subseteq Leftover
  <2>1. orders' = orders \ OrdersOf(job[w].session)
    BY <1>4, ClosingRows DEF MissedOrders
  <2>2. \A o \in orders' : o \in orders /\ o.session # job[w].session
    BY <2>1 DEF OrdersOf
  <2> QED
    BY <1>4, <1>s, <2>2, ClosingRows, SessionsOfRows
<1>5. ASSUME NEW w \in Workers, UpdateStatus(w) PROVE Leftover' \subseteq Leftover
  <2>1. job[w].next \in Statuses
    BY <1>5, JobShape DEF UpdateStatus, UpdatingJob, Known, TypeOK
  <2>2. \A o \in orders' : \E p \in orders : p.uid = o.uid /\ p.session = o.session
    BY <1>5, <2>1, SessionsOfRows, WithStatusFields DEF UpdateStatus
  <2> QED
    BY <1>5, <1>s, <2>2 DEF UpdateStatus
<1>6. ASSUME NEW w \in Workers, DeleteOrder(w) PROVE Leftover' \subseteq Leftover
  BY <1>6, <1>s DEF DeleteOrder
<1> QED
  BY <1>1, <1>2, <1>3, <1>4, <1>5, <1>6 DEF Writes

LEMMA KnownInvariant == Spec => []Known
<1>1. TypeOK /\ DataInv <=> Known
  BY DEF Known
<1> QED
  BY <1>1, TypeCorrect, DataInvariant, PTL

(* However requests overlap, only an order that comes too late for the     *)
(* close of its session, or a close that has not seen an order, leaves an  *)
(* order behind in a closed session.                                       *)
THEOREM LeftBehindLate == Spec => LeftoverOnlyIfLate
<1>1. Known /\ [Next]_vars =>
        \/ Leftover' \subseteq Leftover
        \/ \E w \in Workers : LateOrder(w) \/ MissedOrders(w)
  BY LeftoverStep
<1> QED
  BY <1>1, KnownInvariant, PTL DEF Spec, LeftoverOnlyIfLate

(* However requests overlap, every step is one of the service's atomic     *)
(* operations, a stutter or a commit on what has gone stale: each order is *)
(* placed, advanced, struck out or settled with its table's whole bill.    *)
THEOREM StepsAreAtomic == Spec => AtomicUnlessStale
<1>1. Known /\ [Next]_vars =>
        [Service!SNext]_(Service!svars) \/ \E w \in Workers : StaleCommit(w)
  BY AtomicStep
<1> QED
  BY <1>1, KnownInvariant, PTL DEF Spec, AtomicUnlessStale

-----------------------------------------------------------------------------
(***************************************************************************)
(* Part 3. What holds when some requests for one table never overlap.  If  *)
(* they are customers' requests, at most one session per table is active.  *)
(***************************************************************************)

(* The requests that are served for one table at a time.                   *)

Excluded ==
    \A v, w \in Workers :
        /\ v # w
        /\ job[v] # Idle /\ Kind(job[v]) \in Exclusive
        /\ job[w] # Idle /\ Kind(job[w]) \in Exclusive
        => job[v].table # job[w].table

(* A request that is admitted, goes on for its table or ends keeps them so. *)
LEMMA ExcludedAdmit ==
    ASSUME TypeOK, Excluded, NEW w \in Workers, NEW t, NEW k, NEW j,
           Admit(w, t, k), Continue(w, j), Kind(j) = k, j.table = t
    PROVE  Excluded'
<1>1. \A v \in Workers : job'[v] = IF v = w THEN j ELSE job[v]
  BY DEF TypeOK, Continue
<1>2. \A v \in Workers : k \in Exclusive /\ job[v] # Idle /\ Kind(job[v]) \in Exclusive
                           => job[v].table # t
  BY DEF Admit
<1> SUFFICES ASSUME NEW u \in Workers, NEW v \in Workers, u # v,
                    job'[u] # Idle, Kind(job'[u]) \in Exclusive,
                    job'[v] # Idle, Kind(job'[v]) \in Exclusive
             PROVE  job'[u].table # job'[v].table
  BY DEF Excluded, Kind
<1>3. CASE u # w /\ v # w
  BY <1>1, <1>3 DEF Excluded
<1>4. CASE u = w
  BY <1>1, <1>2, <1>4
<1>5. CASE v = w
  BY <1>1, <1>2, <1>5
<1> QED
  BY <1>3, <1>4, <1>5

LEMMA ExcludedContinue ==
    ASSUME TypeOK, Excluded, NEW w \in Workers, NEW j, job[w] # Idle, Continue(w, j),
           Kind(j) = Kind(job[w]), j.table = job[w].table
    PROVE  Excluded'
<1>1. \A v \in Workers : job'[v] = IF v = w THEN j ELSE job[v]
  BY DEF TypeOK, Continue
<1> SUFFICES ASSUME NEW u \in Workers, NEW v \in Workers, u # v,
                    job'[u] # Idle, Kind(job'[u]) \in Exclusive,
                    job'[v] # Idle, Kind(job'[v]) \in Exclusive
             PROVE  job'[u].table # job'[v].table
  BY DEF Excluded, Kind
<1> QED
  BY <1>1 DEF Excluded

LEMMA ExcludedFinish ==
    ASSUME TypeOK, Excluded, NEW w \in Workers, Finish(w)
    PROVE  Excluded'
<1>1. \A v \in Workers : job'[v] = IF v = w THEN Idle ELSE job[v]
  BY DEF TypeOK, Finish
<1> SUFFICES ASSUME NEW u \in Workers, NEW v \in Workers, u # v,
                    job'[u] # Idle, Kind(job'[u]) \in Exclusive,
                    job'[v] # Idle, Kind(job'[v]) \in Exclusive
             PROVE  job'[u].table # job'[v].table
  BY DEF Excluded, Kind
<1> QED
  BY <1>1 DEF Excluded

LEMMA ExcludedStep == TypeOK /\ Excluded /\ [Next]_vars => Excluded'
<1> SUFFICES ASSUME TypeOK, Excluded, [Next]_vars PROVE Excluded'
  OBVIOUS
<1>1. ASSUME NEW w \in Workers, NEW t \in Tables, FindSession(w, t)
      PROVE  Excluded'
  <2>1. PICK s \in Active(t) :
          Continue(w, [at |-> "numbering", table |-> t, session |-> s])
    BY <1>1 DEF FindSession
  <2> QED
    BY <1>1, <2>1, ExcludedAdmit DEF FindSession, Kind
<1>2. ASSUME NEW w \in Workers, NEW t \in Tables, FindNoSession(w, t)
      PROVE  Excluded'
  BY <1>2, ExcludedAdmit DEF FindNoSession, Kind
<1>3. ASSUME NEW w \in Workers, NEW t \in Tables, FindSessionToClose(w, t)
      PROVE  Excluded'
  <2>1. PICK s \in Active(t) :
          Continue(w, [at |-> "loading", table |-> t, session |-> s])
    BY <1>3 DEF FindSessionToClose
  <2> QED
    BY <1>3, <2>1, ExcludedAdmit DEF FindSessionToClose, Kind
<1>4. ASSUME NEW w \in Workers, NEW o \in orders, ReadForDelete(w, o)
      PROVE  Excluded'
  BY <1>4, ExcludedAdmit DEF ReadForDelete, Kind
<1>5. ASSUME NEW w \in Workers, NEW o \in orders, NEW next \in Statuses,
             ReadForStatus(w, o, next)
      PROVE  Excluded'
  BY <1>5, ExcludedAdmit DEF ReadForStatus, Kind
<1>6. ASSUME NEW w \in Workers, OpenSession(w)
      PROVE  Excluded'
  BY <1>6, ExcludedContinue DEF OpenSession, Kind, Idle
<1>7. ASSUME NEW w \in Workers, ReadNumber(w)
      PROVE  Excluded'
  <2>1. PICK n \in {0} \cup {o.number : o \in orders} :
          Continue(w, [at |-> "inserting", table |-> job[w].table,
                       session |-> job[w].session, number |-> n + 1])
    BY <1>7 DEF ReadNumber
  <2> QED
    BY <1>7, <2>1, ExcludedContinue DEF ReadNumber, Kind, Idle
<1>8. ASSUME NEW w \in Workers, LoadOrders(w)
      PROVE  Excluded'
  BY <1>8, ExcludedContinue DEF LoadOrders, Kind, Idle
<1>9. ASSUME NEW w \in Workers,
             \/ RejectUnknownMenu(w) \/ InsertOrder(w) \/ NumberCollision(w)
             \/ CommitClose(w) \/ UpdateStatus(w) \/ UpdateMissesRow(w)
             \/ DeleteOrder(w) \/ WriteFails(w)
      PROVE  Excluded'
  BY <1>9, ExcludedFinish
     DEF RejectUnknownMenu, InsertOrder, NumberCollision, CommitClose, UpdateStatus,
         UpdateMissesRow, DeleteOrder, WriteFails
<1>10. CASE Restart
  BY <1>10 DEF Restart, Excluded
<1>11. CASE UNCHANGED vars
  BY <1>11 DEF vars, Excluded, Kind
<1>12. QED
  BY <1>1, <1>2, <1>3, <1>4, <1>5, <1>6, <1>7, <1>8, <1>9, <1>10, <1>11
     DEF Next, Customer, Staff, CloseConflicts

LEMMA ExcludedInvariant == Spec => []Excluded
<1>1. Init => Excluded
  BY DEF Init, Excluded
<1> QED
  BY <1>1, TypeCorrect, ExcludedStep, PTL DEF Spec

-----------------------------------------------------------------------------
(* One tablet per table: at most one active session.                       *)

(* A request about to open a session is right that there is none. *)
OpeningRight ==
    \A w \in Workers : job[w].at = "opening" => Active(job[w].table) = {}

SessionInv == Excluded /\ OpeningRight /\ AtMostOneActive

(* A step that leaves the sessions alone and starts no opening of its own. *)
LEMMA SessionKeep ==
    ASSUME TypeOK, SessionInv, Excluded', UNCHANGED session,
           \A w \in Workers : job'[w].at = "opening" => job'[w] = job[w]
    PROVE  SessionInv'
  BY DEF SessionInv, OpeningRight, AtMostOneActive, Active

LEMMA SessionInvStep ==
    "customer" \in Exclusive /\ TypeOK /\ SessionInv /\ [Next]_vars => SessionInv'
<1> SUFFICES ASSUME "customer" \in Exclusive, TypeOK, SessionInv, [Next]_vars
             PROVE  SessionInv'
  OBVIOUS
<1> Excluded'
  BY ExcludedStep DEF SessionInv
<1>1. ASSUME NEW w \in Workers, NEW t \in Tables, FindNoSession(w, t)
      PROVE  SessionInv'
  <2>1. \A v \in Workers :
          job'[v] = IF v = w THEN [at |-> "opening", table |-> t] ELSE job[v]
    BY <1>1 DEF FindNoSession, Continue, TypeOK
  <2>2. UNCHANGED session
    BY <1>1 DEF FindNoSession, dbvars
  <2>3. Active(t) = {}
    BY <1>1 DEF FindNoSession
  <2> QED
    BY <2>1, <2>2, <2>3 DEF SessionInv, OpeningRight, AtMostOneActive, Active
<1>2. ASSUME NEW w \in Workers, OpenSession(w)
      PROVE  SessionInv'
  <2> DEFINE t == job[w].table
  <2>1. job[w] \in OpeningJob
    BY <1>2, JobShape DEF OpenSession, TypeOK
  <2>2. /\ Len(session') = Len(session) + 1
        /\ DOMAIN session = 1 .. Len(session)
        /\ DOMAIN session' = 1 .. Len(session) + 1
        /\ \A s \in DOMAIN session : session'[s] = session[s]
        /\ session'[Len(session) + 1].table = t
    BY <1>2, <2>1 DEF OpenSession, OpeningJob, TypeOK
  <2>3. \A s \in DOMAIN session :
          ~(session[s].table = t /\ session[s].status = "active")
    BY <1>2 DEF OpenSession, SessionInv, OpeningRight, Active
  <2>4. AtMostOneActive'
    <3> SUFFICES ASSUME NEW r \in DOMAIN session', NEW s \in DOMAIN session',
                        session'[r].table = session'[s].table,
                        session'[r].status = "active", session'[s].status = "active"
                 PROVE  r = s
      BY DEF AtMostOneActive
    <3>1. CASE r \in DOMAIN session /\ s \in DOMAIN session
      BY <2>2, <3>1 DEF SessionInv, AtMostOneActive
    <3>2. CASE r = Len(session) + 1 /\ s \in DOMAIN session
      BY <2>2, <2>3, <3>2
    <3>3. CASE s = Len(session) + 1 /\ r \in DOMAIN session
      BY <2>2, <2>3, <3>3
    <3> QED
      BY <2>2, <3>1, <3>2, <3>3 DEF TypeOK
  <2>5. \A v \in Workers : v # w /\ job[v].at = "opening" => job[v].table # t
    <3> SUFFICES ASSUME NEW v \in Workers, v # w, job[v].at = "opening"
                 PROVE  job[v].table # job[w].table
      OBVIOUS
    <3> QED
      BY <1>2 DEF OpenSession, SessionInv, Excluded, Kind, Idle
  <2>6. OpeningRight'
    <3> SUFFICES ASSUME NEW v \in Workers, job'[v].at = "opening"
                 PROVE  Active(job[v].table)' = {}
      BY DEF OpeningRight
    <3>1. v # w /\ job'[v] = job[v]
      BY <1>2 DEF OpenSession, Continue, TypeOK
    <3>2. Active(job[v].table) = {}
      BY <3>1 DEF SessionInv, OpeningRight
    <3>3. ASSUME NEW s \in DOMAIN session'
          PROVE  ~(session'[s].table = job[v].table /\ session'[s].status = "active")
      <4>1. CASE s \in DOMAIN session
        BY <2>2, <3>2, <4>1 DEF Active
      <4>2. CASE s = Len(session) + 1
        BY <2>2, <2>5, <3>1, <4>2
      <4> QED
        BY <2>2, <4>1, <4>2 DEF TypeOK
    <3> QED
      BY <3>1, <3>3 DEF Active
  <2> QED
    BY <2>4, <2>6 DEF SessionInv
<1>3. ASSUME NEW w \in Workers, CommitClose(w)
      PROVE  SessionInv'
  <2>1. job[w] \in MigratingJob
    BY <1>3, JobShape DEF CommitClose, TypeOK
  <2>2. /\ DOMAIN session' = DOMAIN session
        /\ \A r \in DOMAIN session :
             /\ session'[r].table = session[r].table
             /\ session'[r].status = "active" => session[r].status = "active"
    BY <1>3, <2>1, ClosedRows DEF CommitClose, MigratingJob, TypeOK
  <2>3. \A v \in Workers : job'[v] = IF v = w THEN Idle ELSE job[v]
    BY <1>3 DEF CommitClose, Finish, TypeOK
  <2>4. AtMostOneActive'
    BY <2>2 DEF SessionInv, AtMostOneActive
  <2>5. OpeningRight'
    BY <2>2, <2>3 DEF SessionInv, OpeningRight, Active, Idle
  <2> QED
    BY <2>4, <2>5 DEF SessionInv
<1>4. ASSUME NEW w \in Workers, NEW j, Continue(w, j), j.at # "opening", UNCHANGED session
      PROVE  SessionInv'
  <2>1. \A v \in Workers : job'[v] = IF v = w THEN j ELSE job[v]
    BY <1>4 DEF Continue, TypeOK
  <2> QED
    BY <1>4, <2>1, SessionKeep
<1>5. ASSUME NEW w \in Workers, Finish(w), UNCHANGED session
      PROVE  SessionInv'
  <2>1. Continue(w, Idle)
    BY <1>5 DEF Finish, Continue
  <2>2. Idle.at # "opening"
    BY DEF Idle
  <2> QED
    BY <1>4, <1>5, <2>1, <2>2
<1>6. ASSUME NEW w \in Workers, NEW t \in Tables,
             FindSession(w, t) \/ FindSessionToClose(w, t)
      PROVE  SessionInv'
  <2>1. CASE FindSession(w, t)
    <3>1. PICK s \in Active(t) :
            Continue(w, [at |-> "numbering", table |-> t, session |-> s])
      BY <2>1 DEF FindSession
    <3> QED
      BY <1>4, <2>1, <3>1 DEF FindSession, dbvars
  <2>2. CASE FindSessionToClose(w, t)
    <3>1. PICK s \in Active(t) :
            Continue(w, [at |-> "loading", table |-> t, session |-> s])
      BY <2>2 DEF FindSessionToClose
    <3> QED
      BY <1>4, <2>2, <3>1 DEF FindSessionToClose, dbvars
  <2> QED
    BY <1>6, <2>1, <2>2
<1>7. ASSUME NEW w \in Workers, ReadNumber(w)
      PROVE  SessionInv'
  <2>1. PICK n \in {0} \cup {o.number : o \in orders} :
          Continue(w, [at |-> "inserting", table |-> job[w].table,
                       session |-> job[w].session, number |-> n + 1])
    BY <1>7 DEF ReadNumber
  <2> QED
    BY <1>4, <1>7, <2>1 DEF ReadNumber, dbvars
<1>8. ASSUME NEW w \in Workers, LoadOrders(w)
      PROVE  SessionInv'
  BY <1>4, <1>8 DEF LoadOrders, dbvars
<1>9. ASSUME NEW w \in Workers, NEW o \in orders, ReadForDelete(w, o)
      PROVE  SessionInv'
  BY <1>4, <1>9 DEF ReadForDelete, dbvars
<1>10. ASSUME NEW w \in Workers, NEW o \in orders, NEW next \in Statuses,
              ReadForStatus(w, o, next)
       PROVE  SessionInv'
  BY <1>4, <1>10 DEF ReadForStatus, dbvars
<1>11. ASSUME NEW w \in Workers,
              \/ RejectUnknownMenu(w) \/ InsertOrder(w) \/ NumberCollision(w)
              \/ UpdateStatus(w) \/ UpdateMissesRow(w) \/ DeleteOrder(w)
              \/ WriteFails(w)
       PROVE  SessionInv'
  BY <1>5, <1>11 DEF RejectUnknownMenu, InsertOrder, NumberCollision, UpdateStatus,
                     UpdateMissesRow, DeleteOrder, WriteFails, dbvars
<1>12. CASE Restart
  BY <1>12, SessionKeep DEF Restart, dbvars, Idle
<1>13. CASE UNCHANGED vars
  BY <1>13, SessionKeep DEF vars
<1>14. QED
  BY <1>1, <1>2, <1>3, <1>6, <1>7, <1>8, <1>9, <1>10, <1>11, <1>12, <1>13
     DEF Next, Customer, Staff, CloseConflicts

(* Where a table's customers wait for the answer to one order before they  *)
(* send the next, a table never has two active sessions, whatever staff    *)
(* and other tables do meanwhile.                                          *)
THEOREM OneTabletOneSession ==
    ASSUME "customer" \in Exclusive
    PROVE  Spec => []AtMostOneActive
<1>1. Init => SessionInv
  BY DEF Init, SessionInv, Excluded, OpeningRight, AtMostOneActive, Idle
<1>2. TypeOK /\ SessionInv /\ [Next]_vars => SessionInv'
  BY SessionInvStep
<1>3. SessionInv => AtMostOneActive
  BY DEF SessionInv
<1> QED
  BY <1>1, <1>2, <1>3, TypeCorrect, PTL DEF Spec

-----------------------------------------------------------------------------
(***************************************************************************)
(* Part 4. What holds of TableOrders when staff's requests for one table   *)
(* never overlap, while customers' requests may overlap anything: every    *)
(* order ever accepted has exactly one fate, and its status only moves     *)
(* forward.                                                                *)
(***************************************************************************)

(* A row that a request of staff has read is still there, unchanged. *)
JobHoldsRow(j) ==
    /\ j.at \in {"updating", "deleting"} => j.order \in orders
    /\ j.at = "migrating" => j.moved \subseteq orders
JobsHoldRows == \A w \in Workers : JobHoldsRow(job[w])

RemovedBounded == \A u \in removed : u <= placed

FateInv == JobsHoldRows /\ RemovedBounded /\ OneFate /\ NothingLost

-----------------------------------------------------------------------------
(* Steps that store nothing. *)

LEMMA FateContinue ==
    ASSUME TypeOK, FateInv, UNCHANGED dbvars, NEW w \in Workers, NEW j,
           Continue(w, j), JobHoldsRow(j)
    PROVE  FateInv'
<1>1. (RemovedBounded /\ OneFate /\ NothingLost)'
  BY DEF dbvars, FateInv, RemovedBounded, OneFate, ArchivedOnce, DeletedNotArchived,
         NotLiveAnyMore, NothingLost, Live, Archived
<1>2. \A v \in Workers : job'[v] = IF v = w THEN j ELSE job[v]
  BY DEF TypeOK, Continue
<1>3. JobsHoldRows'
  BY <1>2 DEF FateInv, JobsHoldRows, JobHoldsRow, dbvars
<1> QED
  BY <1>1, <1>3 DEF FateInv

LEMMA FateFinish ==
    ASSUME TypeOK, FateInv, UNCHANGED dbvars, NEW w \in Workers, Finish(w)
    PROVE  FateInv'
<1>1. JobHoldsRow(Idle)
  BY DEF JobHoldsRow, Idle
<1>2. Continue(w, Idle)
  BY DEF Finish, Continue
<1> QED
  BY <1>1, <1>2, FateContinue

(* Two requests of staff that are under way are for different tables. *)
LEMMA StaffApart ==
    ASSUME "staff" \in Exclusive, TypeOK, Excluded,
           NEW v \in Workers, NEW w \in Workers, v # w,
           job[v].at \in {"loading", "migrating", "updating", "deleting"},
           job[w].at \in {"loading", "migrating", "updating", "deleting"}
    PROVE  job[v].table # job[w].table
  BY DEF Excluded, Kind, Idle

(* Taking away rows of worker w's table leaves what the others hold. *)
LEMMA HoldsOthers ==
    ASSUME "staff" \in Exclusive, TypeOK, Excluded, DataInv, JobsHoldRows,
           NEW w \in Workers, Finish(w),
           job[w].at \in {"migrating", "updating", "deleting"},
           \A o \in orders : o.table # job[w].table => o \in orders'
    PROVE  JobsHoldRows'
<1> SUFFICES ASSUME NEW v \in Workers PROVE JobHoldsRow(job[v])'
  BY DEF JobsHoldRows
<1>1. job'[v] = IF v = w THEN Idle ELSE job[v]
  BY DEF Finish, TypeOK
<1>2. CASE v = w
  BY <1>1, <1>2 DEF JobHoldsRow, Idle
<1>3. CASE v # w
  <2>1. job'[v] = job[v]
    BY <1>1, <1>3
  <2>2. job[v].at \in {"migrating", "updating", "deleting"}
          => job[v].table # job[w].table
    BY <1>3, StaffApart
  <2>3. JobHoldsRow(job[v]) /\ JobFollowsSession(job[v])
    BY DEF JobsHoldRows, DataInv, JobsFollowSession
  <2>4. job[v].at \in {"updating", "deleting"} => job[v].order \in orders'
    BY <2>2, <2>3 DEF JobHoldsRow, JobFollowsSession
  <2>5. job[v].at = "migrating" => job[v].moved \subseteq orders'
    BY <2>2, <2>3 DEF JobHoldsRow, JobFollowsSession
  <2> QED
    BY <2>1, <2>3, <2>4, <2>5 DEF JobHoldsRow
<1> QED
  BY <1>2, <1>3

-----------------------------------------------------------------------------
(* The four write transactions on orders. *)

LEMMA FateInsert ==
    ASSUME TypeOK, DataInv, FateInv, NEW w \in Workers, InsertOrder(w)
    PROVE  FateInv'
<1>1. PICK new :
        /\ new.uid = placed + 1
        /\ orders' = orders \cup {new}
  <2>1. PICK i \in 1 .. placed + 1 :
          orders' = orders \cup
            {[uid |-> placed + 1, id |-> i, number |-> job[w].number,
              table |-> job[w].table, session |-> job[w].session,
              status |-> "waiting"]}
    BY DEF InsertOrder
  <2> QED
    BY <2>1
<1>2. placed' = placed + 1 /\ history' = history /\ removed' = removed
  BY DEF InsertOrder
<1>3. /\ \A h \in history : h.uid # new.uid
      /\ \A u \in removed : u # new.uid
  BY <1>1 DEF DataInv, UidsBounded, FateInv, RemovedBounded, TypeOK, HistoryRow
<1>4. JobsHoldRows'
  <2>1. \A v \in Workers : job'[v] = IF v = w THEN Idle ELSE job[v]
    BY DEF InsertOrder, Finish, TypeOK
  <2> QED
    BY <1>1, <2>1 DEF FateInv, JobsHoldRows, JobHoldsRow, Idle
<1>5. RemovedBounded'
  BY <1>2 DEF FateInv, RemovedBounded, TypeOK
<1>6. OneFate'
  BY <1>1, <1>2, <1>3 DEF FateInv, OneFate, ArchivedOnce, DeletedNotArchived,
                          NotLiveAnyMore, Live, Archived
<1>7. NothingLost'
  <2> SUFFICES ASSUME NEW u \in 1 .. placed + 1
               PROVE  Live(u)' \/ Archived(u)' \/ u \in removed'
    BY <1>2 DEF NothingLost
  <2>1. CASE u = placed + 1
    BY <1>1, <2>1 DEF Live
  <2>2. CASE u \in 1 .. placed
    BY <1>1, <1>2, <2>2 DEF FateInv, NothingLost, Live, Archived
  <2> QED
    BY <2>1, <2>2 DEF TypeOK
<1> QED
  BY <1>4, <1>5, <1>6, <1>7 DEF FateInv

LEMMA FateClose ==
    ASSUME "staff" \in Exclusive, TypeOK, Excluded, DataInv, FateInv,
           NEW w \in Workers, CommitClose(w)
    PROVE  FateInv'
<1> DEFINE moved == job[w].moved
<1>1. moved \subseteq orders /\ \A m \in moved : m.table = job[w].table
  BY DEF CommitClose, FateInv, JobsHoldRows, JobHoldsRow, DataInv, JobsFollowSession,
         JobFollowsSession
<1>2. orders' = orders \ moved
  BY <1>1 DEF CommitClose, Unmoved, DataInv, KeysUnique
<1>3. placed' = placed /\ removed' = removed
  BY DEF CommitClose
<1>4. /\ history \subseteq history'
      /\ \A h \in history' : h \in history \/ \E m \in moved : h.uid = m.uid
      /\ \A m \in moved : \E h \in history' : h.uid = m.uid
  <2> DEFINE row(m) == [uid |-> m.uid, number |-> m.number, table |-> m.table,
                        session |-> job[w].session, closing |-> closings + 1]
  <2>1. history' = history \cup {row(m) : m \in moved}
    BY DEF CommitClose
  <2>2. \A m : row(m).uid = m.uid
    OBVIOUS
  <2> HIDE DEF row, moved
  <2>3. \A m \in moved : row(m) \in history'
    BY <2>1
  <2> QED
    BY <2>1, <2>2, <2>3
<1>5. \A g, h \in history' :
        g \notin history /\ h \notin history /\ g.uid = h.uid => g = h
  <2> SUFFICES ASSUME NEW g \in history', NEW h \in history',
                      g \notin history, h \notin history, g.uid = h.uid
               PROVE  g = h
    OBVIOUS
  <2>1. PICK m \in moved :
          g = [uid |-> m.uid, number |-> m.number, table |-> m.table,
               session |-> job[w].session, closing |-> closings + 1]
    BY DEF CommitClose
  <2>2. PICK n \in moved :
          h = [uid |-> n.uid, number |-> n.number, table |-> n.table,
               session |-> job[w].session, closing |-> closings + 1]
    BY DEF CommitClose
  <2>3. m = n
    BY <1>1, <2>1, <2>2 DEF DataInv, KeysUnique
  <2> QED
    BY <2>1, <2>2, <2>3
<1>6. \A m \in moved : ~Archived(m.uid) /\ m.uid \notin removed
  BY <1>1 DEF FateInv, OneFate, NotLiveAnyMore, Live, Archived
<1>7. JobsHoldRows'
  <2>1. \A o \in orders : o.table # job[w].table => o \in orders'
    BY <1>1, <1>2
  <2> QED
    BY <2>1, HoldsOthers DEF CommitClose, FateInv
<1>8. RemovedBounded'
  BY <1>3 DEF FateInv, RemovedBounded
<1>9. ArchivedOnce'
  BY <1>4, <1>5, <1>6 DEF FateInv, OneFate, ArchivedOnce, Archived
<1>10. DeletedNotArchived'
  BY <1>3, <1>4, <1>6 DEF FateInv, OneFate, DeletedNotArchived, Archived
<1>11. NotLiveAnyMore'
  <2>1. \A m \in moved, o \in orders' : o.uid # m.uid
    BY <1>1, <1>2 DEF DataInv, KeysUnique
  <2> QED
    BY <1>2, <1>3, <1>4, <2>1 DEF FateInv, OneFate, NotLiveAnyMore, Live
<1>12. NothingLost'
  BY <1>2, <1>3, <1>4 DEF FateInv, NothingLost, Live, Archived
<1> QED
  BY <1>7, <1>8, <1>9, <1>10, <1>11, <1>12 DEF FateInv, OneFate

LEMMA FateDelete ==
    ASSUME "staff" \in Exclusive, TypeOK, Excluded, DataInv, FateInv,
           NEW w \in Workers, DeleteOrder(w)
    PROVE  FateInv'
<1> DEFINE gone == job[w].order
<1>1. gone \in orders /\ gone.table = job[w].table /\ gone.uid <= placed
  BY DEF DeleteOrder, FateInv, JobsHoldRows, JobHoldsRow, DataInv, JobsFollowSession,
         JobFollowsSession
<1>2. orders' = orders \ {gone}
  BY <1>1 DEF DeleteOrder, DataInv, KeysUnique
<1>3. placed' = placed /\ history' = history /\ removed' = removed \cup {gone.uid}
  BY DEF DeleteOrder
<1>4. ~Archived(gone.uid) /\ \A o \in orders' : o.uid # gone.uid
  BY <1>1, <1>2 DEF FateInv, OneFate, NotLiveAnyMore, Live, Archived, DataInv, KeysUnique
<1>5. JobsHoldRows'
  <2>1. \A o \in orders : o.table # job[w].table => o \in orders'
    BY <1>1, <1>2
  <2> QED
    BY <2>1, HoldsOthers DEF DeleteOrder, FateInv
<1>6. RemovedBounded'
  BY <1>1, <1>3 DEF FateInv, RemovedBounded
<1>7. OneFate'
  BY <1>2, <1>3, <1>4 DEF FateInv, OneFate, ArchivedOnce, DeletedNotArchived,
                          NotLiveAnyMore, Live, Archived
<1>8. NothingLost'
  BY <1>2, <1>3 DEF FateInv, NothingLost, Live, Archived
<1> QED
  BY <1>5, <1>6, <1>7, <1>8 DEF FateInv

(* Staff's requests for a table one at a time find the row as it was.      *)
LEMMA UpdateIsFresh ==
    ASSUME FateInv, NEW w \in Workers, UpdateStatus(w)
    PROVE  job[w].order \in orders
  BY DEF UpdateStatus, FateInv, JobsHoldRows, JobHoldsRow

LEMMA FateUpdate ==
    ASSUME "staff" \in Exclusive, TypeOK, Excluded, DataInv, FateInv,
           NEW w \in Workers, UpdateStatus(w)
    PROVE  FateInv'
<1> DEFINE old == job[w].order
           new == WithStatus(job[w].order, job[w].next)
<1>1. old \in orders /\ old.table = job[w].table /\ orders' = (orders \ {old}) \cup {new}
  BY UpdateHitsRow, UpdateIsFresh
<1>2. new.uid = old.uid
  BY UpdateHitsRow, UpdateIsFresh, WithStatusFields DEF TypeOK
<1>3. placed' = placed /\ history' = history /\ removed' = removed
  BY DEF UpdateStatus
<1>4. \A u : Live(u)' <=> Live(u)
  BY <1>1, <1>2 DEF Live
<1>5. JobsHoldRows'
  <2>1. \A o \in orders : o.table # job[w].table => o \in orders'
    BY <1>1
  <2> QED
    BY <2>1, HoldsOthers DEF UpdateStatus, FateInv
<1> HIDE DEF old, new
<1>6. (RemovedBounded /\ OneFate /\ NothingLost)'
  BY <1>3, <1>4 DEF FateInv, RemovedBounded, OneFate, ArchivedOnce, DeletedNotArchived,
                    NotLiveAnyMore, NothingLost, Archived
<1> QED
  BY <1>5, <1>6 DEF FateInv

-----------------------------------------------------------------------------
LEMMA FateInvStep ==
    "staff" \in Exclusive /\ TypeOK /\ Excluded /\ DataInv /\ FateInv /\ [Next]_vars
      => FateInv'
<1> SUFFICES ASSUME "staff" \in Exclusive, TypeOK, Excluded, DataInv, FateInv, [Next]_vars
             PROVE  FateInv'
  OBVIOUS
<1>1. ASSUME NEW w \in Workers, NEW t \in Tables, FindSession(w, t)
      PROVE  FateInv'
  <2>1. PICK s \in Active(t) :
          Continue(w, [at |-> "numbering", table |-> t, session |-> s])
    BY <1>1 DEF FindSession
  <2>2. JobHoldsRow([at |-> "numbering", table |-> t, session |-> s])
    BY DEF JobHoldsRow
  <2> QED
    BY <1>1, <2>1, <2>2, FateContinue DEF FindSession
<1>2. ASSUME NEW w \in Workers, NEW t \in Tables, FindNoSession(w, t)
      PROVE  FateInv'
  <2>1. JobHoldsRow([at |-> "opening", table |-> t])
    BY DEF JobHoldsRow
  <2> QED
    BY <1>2, <2>1, FateContinue DEF FindNoSession
<1>3. ASSUME NEW w \in Workers, OpenSession(w)
      PROVE  FateInv'
  <2>1. \A v \in Workers :
          job'[v] = IF v = w THEN [at |-> "numbering", table |-> job[w].table,
                                   session |-> Len(session) + 1] ELSE job[v]
    BY <1>3 DEF OpenSession, Continue, TypeOK
  <2>2. JobsHoldRows'
    BY <1>3, <2>1 DEF OpenSession, FateInv, JobsHoldRows, JobHoldsRow
  <2>3. (RemovedBounded /\ OneFate /\ NothingLost)'
    BY <1>3 DEF OpenSession, FateInv, RemovedBounded, OneFate, ArchivedOnce,
                DeletedNotArchived, NotLiveAnyMore, NothingLost, Live, Archived
  <2> QED
    BY <2>2, <2>3 DEF FateInv
<1>4. ASSUME NEW w \in Workers, ReadNumber(w)
      PROVE  FateInv'
  <2>1. PICK n \in {0} \cup {o.number : o \in orders} :
          Continue(w, [at |-> "inserting", table |-> job[w].table,
                       session |-> job[w].session, number |-> n + 1])
    BY <1>4 DEF ReadNumber
  <2>2. JobHoldsRow([at |-> "inserting", table |-> job[w].table,
                     session |-> job[w].session, number |-> n + 1])
    BY DEF JobHoldsRow
  <2> QED
    BY <1>4, <2>1, <2>2, FateContinue DEF ReadNumber
<1>5. ASSUME NEW w \in Workers, NEW t \in Tables, FindSessionToClose(w, t)
      PROVE  FateInv'
  <2>1. PICK s \in Active(t) :
          Continue(w, [at |-> "loading", table |-> t, session |-> s])
    BY <1>5 DEF FindSessionToClose
  <2>2. JobHoldsRow([at |-> "loading", table |-> t, session |-> s])
    BY DEF JobHoldsRow
  <2> QED
    BY <1>5, <2>1, <2>2, FateContinue DEF FindSessionToClose
<1>6. ASSUME NEW w \in Workers, LoadOrders(w)
      PROVE  FateInv'
  <2>1. JobHoldsRow([at |-> "migrating", table |-> job[w].table,
                     session |-> job[w].session, moved |-> OrdersOf(job[w].session)])
    BY DEF JobHoldsRow, OrdersOf
  <2> QED
    BY <1>6, <2>1, FateContinue DEF LoadOrders
<1>7. ASSUME NEW w \in Workers, NEW o \in orders, NEW next \in Statuses,
             ReadForStatus(w, o, next)
      PROVE  FateInv'
  <2>1. JobHoldsRow([at |-> "updating", table |-> o.table, order |-> o, next |-> next])
    BY DEF JobHoldsRow
  <2> QED
    BY <1>7, <2>1, FateContinue DEF ReadForStatus
<1>8. ASSUME NEW w \in Workers, NEW o \in orders, ReadForDelete(w, o)
      PROVE  FateInv'
  <2>1. JobHoldsRow([at |-> "deleting", table |-> o.table, order |-> o])
    BY DEF JobHoldsRow
  <2> QED
    BY <1>8, <2>1, FateContinue DEF ReadForDelete
<1>9. ASSUME NEW w \in Workers,
             \/ RejectUnknownMenu(w) \/ NumberCollision(w)
             \/ UpdateMissesRow(w) \/ WriteFails(w)
      PROVE  FateInv'
  BY <1>9, FateFinish DEF RejectUnknownMenu, NumberCollision, UpdateMissesRow, WriteFails
<1>10. ASSUME NEW w \in Workers,
              InsertOrder(w) \/ CommitClose(w) \/ DeleteOrder(w) \/ UpdateStatus(w)
       PROVE  FateInv'
  BY <1>10, FateInsert, FateClose, FateDelete, FateUpdate
<1>11. CASE Restart
  BY <1>11 DEF Restart, dbvars, FateInv, JobsHoldRows, JobHoldsRow, Idle,
               RemovedBounded, OneFate, ArchivedOnce, DeletedNotArchived,
               NotLiveAnyMore, NothingLost, Live, Archived
<1>12. CASE UNCHANGED vars
  BY <1>12 DEF vars, FateInv, JobsHoldRows, JobHoldsRow, RemovedBounded, OneFate,
               ArchivedOnce, DeletedNotArchived, NotLiveAnyMore, NothingLost, Live,
               Archived
<1>13. QED
  BY <1>1, <1>2, <1>3, <1>4, <1>5, <1>6, <1>7, <1>8, <1>9, <1>10, <1>11, <1>12
     DEF Next, Customer, Staff, CloseConflicts

LEMMA FateInvInit == Init => FateInv
  BY DEF Init, FateInv, JobsHoldRows, JobHoldsRow, Idle, RemovedBounded, OneFate,
         ArchivedOnce, DeletedNotArchived, NotLiveAnyMore, NothingLost

(* Where staff's requests for a table never overlap, every accepted order  *)
(* is live, archived or deleted by staff: none is lost to a reused row id  *)
(* or a stale list of orders, although customers order at any moment.      *)
THEOREM OneStaffNothingLost ==
    ASSUME "staff" \in Exclusive
    PROVE  Spec => []NothingLost
<1>1. TypeOK /\ Excluded /\ DataInv /\ FateInv /\ [Next]_vars => FateInv'
  BY FateInvStep
<1>2. FateInv => NothingLost
  BY DEF FateInv
<1> QED
  BY <1>1, <1>2, FateInvInit, TypeCorrect, ExcludedInvariant, DataInvariant, PTL DEF Spec

(* ... and an order has one of these fates only, and has it once. *)
THEOREM OneStaffOneFate ==
    ASSUME "staff" \in Exclusive
    PROVE  Spec => []OneFate
<1>1. TypeOK /\ Excluded /\ DataInv /\ FateInv /\ [Next]_vars => FateInv'
  BY FateInvStep
<1>2. FateInv => OneFate
  BY DEF FateInv
<1> QED
  BY <1>1, <1>2, FateInvInit, TypeCorrect, ExcludedInvariant, DataInvariant, PTL DEF Spec

(* A step moves the status of a stored order along Allowed, or not at all. *)
LEMMA StatusStep ==
    ASSUME TypeOK, DataInv, FateInv, [Next]_vars,
           NEW o \in orders, NEW p \in orders', o.uid = p.uid, o.status # p.status
    PROVE  <<o.status, p.status>> \in Allowed
<1>1. ASSUME orders' \subseteq orders
      PROVE  FALSE
  BY <1>1 DEF DataInv, KeysUnique
<1>2. ASSUME NEW w \in Workers, UpdateStatus(w)
      PROVE  <<o.status, p.status>> \in Allowed
  <2> DEFINE old == job[w].order
             new == WithStatus(job[w].order, job[w].next)
  <2>1. /\ old \in orders
        /\ <<old.status, job[w].next>> \in Allowed
        /\ orders' = (orders \ {old}) \cup {new}
    BY <1>2, UpdateHitsRow, UpdateIsFresh
  <2>2. new.uid = old.uid /\ new.status = job[w].next
    BY <1>2, UpdateHitsRow, UpdateIsFresh, WithStatusFields DEF TypeOK
  <2> HIDE DEF old, new
  <2>3. p = new /\ o = old
    BY <2>1, <2>2 DEF DataInv, KeysUnique
  <2> QED
    BY <2>1, <2>2, <2>3
<1>3. ASSUME NEW w \in Workers, InsertOrder(w)
      PROVE  FALSE
  <2>1. PICK i \in 1 .. placed + 1 :
          orders' = orders \cup
            {[uid |-> placed + 1, id |-> i, number |-> job[w].number,
              table |-> job[w].table, session |-> job[w].session,
              status |-> "waiting"]}
    BY <1>3 DEF InsertOrder
  <2>2. o.uid # placed + 1
    BY DEF DataInv, UidsBounded, TypeOK, Order
  <2>3. p \in orders
    BY <2>1, <2>2
  <2> QED
    BY <2>3 DEF DataInv, KeysUnique
<1>4. ASSUME NEW w \in Workers, CommitClose(w) \/ DeleteOrder(w)
      PROVE  FALSE
  BY <1>1, <1>4 DEF CommitClose, Unmoved, DeleteOrder
<1>5. ASSUME NEW w \in Workers, OpenSession(w)
      PROVE  FALSE
  BY <1>1, <1>5 DEF OpenSession
<1>6. ASSUME UNCHANGED dbvars
      PROVE  FALSE
  BY <1>1, <1>6 DEF dbvars
<1>7. CASE Next
  BY <1>2, <1>3, <1>4, <1>5, <1>6, <1>7
     DEF Next, Customer, Staff, FindSession, FindNoSession, RejectUnknownMenu,
         ReadNumber, NumberCollision, CloseConflicts, FindSessionToClose, LoadOrders,
         ReadForStatus, UpdateMissesRow, ReadForDelete, WriteFails, Restart, vars, dbvars
<1> QED
  BY <1>6, <1>7 DEF vars, dbvars

(* ... and its status only moves on: to preparing, then to done.           *)
THEOREM OneStaffStatusForward ==
    ASSUME "staff" \in Exclusive
    PROVE  Spec => StatusForward
<1>1. TypeOK /\ Excluded /\ DataInv /\ FateInv /\ [Next]_vars => FateInv'
  BY FateInvStep
<1>2. TypeOK /\ DataInv /\ FateInv /\ [Next]_vars =>
        [\A o \in orders, p \in orders' :
           o.uid = p.uid /\ o.status # p.status => <<o.status, p.status>> \in Allowed]_vars
  BY StatusStep
<1> QED
  BY <1>1, <1>2, FateInvInit, TypeCorrect, ExcludedInvariant, DataInvariant, PTL
     DEF Spec, StatusForward
=============================================================================
