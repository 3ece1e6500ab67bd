------------------------------ MODULE OrderEvents ------------------------------
(* How committed changes of orders reach a dashboard: the events a request       *)
(* publishes after its commit, the broker's queue, the stream that greets with a *)
(* snapshot, the dashboard's own REST list, and the requests staff send from the *)
(* detail window.  The writes themselves are atomic here (TableOrders has their  *)
(* steps); items, prices and texts never change and are left out.                *)
EXTENDS Integers, Sequences, FiniteSets

CONSTANTS Tables,
          MaxOrders,  \* bound on orders placed
          MaxBreaks,  \* bound on losses of the stream, remounts and restarts
          Threads,    \* bound on requests between their commit and their event
          QueueMax,   \* _QUEUE_MAXSIZE
          Previews    \* orders of a table its card shows

ASSUME EventsAssumption == /\ MaxOrders \in Nat /\ MaxBreaks \in Nat
                           /\ Threads \in Nat /\ QueueMax \in Nat /\ Previews \in Nat

VARIABLES rows,     \* live orders of active sessions
          placed,   \* orders ever placed: the last uid
          closed,   \* uids archived by a close
          jobs,     \* committed changes whose request has not published yet
          spoiled,  \* history: row ids one of whose events may be lost or overtaken
          conn,     \* state of the stream
          snapshot, \* the snapshot frame on its way
          queue,    \* frames on their way behind it
          breaks,
          list,     \* state of the REST request for the list
          listed,   \* its answer
          shown, unseen, selected,  \* ordersById, unseen, selectedOrderId
          asked     \* the request of the detail window

server == <<rows, placed, closed, jobs, spoiled>>
stream == <<conn, snapshot, queue, breaks>>
rest   == <<list, listed>>
screen == <<shown, unseen, selected, asked>>
vars   == <<server, stream, rest, screen>>

Statuses == 0 .. 2  \* the ranks of STATUS_ORDER: waiting, being prepared, done
Row == [id : Nat \ {0}, uid : Nat \ {0}, table : Tables, status : Statuses]
NoRow == [id |-> 0]
Changes == {"created", "updated", "deleted"}
Frame == [type : Changes, row : Row]
NoRequest == [op |-> "none"]

Without(orders, id) == {o \in orders : o.id # id}
Upsert(orders, o) == Without(orders, o.id) \cup {o}
Ids(orders) == {o.id : o \in orders}

TypeOK == /\ rows \subseteq Row /\ placed \in Nat /\ closed \subseteq Nat
          /\ jobs \subseteq [type : Changes, row : Row, view : Row \cup {NoRow}]
          /\ spoiled \subseteq Nat
          /\ conn \in {"waiting", "opening", "registered", "greeted", "streaming"}
          /\ snapshot \subseteq Row /\ queue \in Seq(Frame) /\ breaks \in Nat
          /\ list \in {"asked", "answered", "done"} /\ listed \subseteq Row
          /\ shown \subseteq Row /\ unseen \subseteq Nat /\ selected \in Nat
          /\ asked \in {NoRequest} \cup
               [op : {"updated", "deleted"}, id : Nat, next : Statuses,
                answer : {"none", "ok", "error"}]

Init == /\ rows = {} /\ placed = 0 /\ closed = {} /\ jobs = {} /\ spoiled = {}
        /\ conn = "opening" /\ snapshot = {} /\ queue = <<>> /\ breaks = 0
        /\ list = "asked" /\ listed = {}
        /\ shown = {} /\ unseen = {} /\ selected = 0 /\ asked = NoRequest

-------------------------------------------------------------------------------
(* Commits.  The row id of a deleted last row is given out again.              *)

Spoil(ids) == spoiled' = spoiled \cup ids
Pending(id) == \E j \in jobs : j.row.id = id

(* Two requests that changed one row publish in either order: the broker's lock *)
(* orders neither the commits nor the reading back.                            *)
Committed(change, o) == /\ Cardinality(jobs) < Threads
                        /\ jobs' = jobs \cup {[type |-> change, row |-> o, view |-> NoRow]}
                        /\ Spoil({id \in {o.id} : Pending(id)})

Place(t) ==
  \E id \in 1 .. MaxOrders :
    /\ placed < MaxOrders
    /\ \A o \in rows : o.id < id
    /\ id > 1 => \E o \in rows : o.id = id - 1
    /\ LET new == [id |-> id, uid |-> placed + 1, table |-> t, status |-> 0] IN
         rows' = rows \cup {new} /\ Committed("created", new)
    /\ placed' = placed + 1
    /\ UNCHANGED closed

(* Mutant: the status goes the other way.                                     *)
OneBack(o) == [o EXCEPT !.status = o.status - 1]
Advanced(o) == [o EXCEPT !.status = o.status + 1]

ChangeStatus(o) == /\ o \in rows /\ o.status + 1 \in Statuses
                   /\ rows' = (rows \ {o}) \cup {Advanced(o)}
                   /\ Committed("updated", Advanced(o))
                   /\ UNCHANGED <<placed, closed>>

Delete(o) == /\ o \in rows
             /\ rows' = rows \ {o}
             /\ Committed("deleted", o)
             /\ UNCHANGED <<placed, closed>>

(* close_table's events have no store_id: the broker drops every one of them. *)
Close(t) == /\ \E o \in rows : o.table = t
            /\ rows' = {o \in rows : o.table # t}
            /\ closed' = closed \cup {o.uid : o \in {r \in rows : r.table = t}}
            /\ UNCHANGED <<placed, jobs, spoiled>>

-------------------------------------------------------------------------------
(* After the commit: the request reads the row back, then publishes it.        *)

Registered == conn \in {"registered", "greeted", "streaming"}

(* db.refresh by id, and for a new order the broker's lookup, which it skips   *)
(* when nobody listens.  A row that is gone ends the request without an event. *)
ReadBack(j) ==
  /\ j \in jobs /\ j.view = NoRow
  /\ LET found == {o \in rows : o.id = j.row.id} IN
       jobs' = (jobs \ {j}) \cup
         IF j.type = "deleted" THEN {[j EXCEPT !.view = j.row]}
         ELSE {[j EXCEPT !.view = o] : o \in {r \in found : j.type = "created" => Registered}}
  /\ UNCHANGED <<rows, placed, closed, spoiled, stream, rest, screen>>

ReadBackFails(j) == /\ j \in jobs /\ j.view = NoRow /\ j.type # "deleted"
                    /\ jobs' = jobs \ {j} /\ Spoil({j.row.id})
                    /\ UNCHANGED <<rows, placed, closed, stream, rest, screen>>

(* Mutant: the subscriber is registered once its snapshot has arrived.         *)
DeliveredWhenStreaming(frame) ==
  queue' = IF conn = "streaming" /\ Len(queue) < QueueMax THEN Append(queue, frame) ELSE queue

(* A full queue loses the frame and keeps the subscriber.                      *)
Full == Len(queue) >= QueueMax
Delivered(frame) == queue' = IF Registered /\ ~Full THEN Append(queue, frame) ELSE queue

Publish(j) == /\ j \in jobs /\ j.view # NoRow
              /\ jobs' = jobs \ {j}
              /\ Delivered([type |-> j.type, row |-> j.view])
              /\ Spoil({id \in {j.row.id} : Registered /\ Full})
              /\ UNCHANGED <<rows, placed, closed, conn, snapshot, breaks, rest, screen>>

-------------------------------------------------------------------------------
(* The stream.                                                                 *)

Subscribe == /\ conn = "opening"
             /\ conn' = "registered"
             /\ UNCHANGED <<server, snapshot, queue, breaks, rest, screen>>

OnTheWay(id) == Pending(id) \/ \E i \in DOMAIN queue : queue[i].row.id = id

(* What went wrong before it the snapshot mends, but not what is on the way.    *)
ReadSnapshot == /\ conn = "registered"
                /\ conn' = "greeted" /\ snapshot' = rows
                /\ spoiled' = {id \in spoiled : OnTheWay(id)}
                /\ UNCHANGED <<rows, placed, closed, jobs, queue, breaks, rest, screen>>

(* Mutant: marks of orders that are gone are kept.                             *)
ReplaceShownOnly == /\ conn = "greeted"
                    /\ conn' = "streaming" /\ snapshot' = {}
                    /\ shown' = snapshot
                    /\ UNCHANGED <<server, queue, breaks, rest, unseen, selected, asked>>

ReceiveSnapshot == /\ conn = "greeted"
                   /\ conn' = "streaming" /\ snapshot' = {}
                   /\ shown' = snapshot
                   /\ unseen' = unseen \cap Ids(snapshot)
                   /\ UNCHANGED <<server, queue, breaks, rest, selected, asked>>

Receive == /\ conn = "streaming" /\ queue # <<>>
           /\ queue' = Tail(queue)
           /\ LET o == Head(queue).row
                  type == Head(queue).type IN
                /\ shown' = IF type = "deleted" THEN Without(shown, o.id) ELSE Upsert(shown, o)
                /\ unseen' = CASE type = "created" -> unseen \cup {o.id}
                               [] type = "deleted" -> unseen \ {o.id}
                               [] OTHER -> unseen
           /\ UNCHANGED <<server, conn, snapshot, breaks, rest, selected, asked>>

Disconnected(state) == /\ breaks < MaxBreaks /\ breaks' = breaks + 1
                       /\ conn' = state /\ snapshot' = {} /\ queue' = <<>>

Break == Disconnected("waiting") /\ UNCHANGED <<server, rest, screen>>

Restart == /\ Disconnected("waiting") /\ jobs' = {}
           /\ list' = IF list = "asked" THEN "done" ELSE list
           /\ asked' = IF asked = NoRequest THEN NoRequest ELSE [asked EXCEPT !.answer = "error"]
           /\ UNCHANGED <<rows, placed, closed, spoiled, listed, shown, unseen, selected>>

(* Mutant: a stream that broke is not opened again.                            *)
ReopenNever == conn = "waiting" /\ breaks = 0 /\ conn' = "opening"
              /\ UNCHANGED <<server, snapshot, queue, breaks, rest, screen>>

Reopen == conn = "waiting" /\ conn' = "opening"
          /\ UNCHANGED <<server, snapshot, queue, breaks, rest, screen>>

-------------------------------------------------------------------------------
(* The dashboard's list, and leaving and entering the page.                    *)

AnswerList == /\ list = "asked" /\ list' = "answered" /\ listed' = rows
              /\ UNCHANGED <<server, stream, screen>>

(* Stream and list are requested together; a list that arrives while the stream *)
(* runs replaces what the stream has shown, and no event mends the difference. *)
ReceiveList == /\ list = "answered" /\ list' = "done" /\ listed' = {}
               /\ shown' = listed
               /\ Spoil({id \in Ids((listed \ shown) \cup (shown \ listed)) : conn = "streaming"})
               /\ UNCHANGED <<rows, placed, closed, jobs, stream, unseen, selected, asked>>

Remount == /\ Disconnected("opening")
           /\ list' = "asked" /\ listed' = {}
           /\ shown' = {} /\ unseen' = {} /\ selected' = 0
           /\ asked' = NoRequest  \* still pending, it goes on as one of Others
           /\ UNCHANGED server

-------------------------------------------------------------------------------
(* The detail window.                                                          *)

SelectedOrder == {o \in shown : o.id = selected}

OnCard(o) == Cardinality({n \in shown : n.table = o.table /\ n.uid > o.uid}) < Previews

OpenDetail(o) == /\ SelectedOrder = {} /\ o \in shown /\ OnCard(o)
                 /\ selected' = o.id /\ unseen' = unseen \ {o.id}
                 /\ UNCHANGED <<server, stream, rest, shown, asked>>

CloseDetail == /\ SelectedOrder # {} /\ selected' = 0
               /\ UNCHANGED <<server, stream, rest, shown, unseen, asked>>

(* Mutant: the window shows the new status at once.                            *)
AskOptimistically(op) ==
  /\ asked = NoRequest
  /\ \E o \in SelectedOrder :
       /\ o.status + 1 \in Statuses
       /\ asked' = [op |-> op, id |-> o.id, next |-> o.status + 1, answer |-> "none"]
       /\ shown' = Upsert(shown, Advanced(o))
  /\ UNCHANGED <<server, stream, rest, unseen, selected>>

(* The request names the row and, to advance it, the status after the one shown. *)
(* One request at a time: a second one while it is pending is not modelled.     *)
Ask(op) == /\ asked = NoRequest
           /\ \E o \in SelectedOrder, next \in Statuses :
                /\ next = IF op = "updated" THEN o.status + 1 ELSE 0
                /\ asked' = [op |-> op, id |-> o.id, next |-> next, answer |-> "none"]
           /\ UNCHANGED <<server, stream, rest, shown, unseen, selected>>

Target == {o \in rows : o.id = asked.id}
Advances(o) == o.status + 1 = asked.next

Serve == /\ asked # NoRequest /\ asked.answer = "none"
         /\ \/ /\ asked' = [asked EXCEPT !.answer = "ok"]
               /\ \E o \in Target :
                    \/ asked.op = "updated" /\ Advances(o) /\ ChangeStatus(o)
                    \/ asked.op = "deleted" /\ Delete(o)
            \/ /\ asked' = [asked EXCEPT !.answer = "error"]
               /\ \A o \in Target : asked.op = "updated" /\ ~Advances(o)
               /\ UNCHANGED server
         /\ UNCHANGED <<stream, rest, shown, unseen, selected>>

(* onClose closes whichever order is open when the answer arrives; an answer   *)
(* that is lost, like an error, leaves the window as it is.                    *)
Answered == /\ asked # NoRequest /\ asked.answer # "none"
            /\ \A j \in jobs : j.type = asked.op => j.row.id # asked.id
            /\ asked' = NoRequest
            /\ selected' \in IF asked.answer = "ok" THEN {0, selected} ELSE {selected}
            /\ UNCHANGED <<server, stream, rest, shown, unseen>>

-------------------------------------------------------------------------------
(* Other staff and customers write through requests of their own.              *)
Others == /\ \/ \E t \in Tables : Place(t) \/ Close(t)
             \/ \E o \in rows : ChangeStatus(o) \/ Delete(o)
          /\ UNCHANGED <<stream, rest, screen>>

Publishing == \E j \in jobs : ReadBack(j) \/ ReadBackFails(j) \/ Publish(j)
Streaming  == Subscribe \/ ReadSnapshot \/ ReceiveSnapshot \/ Receive \/ Reopen
Listing    == AnswerList \/ ReceiveList
Staff      == \/ \E o \in shown : OpenDetail(o)
              \/ CloseDetail \/ Serve \/ Answered
              \/ \E op \in {"updated", "deleted"} : Ask(op)

Next == Others \/ Publishing \/ Streaming \/ Listing \/ Staff \/ Break \/ Restart \/ Remount

(* Threads that hold a committed change go on, the browser reopens its stream  *)
(* and handles what arrives; nobody has to order or click.                     *)
Fairness == WF_vars(Publishing) /\ WF_vars(Streaming) /\ WF_vars(Listing)
Spec == Init /\ [][Next]_vars /\ Fairness

-------------------------------------------------------------------------------
(* A dashboard, a list, a snapshot or an event on its way never shows an order *)
(* further on than it is stored: they are copies made after commits.           *)
Copies == shown \cup listed \cup snapshot \cup {queue[i].row : i \in DOMAIN queue}
            \cup ({j.view : j \in jobs} \ {NoRow})
NeverAhead == \A c \in Copies, o \in rows :
                c.uid = o.uid => c.status <= o.status /\ c.id = o.id /\ c.table = o.table

(* While the stream runs, every order marked as new is shown (the reducer's     *)
(* snapshot branch drops the marks of orders that are gone), unless a list that *)
(* arrived late, or an event that was lost, took the order off the screen.      *)
UnseenShown == conn = "streaming" => unseen \subseteq Ids(shown) \cup spoiled

Quiet == conn = "streaming" /\ queue = <<>> /\ jobs = {} /\ list = "done"
Follows(o) == o \in shown \/ o.id \in spoiled

(* Once everything sent has arrived, every stored order is shown as it is       *)
(* stored, and an order shown that is not stored was archived by a close, whose *)
(* events the broker drops: subscribing before the snapshot is read loses       *)
(* nothing.  Excepted are the orders that a full queue, a list that came late,  *)
(* a request that failed after its commit or two requests at once have spoiled  *)
(* since the last snapshot, and no others: everything else heals by itself.     *)
StoredIsShown ==
  Quiet => /\ \A o \in rows : Follows(o)
           /\ \A o \in shown \ rows : o.uid \in closed \/ o.id \in spoiled

(* The dashboard converges: after the last change, break or restart the stream *)
(* is opened again and the stored orders are shown, the spoiled ones excepted. *)
Converges == <>[](Quiet /\ \A o \in rows : Follows(o))

================================================================================
