--------------------------- MODULE OrderEventsProofs ---------------------------
(* What holds of OrderEvents for any tables, queue, number of threads, orders and *)
(* breaks, and with failing requests and frames that are lost: nothing sent or    *)
(* shown is further on than what is stored; every order marked as new is shown,   *)
(* and the dashboard comes to show what is stored, but for the orders that a late *)
(* list, a full queue, a failure or two requests at once have spoiled since the   *)
(* last snapshot.                                                                 *)
EXTENDS OrderEvents, SequenceTheorems, TLAPS

Job == [type : Changes, row : Row, view : Row \cup {NoRow}]
ServerTyped == rows \subseteq Row /\ placed \in Nat /\ closed \subseteq Nat /\ jobs \subseteq Job
               /\ spoiled \subseteq Nat

(* A write of the server, by whoever asked for it.                                *)
Write == \/ \E t \in Tables : Place(t) \/ Close(t)
         \/ \E o \in rows : ChangeStatus(o) \/ Delete(o)

FrameRows(frames) == {frames[i].row : i \in DOMAIN frames}

--------------------------------------------------------------------------------
(* Frames on their way.                                                           *)

LEMMA AppendRows ==
  ASSUME NEW frames \in Seq(Frame), NEW frame \in Frame
  PROVE  FrameRows(Append(frames, frame)) \subseteq FrameRows(frames) \cup {frame.row}
<1> DEFINE longer == Append(frames, frame)
<1>1. DOMAIN longer = 1 .. Len(frames) + 1 /\ DOMAIN frames = 1 .. Len(frames)
  OBVIOUS
<1>2. \A i \in DOMAIN longer : longer[i] = IF i = Len(frames) + 1 THEN frame ELSE frames[i]
  OBVIOUS
<1>3. ASSUME NEW i \in DOMAIN longer
      PROVE  longer[i].row \in FrameRows(frames) \cup {frame.row}
  BY <1>1, <1>2 DEF FrameRows
<1> QED
  BY <1>3 DEF FrameRows

LEMMA TailRows ==
  ASSUME NEW frames \in Seq(Frame), frames # <<>>
  PROVE  /\ FrameRows(Tail(frames)) \subseteq FrameRows(frames)
         /\ Head(frames) \in Frame /\ Head(frames).row \in FrameRows(frames)
         /\ Tail(frames) \in Seq(Frame)
<1>1. /\ DOMAIN frames = 1 .. Len(frames) /\ Len(frames) \in Nat \ {0}
      /\ DOMAIN Tail(frames) = 1 .. Len(frames) - 1
      /\ Head(frames) = frames[1] /\ Tail(frames) \in Seq(Frame)
  OBVIOUS
<1>2. \A i \in DOMAIN Tail(frames) : i + 1 \in DOMAIN frames /\ Tail(frames)[i] = frames[i + 1]
  OBVIOUS
<1>3. 1 \in DOMAIN frames /\ frames[1] \in Frame
  BY <1>1
<1> QED
  BY <1>1, <1>2, <1>3 DEF FrameRows

LEMMA DeliveredRows ==
  ASSUME queue \in Seq(Frame), NEW frame \in Frame, Delivered(frame)
  PROVE  queue' \in Seq(Frame) /\ FrameRows(queue') \subseteq FrameRows(queue) \cup {frame.row}
BY AppendRows DEF Delivered

--------------------------------------------------------------------------------
(* Typing.                                                                        *)

LEMMA AdvancedTyped ==
  ASSUME NEW o \in Row, o.status + 1 \in Statuses
  PROVE  /\ Advanced(o) \in Row /\ Advanced(o).status = o.status + 1
         /\ Advanced(o).uid = o.uid /\ Advanced(o).id = o.id /\ Advanced(o).table = o.table
BY DEF Row, Advanced

LEMMA CommittedTyped ==
  ASSUME ServerTyped, NEW o \in Row, NEW change \in Changes, Committed(change, o)
  PROVE  jobs' \subseteq Job /\ spoiled' \subseteq Nat
<1>1. o.id \in Nat
  BY DEF Row
<1>2. jobs' \subseteq Job
  BY DEF ServerTyped, Committed, Job
<1>3. spoiled' \subseteq Nat
  BY <1>1 DEF ServerTyped, Committed, Spoil
<1> QED
  BY <1>2, <1>3

LEMMA WriteTyped ==
  ASSUME ServerTyped, Write
  PROVE  ServerTyped'
<1>1. ASSUME NEW t \in Tables, Place(t) PROVE ServerTyped'
  <2>1. PICK id \in 1 .. MaxOrders :
          /\ rows' = rows \cup {[id |-> id, uid |-> placed + 1, table |-> t, status |-> 0]}
          /\ Committed("created", [id |-> id, uid |-> placed + 1, table |-> t, status |-> 0])
    BY <1>1 DEF Place
  <2>2. [id |-> id, uid |-> placed + 1, table |-> t, status |-> 0] \in Row
    BY EventsAssumption DEF Row, Statuses, ServerTyped
  <2>3. jobs' \subseteq Job /\ spoiled' \subseteq Nat
    BY <2>1, <2>2, CommittedTyped DEF Changes
  <2> QED
    BY <1>1, <2>1, <2>2, <2>3 DEF Place, ServerTyped
<1>2. ASSUME NEW t \in Tables, Close(t) PROVE ServerTyped'
  BY <1>2 DEF Close, ServerTyped, Row
<1>3. ASSUME NEW o \in rows, ChangeStatus(o) PROVE ServerTyped'
  <2>1. Advanced(o) \in Row
    BY <1>3, AdvancedTyped DEF ChangeStatus, ServerTyped
  <2>2. jobs' \subseteq Job /\ spoiled' \subseteq Nat
    BY <1>3, <2>1, CommittedTyped DEF ChangeStatus, Changes
  <2> QED
    BY <1>3, <2>1, <2>2 DEF ChangeStatus, ServerTyped
<1>4. ASSUME NEW o \in rows, Delete(o) PROVE ServerTyped'
  <2>1. jobs' \subseteq Job /\ spoiled' \subseteq Nat
    BY <1>4, CommittedTyped DEF Delete, Changes, ServerTyped
  <2> QED
    BY <1>4, <2>1 DEF Delete, ServerTyped
<1> QED
  BY <1>1, <1>2, <1>3, <1>4 DEF Write

(* What is read back is the row stored under the id, or the one deleted.          *)
LEMMA ReadBackJobs ==
  ASSUME ServerTyped, NEW j \in jobs, ReadBack(j)
  PROVE  /\ jobs' \subseteq Job
         /\ \A k \in jobs' : k.row \in {i.row : i \in jobs}
                          /\ k.view \in {i.view : i \in jobs} \cup rows \cup {j.row}
<1>1. j \in Job
  BY DEF ServerTyped
<1>2. \A o \in Row : /\ [j EXCEPT !.view = o] \in Job
                     /\ [j EXCEPT !.view = o].row = j.row
                     /\ [j EXCEPT !.view = o].view = o
  BY <1>1 DEF Job
<1>3. ASSUME NEW k \in jobs'
      PROVE  k \in jobs \/ \E o \in rows \cup {j.row} : k = [j EXCEPT !.view = o]
  <2>1. CASE j.type = "deleted"
    <3>1. jobs' = (jobs \ {j}) \cup {[j EXCEPT !.view = j.row]}
      BY <2>1 DEF ReadBack
    <3> QED
      BY <3>1
  <2>2. CASE j.type # "deleted"
    <3> DEFINE answer == {r \in {o \in rows : o.id = j.row.id} :
                            j.type = "created" => Registered}
    <3>1. jobs' = (jobs \ {j}) \cup {[j EXCEPT !.view = o] : o \in answer}
      BY <2>2 DEF ReadBack
    <3>2. answer \subseteq rows
      OBVIOUS
    <3> HIDE DEF answer
    <3> QED
      BY <3>1, <3>2
  <2> QED
    BY <2>1, <2>2
<1>4. j.row \in Row /\ rows \subseteq Row /\ jobs \subseteq Job
  BY <1>1 DEF Job, ServerTyped
<1>5. ASSUME NEW k \in jobs'
      PROVE  /\ k \in Job /\ k.row \in {i.row : i \in jobs}
             /\ k.view \in {i.view : i \in jobs} \cup rows \cup {j.row}
  <2>1. CASE k \in jobs
    BY <2>1, <1>4
  <2>2. ASSUME NEW o \in rows \cup {j.row}, k = [j EXCEPT !.view = o]
        PROVE  k \in Job /\ k.row = j.row /\ k.view = o
    <3>1. o \in Row
      BY <1>4
    <3> QED
      BY <1>2, <2>2, <3>1
  <2> QED
    BY <1>3, <2>1, <2>2
<1> QED
  BY <1>5

LEMMA InitTyped == Init => TypeOK
BY DEF Init, TypeOK, Frame

LEMMA TypeStep == TypeOK /\ [Next]_vars => TypeOK'
<1> SUFFICES ASSUME TypeOK, [Next]_vars PROVE TypeOK'
  OBVIOUS
<1> DEFINE StreamTyped == /\ conn \in {"waiting", "opening", "registered", "greeted", "streaming"}
                          /\ snapshot \subseteq Row /\ queue \in Seq(Frame) /\ breaks \in Nat
           RestTyped == list \in {"asked", "answered", "done"} /\ listed \subseteq Row
           ShownTyped == shown \subseteq Row /\ unseen \subseteq Nat /\ selected \in Nat
           Asked == {NoRequest} \cup
                      [op : {"updated", "deleted"}, id : Nat, next : Statuses,
                       answer : {"none", "ok", "error"}]
<1>0. TypeOK <=> ServerTyped /\ StreamTyped /\ RestTyped /\ ShownTyped /\ asked \in Asked
  BY DEF TypeOK, ServerTyped, Job
<1>00. TypeOK' <=> /\ ServerTyped' /\ StreamTyped' /\ RestTyped' /\ ShownTyped'
                   /\ asked' \in Asked
  BY DEF TypeOK, ServerTyped, Job
<1>s. ASSUME UNCHANGED server PROVE ServerTyped'
  BY <1>0, <1>s DEF server, ServerTyped
<1>t. ASSUME UNCHANGED stream PROVE StreamTyped'
  BY <1>0, <1>t DEF stream
<1>r. ASSUME UNCHANGED rest PROVE RestTyped'
  BY <1>0, <1>r DEF rest
<1>i. \A o \in Row : o.id \in Nat
  BY DEF Row
<1>1. CASE UNCHANGED vars
  BY <1>0, <1>00, <1>1, <1>s, <1>t, <1>r DEF vars, screen
<1>2. CASE Others
  <2>1. Write
    BY <1>2 DEF Others, Write
  <2> QED
    BY <1>0, <1>00, <1>2, <2>1, <1>t, <1>r, WriteTyped DEF Others, screen
<1>3. ASSUME NEW j \in jobs, ReadBack(j) \/ ReadBackFails(j) PROVE TypeOK'
  <2>1. ServerTyped'
    BY <1>0, <1>3, ReadBackJobs DEF ReadBack, ReadBackFails, ServerTyped, Spoil, Job, Row
  <2> QED
    BY <1>0, <1>00, <1>3, <2>1, <1>t, <1>r DEF ReadBack, ReadBackFails, screen
<1>4. ASSUME NEW j \in jobs, Publish(j) PROVE TypeOK'
  <2>1. [type |-> j.type, row |-> j.view] \in Frame
    BY <1>0, <1>4 DEF Publish, ServerTyped, Job, Frame
  <2>2. queue' \in Seq(Frame)
    BY <1>0, <1>4, <2>1, DeliveredRows DEF Publish
  <2>3. ServerTyped'
    BY <1>0, <1>4 DEF Publish, ServerTyped, Spoil, Job, Row
  <2> QED
    BY <1>0, <1>00, <1>4, <2>2, <2>3, <1>r DEF Publish, screen
<1>5. CASE Subscribe \/ ReadSnapshot \/ Reopen
  BY <1>0, <1>00, <1>5, <1>s, <1>r DEF Subscribe, ReadSnapshot, Reopen, screen, ServerTyped
<1>6. CASE ReceiveSnapshot
  BY <1>0, <1>00, <1>6, <1>s, <1>r DEF ReceiveSnapshot
<1>7. CASE Receive
  <2>1. Head(queue).row \in Row /\ Head(queue).row.id \in Nat /\ Tail(queue) \in Seq(Frame)
    BY <1>0, <1>7, TailRows DEF Receive, Frame, Row
  <2>2. shown' \subseteq Row
    BY <1>0, <1>7, <2>1 DEF Receive, Without, Upsert
  <2>3. unseen' \subseteq Nat
    BY <1>0, <1>7, <2>1 DEF Receive
  <2> QED
    BY <1>0, <1>00, <1>7, <2>1, <2>2, <2>3, <1>s, <1>r DEF Receive
<1>8. CASE AnswerList
  BY <1>0, <1>00, <1>8, <1>s, <1>t DEF AnswerList, screen, ServerTyped
<1>17. CASE ReceiveList
  <2>1. spoiled' \subseteq Nat
    BY <1>0, <1>17, <1>i DEF ReceiveList, Spoil, Ids, ServerTyped
  <2> QED
    BY <1>0, <1>00, <1>17, <2>1, <1>t DEF ReceiveList, ServerTyped
<1>9. ASSUME NEW o \in shown, OpenDetail(o) PROVE TypeOK'
  BY <1>0, <1>00, <1>9, <1>s, <1>t, <1>r, <1>i DEF OpenDetail
<1>10. CASE CloseDetail
  BY <1>0, <1>00, <1>10, <1>s, <1>t, <1>r DEF CloseDetail
<1>11. CASE Serve
  <2>1. asked \in [op : {"updated", "deleted"}, id : Nat, next : Statuses,
                       answer : {"none", "ok", "error"}]
    BY <1>0, <1>11 DEF Serve
  <2>2. asked' \in Asked
    BY <1>11, <2>1 DEF Serve
  <2>3. Write \/ UNCHANGED server
    BY <1>11 DEF Serve, Target, Write
  <2> QED
    BY <1>0, <1>00, <1>11, <2>2, <2>3, <1>s, <1>t, <1>r, WriteTyped DEF Serve
<1>12. CASE Answered
  BY <1>0, <1>00, <1>12, <1>s, <1>t, <1>r DEF Answered
<1>13. ASSUME NEW op \in {"updated", "deleted"}, Ask(op) PROVE TypeOK'
  BY <1>0, <1>00, <1>13, <1>s, <1>t, <1>r DEF Ask, SelectedOrder
<1>14. CASE Break
  BY <1>0, <1>00, <1>14, <1>s, <1>r DEF Break, Disconnected, screen
<1>15. CASE Restart
  <2>1. asked' \in Asked
    BY <1>0, <1>15 DEF Restart
  <2> QED
    BY <1>0, <1>00, <1>15, <2>1 DEF Restart, Disconnected, ServerTyped
<1>16. CASE Remount
  BY <1>0, <1>00, <1>16, <1>s DEF Remount, Disconnected
<1> QED
  BY <1>1, <1>2, <1>3, <1>4, <1>5, <1>6, <1>7, <1>8, <1>9, <1>10, <1>11, <1>12, <1>13, <1>14,
     <1>15, <1>16, <1>17 DEF Next, Publishing, Streaming, Listing, Staff

--------------------------------------------------------------------------------
(* Copies.  Every copy, also one a request has yet to read back, is of an order   *)
(* ever placed and not further on than the stored one; stored orders differ in    *)
(* identity, although row ids come again.                                         *)

Held == Copies \cup {j.row : j \in jobs}
Behind(c, o) == c.uid = o.uid => c.status <= o.status /\ c.id = o.id /\ c.table = o.table
HeldBehind == \A c \in Held : c.uid <= placed /\ \A o \in rows : Behind(c, o)
RowsApart == \A o \in rows : o.uid <= placed /\ \A p \in rows : o.uid = p.uid => o = p
CopyInv == HeldBehind /\ RowsApart

(* A row stored after a write is a new order, or one stored before, not further   *)
(* back than it was.                                                              *)
RowsGoOn == /\ placed' \in Nat /\ placed <= placed'
            /\ \A p \in rows' : \/ placed < p.uid
                                \/ \E o \in rows : Behind(o, p) /\ o.uid = p.uid

LEMMA CopiesHeld ==
  /\ shown \subseteq Held /\ listed \subseteq Held /\ snapshot \subseteq Held
  /\ FrameRows(queue) \subseteq Held
  /\ \A j \in jobs : j.row \in Held /\ (j.view # NoRow => j.view \in Held)
BY DEF Held, Copies, FrameRows

LEMMA HeldNext ==
  ASSUME NEW S, shown' \subseteq S, listed' \subseteq S, snapshot' \subseteq S,
         FrameRows(queue') \subseteq S,
         \A j \in jobs' : j.row \in S /\ (j.view # NoRow => j.view \in S)
  PROVE  Held' \subseteq S
BY DEF Held, Copies, FrameRows

LEMMA HeldTyped == TypeOK => Held \subseteq Row
<1> SUFFICES ASSUME TypeOK PROVE Held \subseteq Row
  OBVIOUS
<1>1. FrameRows(queue) \subseteq Row
  <2>1. \A i \in DOMAIN queue : queue[i] \in Frame
    BY DEF TypeOK
  <2> QED
    BY <2>1 DEF FrameRows, Frame
<1>2. \A j \in jobs : j.row \in Row /\ (j.view # NoRow => j.view \in Row)
  BY DEF TypeOK
<1> QED
  BY <1>1, <1>2 DEF TypeOK, Held, Copies, FrameRows

LEMMA StillBehind ==
  ASSUME TypeOK, TypeOK', CopyInv, RowsGoOn, RowsApart', Held' \subseteq Held \cup rows \cup rows'
  PROVE  CopyInv'
<1>1. ASSUME NEW c \in Held \cup rows, NEW p \in rows' PROVE c.uid <= placed' /\ Behind(c, p)
  <2>1. c \in Row /\ p \in Row /\ placed \in Nat /\ c.uid <= placed
    BY HeldTyped DEF TypeOK, CopyInv, HeldBehind, RowsApart
  <2>2. \A o \in rows : o \in Row /\ Behind(c, o)
    BY <2>1 DEF TypeOK, CopyInv, HeldBehind, RowsApart, Behind, Row, Statuses
  <2> QED
    BY <2>1, <2>2 DEF RowsGoOn, Behind, Row, Statuses
<1>2. ASSUME NEW c \in rows', NEW p \in rows' PROVE c.uid <= placed' /\ Behind(c, p)
  BY DEF TypeOK, RowsApart, Behind, Row, Statuses
<1>3. ASSUME NEW c \in Held' PROVE c.uid <= placed'
  <2>1. CASE c \in rows'
    BY <2>1 DEF RowsApart
  <2>2. CASE c \in Held \cup rows
    <3>1. c \in Row /\ c.uid <= placed /\ placed \in Nat
      BY <2>2, HeldTyped DEF TypeOK, CopyInv, HeldBehind, RowsApart
    <3> QED
      BY <3>1 DEF RowsGoOn, Row
  <2> QED
    BY <2>1, <2>2
<1> QED
  BY <1>1, <1>2, <1>3 DEF CopyInv, HeldBehind

(* A step that leaves the stored orders alone and makes copies of them or of      *)
(* copies.                                                                        *)
LEMMA CopyStep ==
  ASSUME TypeOK, TypeOK', CopyInv, UNCHANGED <<rows, placed>>, Held' \subseteq Held \cup rows
  PROVE  CopyInv'
<1>1. RowsApart'
  BY DEF CopyInv, RowsApart
<1>2. \A o \in rows : Behind(o, o)
  BY DEF TypeOK, Behind, Row, Statuses
<1>3. RowsGoOn
  BY <1>2 DEF RowsGoOn, TypeOK
<1> QED
  BY <1>1, <1>3, StillBehind

(* A write sends the row it has stored or deleted on its way.                     *)
LEMMA WriteStep ==
  ASSUME TypeOK, TypeOK', CopyInv, Write, UNCHANGED <<shown, listed, snapshot, queue>>
  PROVE  CopyInv'
<1> DEFINE S == Held \cup rows \cup rows'
<1>0. \A o \in rows : o \in Row /\ o.uid \in Nat /\ o.status \in Nat /\ Behind(o, o)
  BY DEF TypeOK, Behind, Row, Statuses
<1>00. placed \in Nat /\ placed' \in Nat
  BY DEF TypeOK
<1>h. ASSUME \A j \in jobs' : j \in jobs \/ (j.row \in S /\ j.view = NoRow)
      PROVE  Held' \subseteq S
  <2>1. shown' \subseteq S /\ listed' \subseteq S /\ snapshot' \subseteq S
        /\ FrameRows(queue') \subseteq S
    BY CopiesHeld DEF FrameRows
  <2>2. \A j \in jobs' : j.row \in S /\ (j.view # NoRow => j.view \in S)
    BY <1>h, CopiesHeld
  <2> HIDE DEF S
  <2> QED
    BY <2>1, <2>2, HeldNext
<1>1. ASSUME NEW t \in Tables, Place(t) PROVE CopyInv'
  <2>1. PICK id \in 1 .. MaxOrders :
          /\ rows' = rows \cup {[id |-> id, uid |-> placed + 1, table |-> t, status |-> 0]}
          /\ Committed("created", [id |-> id, uid |-> placed + 1, table |-> t, status |-> 0])
    BY <1>1 DEF Place
  <2> DEFINE new == [id |-> id, uid |-> placed + 1, table |-> t, status |-> 0]
  <2>2. new \in rows' /\ new.uid = placed + 1 /\ placed' = placed + 1
    BY <1>1, <2>1 DEF Place
  <2>3. \A j \in jobs' : j \in jobs \/ (j.row = new /\ j.view = NoRow)
    BY <2>1 DEF Committed
  <2>4. rows' = rows \cup {new}
    BY <2>1
  <2> HIDE DEF new
  <2>5. Held' \subseteq S
    BY <1>h, <2>2, <2>3
  <2>6. RowsGoOn
    BY <1>0, <1>00, <2>2, <2>4 DEF RowsGoOn
  <2>7. RowsApart'
    BY <1>0, <1>00, <2>2, <2>4 DEF CopyInv, RowsApart
  <2> QED
    BY <2>5, <2>6, <2>7, StillBehind
<1>2. ASSUME NEW t \in Tables, Close(t) PROVE CopyInv'
  <2>1. rows' \subseteq rows /\ placed' = placed /\ jobs' = jobs
    BY <1>2 DEF Close
  <2>2. Held' \subseteq S
    BY <1>h, <2>1
  <2>3. RowsGoOn /\ RowsApart'
    BY <1>0, <1>00, <2>1 DEF RowsGoOn, RowsApart, CopyInv
  <2> QED
    BY <2>2, <2>3, StillBehind
<1>3. ASSUME NEW o \in rows, ChangeStatus(o) PROVE CopyInv'
  <2>1. /\ rows' = (rows \ {o}) \cup {Advanced(o)} /\ placed' = placed
        /\ Committed("updated", Advanced(o)) /\ o.status + 1 \in Statuses
    BY <1>3 DEF ChangeStatus
  <2>2. /\ Advanced(o).status = o.status + 1 /\ Advanced(o).uid = o.uid
        /\ Advanced(o).id = o.id /\ Advanced(o).table = o.table
    BY <1>0, <2>1, AdvancedTyped
  <2>3. Behind(o, Advanced(o))
    BY <1>0, <2>2 DEF Behind
  <2>4. \A j \in jobs' : j \in jobs \/ (j.row = Advanced(o) /\ j.view = NoRow)
    BY <2>1 DEF Committed
  <2>5. Held' \subseteq S
    BY <1>h, <2>1, <2>4
  <2>6. RowsGoOn
    BY <1>0, <1>00, <2>1, <2>2, <2>3 DEF RowsGoOn
  <2>7. RowsApart'
    BY <1>0, <1>00, <2>1, <2>2 DEF CopyInv, RowsApart
  <2> QED
    BY <2>5, <2>6, <2>7, StillBehind
<1>4. ASSUME NEW o \in rows, Delete(o) PROVE CopyInv'
  <2>1. rows' \subseteq rows /\ placed' = placed /\ Committed("deleted", o)
    BY <1>4 DEF Delete
  <2>2. \A j \in jobs' : j \in jobs \/ (j.row = o /\ j.view = NoRow)
    BY <2>1 DEF Committed
  <2>3. Held' \subseteq S
    BY <1>h, <2>2
  <2>4. RowsGoOn /\ RowsApart'
    BY <1>0, <1>00, <2>1 DEF RowsGoOn, RowsApart, CopyInv
  <2> QED
    BY <2>3, <2>4, StillBehind
<1> QED
  BY <1>1, <1>2, <1>3, <1>4 DEF Write

LEMMA CopyInvStep == TypeOK /\ CopyInv /\ [Next]_vars => CopyInv'
<1> SUFFICES ASSUME TypeOK, CopyInv, [Next]_vars PROVE CopyInv'
  OBVIOUS
<1>0. TypeOK'
  BY TypeStep
<1> DEFINE S == Held \cup rows
<1>h. ASSUME UNCHANGED <<rows, placed>>,
             shown' \subseteq S, listed' \subseteq S, snapshot' \subseteq S,
             FrameRows(queue') \subseteq S,
             \A j \in jobs' : j.row \in S /\ (j.view # NoRow => j.view \in S)
      PROVE  CopyInv'
  <2>1. Held' \subseteq S
    <3> HIDE DEF S
    <3> QED
      BY <1>h, HeldNext
  <2> QED
    BY <1>0, <1>h, <2>1, CopyStep
<1>1. CASE UNCHANGED vars
  BY <1>1, <1>h, CopiesHeld DEF vars, server, stream, rest, screen
<1>2. CASE Others
  BY <1>0, <1>2, WriteStep DEF Others, Write, stream, rest, screen
<1>3. ASSUME NEW j \in jobs, ReadBack(j) PROVE CopyInv'
  <2>1. ServerTyped
    BY DEF TypeOK, ServerTyped, Job
  <2>2. \A k \in jobs' : k.row \in {i.row : i \in jobs}
                       /\ k.view \in {i.view : i \in jobs} \cup rows \cup {j.row}
    BY <1>3, <2>1, ReadBackJobs
  <2>3. \A k \in jobs' : k.row \in S /\ (k.view # NoRow => k.view \in S)
    BY <2>2, CopiesHeld
  <2> QED
    BY <1>3, <2>3, <1>h, CopiesHeld DEF ReadBack, stream, rest, screen
<1>4. ASSUME NEW j \in jobs, ReadBackFails(j) PROVE CopyInv'
  BY <1>4, <1>h, CopiesHeld DEF ReadBackFails, stream, rest, screen
<1>5. ASSUME NEW j \in jobs, Publish(j) PROVE CopyInv'
  <2>1. [type |-> j.type, row |-> j.view] \in Frame /\ queue \in Seq(Frame)
    BY <1>5 DEF Publish, TypeOK, Frame
  <2>2. FrameRows(queue') \subseteq FrameRows(queue) \cup {j.view}
    BY <1>5, <2>1, DeliveredRows DEF Publish
  <2>3. j.view \in S
    BY <1>5, CopiesHeld DEF Publish
  <2> QED
    BY <1>5, <2>2, <2>3, <1>h, CopiesHeld DEF Publish, rest, screen
<1>6. CASE Subscribe \/ Reopen \/ CloseDetail \/ Answered
  BY <1>6, <1>h, CopiesHeld DEF Subscribe, Reopen, CloseDetail, Answered, server, stream, rest,
     screen
<1>7. CASE ReadSnapshot
  BY <1>7, <1>h, CopiesHeld DEF ReadSnapshot, server, rest, screen
<1>8. CASE ReceiveSnapshot
  BY <1>8, <1>h, CopiesHeld DEF ReceiveSnapshot, server, rest
<1>9. CASE Receive
  <2>1. /\ FrameRows(queue') \subseteq FrameRows(queue)
        /\ Head(queue).row \in FrameRows(queue)
    BY <1>9, TailRows DEF Receive, TypeOK
  <2>2. shown' \subseteq shown \cup {Head(queue).row}
    BY <1>9 DEF Receive, Without, Upsert
  <2> QED
    BY <1>9, <2>1, <2>2, <1>h, CopiesHeld DEF Receive, server, rest
<1>10. CASE AnswerList \/ ReceiveList
  BY <1>10, <1>h, CopiesHeld DEF AnswerList, ReceiveList, server, stream, screen
<1>11. ASSUME NEW o \in shown, OpenDetail(o) PROVE CopyInv'
  BY <1>11, <1>h, CopiesHeld DEF OpenDetail, server, stream, rest
<1>12. ASSUME NEW op \in {"updated", "deleted"}, Ask(op) PROVE CopyInv'
  BY <1>12, <1>h, CopiesHeld DEF Ask, server, stream, rest
<1>13. CASE Serve
  <2>1. CASE Write
    BY <1>0, <1>13, <2>1, WriteStep DEF Serve, stream, rest
  <2>2. CASE UNCHANGED server
    BY <1>13, <2>2, <1>h, CopiesHeld DEF Serve, server, stream, rest
  <2> QED
    BY <1>13, <2>1, <2>2 DEF Serve, Target, Write
<1>14. CASE Break \/ Restart \/ Remount
  <2>1. FrameRows(<<>>) = {}
    BY DEF FrameRows
  <2> QED
    BY <1>14, <2>1, <1>h, CopiesHeld DEF Break, Restart, Remount, Disconnected, server, rest,
       screen
<1> QED
  BY <1>1, <1>2, <1>3, <1>4, <1>5, <1>6, <1>7, <1>8, <1>9, <1>10, <1>11, <1>12, <1>13, <1>14
     DEF Next, Publishing, Streaming, Listing, Staff

LEMMA InitCopies == Init => CopyInv
BY DEF Init, CopyInv, HeldBehind, RowsApart, Held, Copies

--------------------------------------------------------------------------------
(* Marks.  A snapshot drops the marks of orders it does not have, and what takes  *)
(* a marked order off the screen later, but for an event, spoils its id.          *)

LEMMA SpoiledGrows == ASSUME NEW ids, Spoil(ids) PROVE spoiled \subseteq spoiled'
BY DEF Spoil

LEMMA WriteSpoils == ASSUME Write PROVE spoiled \subseteq spoiled'
BY DEF Write, Place, Close, ChangeStatus, Delete, Committed, Spoil

LEMMA MarkStep == UnseenShown /\ [Next]_vars => UnseenShown'
<1> SUFFICES ASSUME UnseenShown, [Next]_vars, conn' = "streaming"
             PROVE  unseen' \subseteq Ids(shown') \cup spoiled'
  BY DEF UnseenShown, Ids
<1> DEFINE Goal == unseen' \subseteq Ids(shown') \cup spoiled'
<1>a. ASSUME conn' = conn, shown' = shown, unseen' \subseteq unseen, spoiled \subseteq spoiled'
      PROVE  Goal
  BY <1>a DEF UnseenShown, Ids
<1>1. CASE UNCHANGED vars
  BY <1>1, <1>a DEF vars, server, stream, rest, screen
<1>2. CASE Others
  BY <1>2, <1>a, WriteSpoils DEF Others, Write, stream, rest, screen
<1>3. CASE Publishing
  BY <1>3, <1>a, SpoiledGrows DEF Publishing, ReadBack, ReadBackFails, Publish, stream, rest, screen
<1>4. CASE Subscribe \/ ReadSnapshot \/ Reopen \/ Break \/ Restart \/ Remount
  BY <1>4 DEF Subscribe, ReadSnapshot, Reopen, Break, Restart, Remount, Disconnected
<1>5. CASE ReceiveSnapshot
  BY <1>5 DEF ReceiveSnapshot, Ids
<1>6. CASE Receive
  <2>0. unseen \subseteq Ids(shown) \cup spoiled /\ spoiled' = spoiled
    BY <1>6 DEF Receive, UnseenShown, server
  <2>1. CASE Head(queue).type = "deleted"
    BY <1>6, <2>0, <2>1 DEF Receive, Without, Ids
  <2>2. CASE Head(queue).type # "deleted"
    <3>1. unseen' \subseteq unseen \cup {Head(queue).row.id}
      BY <1>6, <2>2 DEF Receive
    <3>2. shown' = Without(shown, Head(queue).row.id) \cup {Head(queue).row}
      BY <1>6, <2>2 DEF Receive, Upsert
    <3> QED
      BY <2>0, <3>1, <3>2 DEF Without, Ids
  <2> QED
    BY <2>1, <2>2
<1>7. CASE AnswerList
  BY <1>7, <1>a DEF AnswerList, server, stream, screen
<1>8. CASE ReceiveList
  <2>1. /\ unseen' = unseen /\ unseen \subseteq Ids(shown) \cup spoiled
        /\ spoiled' = spoiled \cup Ids((listed \ shown) \cup (shown \ listed))
        /\ shown' = listed
    BY <1>8 DEF ReceiveList, UnseenShown, Spoil, stream
  <2> QED
    BY <2>1 DEF Ids
<1>9. CASE Staff
  <2>1. spoiled \subseteq spoiled'
    BY <1>9, WriteSpoils DEF Staff, OpenDetail, CloseDetail, Ask, Serve, Answered, server, Target,
       Write
  <2> QED
    BY <1>9, <2>1, <1>a DEF Staff, OpenDetail, CloseDetail, Ask, Serve, Answered, stream
<1> QED
  BY <1>1, <1>2, <1>3, <1>4, <1>5, <1>6, <1>7, <1>8, <1>9
     DEF Next, Streaming, Listing

--------------------------------------------------------------------------------
(* Catching up.  What the dashboard comes to show of an order, once everything     *)
(* sent has arrived, is its last frame in the queue or, without one, its copy in   *)
(* what the queue is applied to.                                                   *)

Base == IF conn = "registered" THEN rows ELSE IF conn = "greeted" THEN snapshot ELSE shown
LastFrame(i) == \A k \in DOMAIN queue : k > i => queue[k].row.id # queue[i].row.id
Untouched(o) == \A k \in DOMAIN queue : queue[k].row.id # o.id
Coming(o) == \/ \E i \in DOMAIN queue : /\ LastFrame(i) /\ queue[i].row = o
                                        /\ queue[i].type # "deleted"
             \/ o \in Base /\ Untouched(o)

(* Orders that are stored, were archived by a close, or have changed in a request  *)
(* that has yet to publish.                                                        *)
Explained(o) == \/ o \in rows \/ o.uid \in closed
                \/ \E j \in jobs : j.row.id = o.id /\ j.row.uid = o.uid

(* A row id that is not spoiled has one request at a time, which knows the row as  *)
(* it is stored unless a close has taken it.                                       *)
Fits(j) == /\ j.view \in {NoRow, j.row}
           /\ \A o \in rows : o.id = j.row.id => o = j.row /\ j.type # "deleted"
           /\ j.type # "deleted" => j.row \in rows \/ j.row.uid \in closed
JobsFit == \A j \in jobs :
             /\ j.view = NoRow \/ j.view.id = j.row.id
             /\ \/ j.row.id \in spoiled
                \/ Fits(j) /\ \A k \in jobs : k.row.id = j.row.id => k = j
RowsById == \A o, p \in rows : o.id = p.id => o = p
InStep == Registered => /\ \A o \in rows : o.id \in spoiled \/ Pending(o.id) \/ Coming(o)
                        /\ \A o \in Row : Coming(o) => Explained(o) \/ o.id \in spoiled
SyncInv == JobsFit /\ RowsById /\ InStep /\ (~Registered => queue = <<>>)

(* Whatever is written, InStep holds if a row that changes has a request pending.  *)
LEMMA WriteInStep ==
  ASSUME InStep, UNCHANGED <<conn, snapshot, queue, shown>>,
         jobs \subseteq jobs', closed \subseteq closed', spoiled \subseteq spoiled',
         \A o \in rows' : o \in rows \/ Pending(o.id)',
         \A o \in rows : Explained(o)'
  PROVE  InStep'
<1> SUFFICES ASSUME Registered PROVE InStep'
  BY DEF InStep, Registered
<1>1. ASSUME NEW o \in rows' PROVE o.id \in spoiled' \/ Pending(o.id)' \/ Coming(o)'
  <2>1. CASE o \in rows /\ Coming(o)
    BY <2>1 DEF Coming, Base, LastFrame, Untouched
  <2>2. CASE o \in rows /\ Pending(o.id)
    BY <2>2 DEF Pending
  <2> QED
    BY <2>1, <2>2 DEF InStep
<1>2. ASSUME NEW o \in Row, Coming(o)' PROVE Explained(o)' \/ o.id \in spoiled'
  <2>1. CASE conn = "registered" /\ o \in rows'
    BY <2>1 DEF Explained
  <2>2. CASE ~(conn = "registered" /\ o \in rows')
    <3>1. Coming(o)
      BY <1>2, <2>2 DEF Coming, Base, LastFrame, Untouched
    <3>2. Explained(o) \/ o.id \in spoiled
      BY <3>1 DEF InStep
    <3> QED
      BY <3>2 DEF Explained
  <2> QED
    BY <2>1, <2>2
<1> QED
  BY <1>1, <1>2 DEF InStep

(* A change of a row id that has a request pending spoils it; another one's        *)
(* request fits.                                                                   *)
LEMMA SyncCommit ==
  ASSUME SyncInv, NEW change, NEW o, Committed(change, o), RowsById',
         UNCHANGED <<conn, snapshot, queue, shown, closed>>,
         \A p \in rows' : p.id # o.id => p \in rows,
         \A p \in rows : p.id # o.id => p \in rows',
         \A p \in rows : p.id = o.id => p.uid = o.uid,
         IF change = "deleted" THEN \A p \in rows' : p.id # o.id ELSE o \in rows'
  PROVE  SyncInv'
<1> DEFINE job == [type |-> change, row |-> o, view |-> NoRow]
<1>1. /\ jobs' = jobs \cup {job} /\ spoiled \subseteq spoiled'
      /\ Pending(o.id) => o.id \in spoiled'
      /\ job.row = o /\ job.view = NoRow /\ job.type = change
  BY DEF Committed, Spoil
<1> HIDE DEF job
<1>2. Fits(job)'
  BY <1>1 DEF Fits, RowsById
<1>3. ASSUME NEW j \in jobs, j.row.id # o.id, Fits(j) PROVE Fits(j)'
  BY <1>3 DEF Fits
<1>4. ASSUME NEW j \in jobs'
      PROVE  /\ j.view = NoRow \/ j.view.id = j.row.id
             /\ \/ j.row.id \in spoiled'
                \/ Fits(j)' /\ \A k \in jobs' : k.row.id = j.row.id => k = j
  <2>1. CASE j = job
    <3>1. Pending(o.id) \/ \A k \in jobs : k.row.id # o.id
      BY DEF Pending
    <3> QED
      BY <1>1, <1>2, <2>1, <3>1
  <2>2. CASE j \in jobs
    <3>1. CASE j.row.id = o.id
      BY <1>1, <2>2, <3>1 DEF Pending, SyncInv, JobsFit
    <3>2. CASE j.row.id # o.id
      BY <1>1, <1>3, <2>2, <3>2 DEF SyncInv, JobsFit
    <3> QED
      BY <3>1, <3>2
  <2> QED
    BY <1>1, <2>1, <2>2
<1>5. JobsFit'
  BY <1>4 DEF JobsFit
<1>6. \A p \in rows' : p \in rows \/ Pending(p.id)'
  BY <1>1 DEF Pending
<1>7. \A p \in rows : Explained(p)'
  BY <1>1 DEF Explained
<1>8. InStep'
  BY <1>1, <1>6, <1>7, WriteInStep DEF SyncInv
<1> QED
  BY <1>5, <1>8 DEF SyncInv, Registered

LEMMA SyncWrite ==
  ASSUME TypeOK, SyncInv, Write, UNCHANGED <<conn, snapshot, queue, shown>>
  PROVE  SyncInv'
<1>0. rows \subseteq Row /\ \A o \in rows : o.id \in Nat
  BY DEF TypeOK, Row
<1>1. ASSUME NEW t \in Tables, Place(t) PROVE SyncInv'
  <2>1. PICK id \in 1 .. MaxOrders :
          /\ \A o \in rows : o.id < id
          /\ rows' = rows \cup {[id |-> id, uid |-> placed + 1, table |-> t, status |-> 0]}
          /\ Committed("created", [id |-> id, uid |-> placed + 1, table |-> t, status |-> 0])
    BY <1>1 DEF Place
  <2> DEFINE new == [id |-> id, uid |-> placed + 1, table |-> t, status |-> 0]
  <2>2. rows' = rows \cup {new} /\ Committed("created", new) /\ closed' = closed /\ new.id = id
    BY <1>1, <2>1 DEF Place
  <2>3. \A o \in rows : o.id # id
    BY <1>0, <2>1
  <2> HIDE DEF new
  <2>4. RowsById'
    BY <2>2, <2>3 DEF SyncInv, RowsById
  <2> QED
    BY <2>2, <2>3, <2>4, SyncCommit
<1>2. ASSUME NEW t \in Tables, Close(t) PROVE SyncInv'
  <2>1. /\ rows' \subseteq rows /\ jobs' = jobs /\ closed \subseteq closed' /\ spoiled' = spoiled
        /\ \A o \in rows : o \in rows' \/ o.uid \in closed'
    BY <1>2 DEF Close
  <2>2. JobsFit' /\ RowsById'
    BY <2>1 DEF SyncInv, JobsFit, Fits, RowsById
  <2>3. InStep'
    BY <2>1, WriteInStep DEF SyncInv, Explained
  <2> QED
    BY <2>2, <2>3 DEF SyncInv, Registered
<1>3. ASSUME NEW o \in rows, ChangeStatus(o) PROVE SyncInv'
  <2> DEFINE new == Advanced(o)
  <2>1. rows' = (rows \ {o}) \cup {new} /\ Committed("updated", new) /\ closed' = closed
    BY <1>3 DEF ChangeStatus
  <2>2. new.id = o.id /\ new.uid = o.uid
    BY <1>0, <1>3, AdvancedTyped DEF ChangeStatus
  <2>3. \A p \in rows : p # o => p.id # o.id
    BY DEF SyncInv, RowsById
  <2> HIDE DEF new
  <2>4. RowsById'
    BY <2>1, <2>2, <2>3 DEF SyncInv, RowsById
  <2> QED
    BY <2>1, <2>2, <2>3, <2>4, SyncCommit
<1>4. ASSUME NEW o \in rows, Delete(o) PROVE SyncInv'
  <2>1. rows' = rows \ {o} /\ Committed("deleted", o) /\ closed' = closed
    BY <1>4 DEF Delete
  <2>2. \A p \in rows : p # o => p.id # o.id
    BY DEF SyncInv, RowsById
  <2>3. RowsById'
    BY <2>1 DEF SyncInv, RowsById
  <2> QED
    BY <2>1, <2>2, <2>3, SyncCommit
<1> QED
  BY <1>1, <1>2, <1>3, <1>4 DEF Write

(* Steps that leave the rows, the requests, the stream and what is shown alone.    *)
LEMMA SyncSame ==
  ASSUME SyncInv, UNCHANGED <<server, conn, snapshot, queue, shown>>
  PROVE  SyncInv'
<1>1. InStep'
  BY WriteInStep DEF SyncInv, server, Explained
<1> QED
  BY <1>1 DEF SyncInv, server, JobsFit, Fits, RowsById, Registered

(* A request that ends, or goes on, leaves the others as they are.  Whoever ends   *)
(* without an event spoils its row id, or finds that nobody waits for the event.   *)
LEMMA SyncJob ==
  ASSUME TypeOK, SyncInv, NEW j \in jobs, UNCHANGED <<rows, closed, conn, snapshot, queue, shown>>,
         spoiled \subseteq spoiled', jobs \ {j} \subseteq jobs',
         \A k \in jobs' : \/ k \in jobs
                         \/ /\ k.row = j.row /\ k.type = j.type /\ k.view.id = j.row.id
                            /\ j.row.id \in spoiled \/ k.view = j.row,
         \A k, l \in jobs' : k \notin jobs => l # j /\ (l \notin jobs => l = k),
         \/ j.row.id \in spoiled'
         \/ \E k \in jobs' : k.row = j.row
         \/ ~Registered \/ (j.row.uid \in closed /\ \A o \in rows : o.id # j.row.id)
  PROVE  SyncInv'
<1>1. ASSUME NEW k \in jobs'
      PROVE  /\ k.view = NoRow \/ k.view.id = k.row.id
             /\ \/ k.row.id \in spoiled'
                \/ Fits(k)' /\ \A l \in jobs' : l.row.id = k.row.id => l = k
  <2>1. CASE k \in jobs
    <3>1. k.row.id \in spoiled \/ Fits(k)'
      BY <2>1 DEF SyncInv, JobsFit, Fits
    <3>2. ASSUME k.row.id \notin spoiled, NEW l \in jobs', l.row.id = k.row.id PROVE l = k
      <4>1. l \in jobs => l = k
        BY <2>1, <3>2 DEF SyncInv, JobsFit
      <4>2. l \notin jobs => j = k
        BY <2>1, <3>2 DEF SyncInv, JobsFit
      <4> QED
        BY <2>1, <3>2, <4>1, <4>2
    <3> QED
      BY <2>1, <3>1, <3>2 DEF SyncInv, JobsFit
  <2>2. CASE k \notin jobs
    <3>1. k.row = j.row /\ k.type = j.type /\ k.view.id = j.row.id
          /\ (j.row.id \in spoiled \/ k.view = j.row)
      BY <2>2
    <3>2. j.row.id \in spoiled \/ Fits(k)'
      BY <3>1 DEF SyncInv, JobsFit, Fits
    <3>3. ASSUME j.row.id \notin spoiled, NEW l \in jobs', l.row.id = k.row.id PROVE l = k
      BY <2>2, <3>1, <3>3 DEF SyncInv, JobsFit
    <3> QED
      BY <3>1, <3>2, <3>3
  <2> QED
    BY <2>1, <2>2
<1>2. JobsFit'
  BY <1>1 DEF JobsFit
<1>3. InStep'
  <2> SUFFICES ASSUME Registered PROVE InStep'
    BY DEF InStep, Registered
  <2>1. \A o : Coming(o)' <=> Coming(o)
    BY DEF Coming, Base, LastFrame, Untouched
  <2>2. \A o \in rows : Pending(o.id) => Pending(o.id)' \/ o.id \in spoiled'
    BY DEF Pending
  <2>3. \A o : Explained(o) => Explained(o)' \/ o.id \in spoiled'
    BY DEF Explained
  <2> QED
    BY <2>1, <2>2, <2>3 DEF SyncInv, InStep
<1> QED
  BY <1>2, <1>3 DEF SyncInv, RowsById, Registered

(* Reading back finds the row as the request has left it, or nothing after a close; *)
(* a reading that fails spoils.                                                    *)
LEMMA SyncReadBack ==
  ASSUME TypeOK, SyncInv, NEW j \in jobs, ReadBack(j)
  PROVE  SyncInv'
<1> DEFINE seen(o) == [j EXCEPT !.view = o]
<1>0. j.row \in Row /\ j.view = NoRow /\ \A o : /\ seen(o).row = j.row /\ seen(o).view = o
                                              /\ seen(o).type = j.type
  BY DEF TypeOK, ReadBack
<1>1. UNCHANGED <<rows, closed, spoiled, conn, snapshot, queue, shown>>
  BY DEF ReadBack, stream, rest, screen
<1>2. CASE \/ j.type = "deleted"
           \/ \E o \in rows : o.id = j.row.id /\ (j.type = "created" => Registered)
  <2>1. PICK o : /\ jobs' = (jobs \ {j}) \cup {seen(o)} /\ o.id = j.row.id /\ o # NoRow
                 /\ j.row.id \in spoiled \/ o = j.row
    <3>1. CASE j.type = "deleted"
      <4>1. jobs' = (jobs \ {j}) \cup {seen(j.row)}
        BY <3>1 DEF ReadBack
      <4> QED
        BY <1>0, <4>1 DEF Row, NoRow
    <3>2. CASE j.type # "deleted"
      <4> DEFINE answer == {r \in {o \in rows : o.id = j.row.id} : j.type = "created" => Registered}
      <4>1. PICK o \in rows : answer = {o} /\ o.id = j.row.id
        BY <1>2, <3>2 DEF SyncInv, RowsById
      <4>2. jobs' = (jobs \ {j}) \cup {[j EXCEPT !.view = r] : r \in answer}
        BY <3>2 DEF ReadBack
      <4>3. j.row.id \in spoiled \/ o = j.row
        BY <4>1 DEF SyncInv, JobsFit, Fits
      <4>4. o \in Row /\ o # NoRow
        BY <1>0, <4>1 DEF TypeOK, Row, NoRow
      <4> HIDE DEF answer
      <4> QED
        BY <4>1, <4>2, <4>3, <4>4
    <3> QED
      BY <3>1, <3>2
  <2>3. seen(o) # j /\ j \notin jobs'
    BY <1>0, <2>1
  <2> HIDE DEF seen
  <2>4. \A k \in jobs' : \/ k \in jobs
                        \/ /\ k.row = j.row /\ k.type = j.type /\ k.view.id = j.row.id
                           /\ j.row.id \in spoiled \/ k.view = j.row
    BY <1>0, <2>1
  <2>5. \A k, l \in jobs' : k \notin jobs => l # j /\ (l \notin jobs => l = k)
    BY <2>1, <2>3
  <2>6. seen(o) \in jobs' /\ seen(o).row = j.row
    BY <1>0, <2>1
  <2>7. jobs \ {j} \subseteq jobs'
    BY <2>1
  <2> QED
    BY <1>1, <2>4, <2>5, <2>6, <2>7, SyncJob
<1>3. CASE /\ j.type # "deleted"
           /\ \A o \in rows : o.id = j.row.id => j.type = "created" /\ ~Registered
  <2> DEFINE answer == {r \in {o \in rows : o.id = j.row.id} : j.type = "created" => Registered}
  <2>1. answer = {}
    BY <1>3
  <2>2. jobs' = (jobs \ {j}) \cup {[j EXCEPT !.view = r] : r \in answer}
    BY <1>3 DEF ReadBack
  <2> HIDE DEF answer
  <2>3. jobs' = jobs \ {j}
    BY <2>1, <2>2
  <2>4. \/ j.row.id \in spoiled' \/ ~Registered
        \/ j.row.uid \in closed /\ \A o \in rows : o.id # j.row.id
    BY <1>1, <1>3 DEF SyncInv, JobsFit, Fits
  <2> QED
    BY <1>1, <2>3, <2>4, SyncJob
<1> QED
  BY <1>2, <1>3

LEMMA SyncReadBackFails ==
  ASSUME TypeOK, SyncInv, NEW j \in jobs, ReadBackFails(j)
  PROVE  SyncInv'
<1>1. /\ UNCHANGED <<rows, closed, conn, snapshot, queue, shown>> /\ jobs' = jobs \ {j}
      /\ spoiled \subseteq spoiled' /\ j.row.id \in spoiled'
  BY DEF ReadBackFails, Spoil, stream, rest, screen
<1> QED
  BY <1>1, SyncJob

(* An event that finds room puts its order in step.                                *)
LEMMA SyncPublish ==
  ASSUME TypeOK, SyncInv, NEW j \in jobs, Publish(j)
  PROVE  SyncInv'
<1> DEFINE id == j.row.id
<1>1. /\ UNCHANGED <<rows, closed, conn, snapshot, shown>> /\ jobs' = jobs \ {j}
      /\ j.view.id = id /\ (id \in spoiled \/ (j.view = j.row /\ Fits(j)))
      /\ spoiled \subseteq spoiled'
      /\ Registered /\ Full => id \in spoiled'
  <2>1. /\ j.view # NoRow /\ spoiled' = spoiled \cup {i \in {id} : Registered /\ Full}
        /\ UNCHANGED <<rows, closed, conn, snapshot, shown>> /\ jobs' = jobs \ {j}
    BY DEF Publish, Spoil, rest, screen
  <2>2. j.view.id = id /\ (id \in spoiled \/ (j.view = j.row /\ Fits(j)))
    <3>1. j.view.id = id /\ (id \in spoiled \/ Fits(j))
      BY <2>1 DEF SyncInv, JobsFit
    <3>2. Fits(j) => j.view = j.row
      BY <2>1 DEF Fits
    <3> QED
      BY <3>1, <3>2
  <2> QED
    BY <2>1, <2>2
<1>2. CASE ~(Registered /\ ~Full)
  <2>1. queue' = queue
    BY <1>2 DEF Publish, Delivered
  <2> QED
    BY <1>1, <1>2, <2>1, SyncJob
<1>3. JobsFit' /\ RowsById'
  BY <1>1 DEF SyncInv, JobsFit, Fits, RowsById
<1>4. CASE Registered /\ ~Full
  <2>0. PICK frame : frame = [type |-> j.type, row |-> j.view]
    OBVIOUS
  <2>00. PICK last : last = Len(queue) + 1
    OBVIOUS
  <2>1. /\ queue' = Append(queue, frame) /\ queue \in Seq(Frame)
        /\ frame \in Frame /\ frame.row = j.view /\ frame.type = j.type
    BY <2>0, <1>1, <1>4 DEF Publish, Delivered, TypeOK, Frame
  <2>2. /\ DOMAIN queue = 1 .. Len(queue) /\ Len(queue) \in Nat
        /\ DOMAIN queue' = 1 .. last /\ queue'[last] = frame
        /\ \A i \in DOMAIN queue : queue'[i] = queue[i]
    BY <2>00, <2>1
  <2>3. \A i \in DOMAIN queue' : i = last \/ i \in DOMAIN queue
    BY <2>00, <2>2
  <2>4. /\ last \in DOMAIN queue'
        /\ \A i \in DOMAIN queue : i \in DOMAIN queue' /\ i < last /\ ~(last < i)
    BY <2>00, <2>2
  <2>5. LastFrame(last)'
    BY <2>2, <2>3, <2>4 DEF LastFrame
  <2>6. \A o : Coming(o) /\ o.id # id => Coming(o)'
    <3>1. \A i \in DOMAIN queue : LastFrame(i) /\ queue[i].row.id # id => LastFrame(i)'
      BY <1>1, <2>1, <2>2, <2>3 DEF LastFrame
    <3>2. \A o : Untouched(o) /\ o.id # id => Untouched(o)'
      BY <1>1, <2>1, <2>2, <2>3 DEF Untouched
    <3> QED
      BY <1>1, <2>2, <2>4, <3>1, <3>2 DEF Coming, Base
  <2>7. ASSUME NEW o, Coming(o)'
        PROVE  (o = j.view /\ j.type # "deleted") \/ (o.id # id /\ Coming(o))
    <3>1. ASSUME NEW i \in DOMAIN queue, LastFrame(i)'
          PROVE  LastFrame(i) /\ queue[i].row.id # id
      BY <1>1, <2>1, <2>2, <2>3, <2>4, <3>1 DEF LastFrame
    <3>2. Untouched(o)' => Untouched(o) /\ o.id # id
      BY <1>1, <2>1, <2>2, <2>4 DEF Untouched
    <3> QED
      BY <1>1, <2>1, <2>2, <2>3, <2>7, <3>1, <3>2 DEF Coming, Base
  <2>8. ASSUME NEW o \in rows PROVE o.id \in spoiled' \/ Pending(o.id)' \/ Coming(o)'
    <3>1. CASE o.id = id /\ id \notin spoiled
      <4>1. o = j.view /\ j.type # "deleted"
        BY <1>1, <3>1 DEF Fits
      <4> QED
        BY <4>1, <2>1, <2>2, <2>4, <2>5 DEF Coming
    <3>2. CASE o.id # id
      BY <1>1, <1>4, <2>6, <3>2 DEF SyncInv, InStep, Pending
    <3> QED
      BY <1>1, <3>1, <3>2
  <2>9. ASSUME NEW o \in Row, Coming(o)' PROVE Explained(o)' \/ o.id \in spoiled'
    <3>1. CASE o = j.view /\ j.type # "deleted"
      BY <1>1, <3>1 DEF Fits, Explained
    <3>2. CASE o.id # id /\ Coming(o)
      BY <1>1, <1>4, <3>2 DEF SyncInv, InStep, Explained
    <3> QED
      BY <2>7, <2>9, <3>1, <3>2
  <2>10. InStep'
    BY <1>1, <2>8, <2>9 DEF InStep
  <2> QED
    BY <1>1, <1>3, <1>4, <2>10 DEF SyncInv, Registered
<1> QED
  BY <1>2, <1>4

(* The snapshot is read after the subscriber is registered: nothing falls between. *)
LEMMA SyncOpen ==
  ASSUME TypeOK, SyncInv, Subscribe \/ ReceiveSnapshot
  PROVE  SyncInv'
<1>1. UNCHANGED server /\ queue' = queue
  BY DEF Subscribe, ReceiveSnapshot
<1>2. JobsFit' /\ RowsById'
  BY <1>1 DEF SyncInv, JobsFit, Fits, RowsById, server
<1>3. CASE Subscribe
  <2>1. Base' = rows /\ queue' = <<>>
    BY <1>1, <1>3 DEF Subscribe, Base, SyncInv, Registered, server
  <2>2. \A o : Coming(o)' <=> o \in rows
    BY <2>1 DEF Coming, Untouched
  <2>3. InStep'
    BY <1>1, <2>2 DEF InStep, Explained, server
  <2> QED
    BY <1>2, <2>1, <2>3 DEF SyncInv
<1>4. CASE ReceiveSnapshot
  <2>1. Base' = Base /\ Registered /\ Registered'
    BY <1>4 DEF ReceiveSnapshot, Base, Registered
  <2>2. \A o : Coming(o)' <=> Coming(o)
    BY <1>1, <2>1 DEF Coming, LastFrame, Untouched
  <2>3. InStep'
    BY <1>1, <2>1, <2>2 DEF SyncInv, InStep, Explained, Pending, server
  <2> QED
    BY <1>2, <2>1, <2>3 DEF SyncInv
<1> QED
  BY <1>3, <1>4

(* It has every row as it is stored, so a row id with nothing on the way is in     *)
(* step whatever became of its events.                                             *)
LEMMA SyncSnapshot ==
  ASSUME TypeOK, SyncInv, ReadSnapshot
  PROVE  SyncInv'
<1>1. /\ UNCHANGED <<rows, closed, jobs, queue>> /\ Registered /\ Registered'
      /\ Base = rows /\ Base' = rows /\ spoiled' = {id \in spoiled : OnTheWay(id)}
  BY DEF ReadSnapshot, Base, Registered
<1>2. ASSUME NEW j \in jobs, j.row.id \in spoiled PROVE j.row.id \in spoiled'
  BY <1>1, <1>2 DEF OnTheWay, Pending
<1>3. JobsFit' /\ RowsById'
  BY <1>1, <1>2 DEF SyncInv, JobsFit, Fits, RowsById
<1>4. \A o : Coming(o)' <=> Coming(o)
  BY <1>1 DEF Coming, LastFrame, Untouched
<1>5. ASSUME NEW o \in rows PROVE o.id \in spoiled' \/ Pending(o.id)' \/ Coming(o)'
  <2>1. CASE o.id \in spoiled /\ ~OnTheWay(o.id)
    BY <1>1, <1>4, <2>1 DEF OnTheWay, Coming, Untouched
  <2> QED
    BY <1>1, <1>4, <2>1 DEF SyncInv, InStep, Pending
<1>6. ASSUME NEW o \in Row, Coming(o)' PROVE Explained(o)' \/ o.id \in spoiled'
  <2>1. CASE o.id \in spoiled /\ ~OnTheWay(o.id)
    <3>1. o \in Base
      BY <1>4, <1>6, <2>1 DEF OnTheWay, Coming
    <3> QED
      BY <1>1, <3>1 DEF Explained
  <2> QED
    BY <1>1, <1>4, <1>6, <2>1 DEF SyncInv, InStep, Explained
<1>7. InStep'
  <2>1. \A o \in rows' : o.id \in spoiled' \/ Pending(o.id)' \/ Coming(o)'
    BY <1>1, <1>5
  <2> QED
    BY <1>6, <2>1 DEF InStep
<1> QED
  BY <1>1, <1>3, <1>7 DEF SyncInv

(* A list takes the place of what is shown; what differs is spoiled.               *)
LEMMA SyncList ==
  ASSUME TypeOK, SyncInv, ReceiveList
  PROVE  SyncInv'
<1>1. /\ UNCHANGED <<rows, closed, jobs, conn, snapshot, queue>> /\ shown' = listed
      /\ spoiled \subseteq spoiled'
      /\ conn = "streaming" => \A o \in (listed \ shown) \cup (shown \ listed) : o.id \in spoiled'
  BY DEF ReceiveList, Spoil, Ids, stream
<1>2. JobsFit' /\ RowsById'
  BY <1>1 DEF SyncInv, JobsFit, Fits, RowsById
<1>3. Registered => \A o : o.id \in spoiled' \/ (o \in Base' <=> o \in Base)
  <2>1. CASE conn = "streaming"
    <3>1. Base = shown /\ Base' = listed
      BY <1>1, <2>1 DEF Base
    <3> QED
      BY <1>1, <2>1, <3>1
  <2>2. CASE conn # "streaming" /\ Registered
    BY <1>1, <2>2 DEF Base, Registered
  <2> QED
    BY <2>1, <2>2 DEF Registered
<1>4. Registered => \A o : o.id \in spoiled' \/ (Coming(o)' <=> Coming(o))
  BY <1>1, <1>3 DEF Coming, LastFrame, Untouched
<1>5. InStep'
  BY <1>1, <1>4 DEF SyncInv, InStep, Explained, Pending, Registered
<1> QED
  BY <1>1, <1>2, <1>5 DEF SyncInv, Registered

(* A frame that arrives takes effect on what is shown as it promised in the queue. *)
LEMMA SyncReceive ==
  ASSUME TypeOK, SyncInv, Receive
  PROVE  SyncInv'
<1>0. PICK first : first = queue[1]
  OBVIOUS
<1>1. /\ UNCHANGED <<rows, closed, jobs, spoiled, conn>> /\ conn = "streaming"
      /\ shown' = IF first.type = "deleted" THEN Without(shown, first.row.id)
                  ELSE Without(shown, first.row.id) \cup {first.row}
  <2>1. Head(queue) = queue[1]
    BY DEF Receive, TypeOK
  <2> QED
    BY <1>0, <2>1 DEF Receive, server, Upsert
<1>2. /\ DOMAIN queue = 1 .. Len(queue) /\ Len(queue) \in Nat \ {0}
      /\ DOMAIN queue' = 1 .. Len(queue) - 1
      /\ \A i \in DOMAIN queue' : queue'[i] = queue[i + 1]
  <2>1. queue \in Seq(Frame) /\ queue # <<>> /\ queue' = Tail(queue)
    BY DEF Receive, TypeOK
  <2> QED
    BY <2>1
<1>3. /\ 1 \in DOMAIN queue
      /\ \A i \in DOMAIN queue' : i + 1 \in DOMAIN queue /\ i + 1 > 1 /\ i \in Int
      /\ \A i \in DOMAIN queue : i = 1 \/ (i - 1 \in DOMAIN queue' /\ (i - 1) + 1 = i)
  BY <1>2
<1>4. Base = shown /\ Base' = shown' /\ Registered /\ Registered'
  BY <1>1 DEF Base, Registered
<1>5. \A i \in DOMAIN queue' : LastFrame(i)' <=> LastFrame(i + 1)
  <2>1. ASSUME NEW i \in DOMAIN queue', LastFrame(i + 1) PROVE LastFrame(i)'
    BY <1>2, <1>3, <2>1 DEF LastFrame
  <2>2. ASSUME NEW i \in DOMAIN queue', LastFrame(i)' PROVE LastFrame(i + 1)
    <3>1. ASSUME NEW k \in DOMAIN queue, k > i + 1 PROVE queue[k].row.id # queue[i + 1].row.id
      <4>1. k - 1 \in DOMAIN queue' /\ (k - 1) + 1 = k /\ k - 1 > i
        BY <1>2, <3>1
      <4> QED
        BY <1>2, <2>2, <4>1 DEF LastFrame
    <3> QED
      BY <3>1 DEF LastFrame
  <2> QED
    BY <2>1, <2>2
<1>6. \A o : Untouched(o) <=> Untouched(o)' /\ o.id # first.row.id
  BY <1>0, <1>2, <1>3 DEF Untouched
<1>7. LastFrame(1) <=> Untouched(first.row)'
  <2>1. ASSUME LastFrame(1) PROVE Untouched(first.row)'
    BY <1>0, <1>2, <1>3, <2>1 DEF LastFrame, Untouched
  <2>2. ASSUME Untouched(first.row)' PROVE LastFrame(1)
    <3>1. ASSUME NEW k \in DOMAIN queue, k > 1 PROVE queue[k].row.id # first.row.id
      <4>1. k - 1 \in DOMAIN queue' /\ queue'[k - 1] = queue[k]
        BY <1>2, <3>1
      <4> QED
        BY <2>2, <4>1 DEF Untouched
    <3> QED
      BY <1>0, <3>1 DEF LastFrame
  <2> QED
    BY <2>1, <2>2
<1>8. ASSUME NEW o, Coming(o) PROVE Coming(o)'
  <2>1. ASSUME NEW i \in DOMAIN queue, LastFrame(i), queue[i].row = o, queue[i].type # "deleted"
        PROVE  Coming(o)'
    <3>1. CASE i = 1
      BY <1>0, <1>1, <1>4, <1>7, <2>1, <3>1 DEF Coming
    <3>2. CASE i # 1
      <4>1. i - 1 \in DOMAIN queue' /\ (i - 1) + 1 = i
        BY <1>3, <3>2
      <4> QED
        BY <1>2, <1>5, <2>1, <4>1 DEF Coming
    <3> QED
      BY <3>1, <3>2
  <2>2. CASE o \in shown /\ Untouched(o)
    BY <1>1, <1>4, <1>6, <2>2 DEF Coming, Without
  <2> QED
    BY <1>4, <1>8, <2>1, <2>2 DEF Coming
<1>9. ASSUME NEW o, Coming(o)' PROVE Coming(o)
  <2>1. ASSUME NEW i \in DOMAIN queue', LastFrame(i)', queue'[i].row = o, queue'[i].type # "deleted"
        PROVE  Coming(o)
    BY <1>2, <1>3, <1>5, <2>1 DEF Coming
  <2>2. ASSUME o \in shown', Untouched(o)' PROVE Coming(o)
    <3>1. CASE o = first.row /\ first.type # "deleted"
      BY <1>0, <1>3, <1>7, <2>2, <3>1 DEF Coming
    <3>2. CASE o \in Without(shown, first.row.id)
      BY <1>4, <1>6, <2>2, <3>2 DEF Coming, Without
    <3> QED
      BY <1>1, <2>2, <3>1, <3>2
  <2> QED
    BY <1>4, <1>9, <2>1, <2>2 DEF Coming
<1>10. InStep'
  BY <1>1, <1>4, <1>8, <1>9 DEF SyncInv, InStep, Explained, Pending
<1> QED
  BY <1>1, <1>4, <1>10 DEF SyncInv, JobsFit, Fits, RowsById

LEMMA SyncStep == TypeOK /\ SyncInv /\ [Next]_vars => SyncInv'
<1> SUFFICES ASSUME TypeOK, SyncInv, [Next]_vars PROVE SyncInv'
  OBVIOUS
<1>1. CASE UNCHANGED vars
  BY <1>1, SyncSame DEF vars, stream, screen
<1>2. CASE Others
  BY <1>2, SyncWrite DEF Others, Write, stream, screen
<1>3. ASSUME NEW j \in jobs, ReadBack(j) \/ ReadBackFails(j) \/ Publish(j) PROVE SyncInv'
  BY <1>3, SyncReadBack, SyncReadBackFails, SyncPublish
<1>4. CASE Subscribe \/ ReadSnapshot \/ ReceiveSnapshot \/ Receive
  BY <1>4, SyncOpen, SyncSnapshot, SyncReceive
<1>5. CASE Break \/ Restart \/ Remount \/ Reopen
  <2>1. /\ UNCHANGED <<rows, closed, spoiled>> /\ jobs' \subseteq jobs
        /\ queue' = <<>> /\ ~Registered'
    BY <1>5 DEF Break, Restart, Remount, Reopen, Disconnected, server, SyncInv, Registered
  <2>2. JobsFit' /\ RowsById'
    BY <2>1 DEF SyncInv, JobsFit, Fits, RowsById
  <2> QED
    BY <2>1, <2>2 DEF SyncInv, InStep
<1>6. CASE Listing
  BY <1>6, SyncSame, SyncList DEF Listing, AnswerList, stream, screen
<1>7. CASE Staff
  <2>1. CASE Write
    BY <1>7, <2>1, SyncWrite DEF Staff, OpenDetail, CloseDetail, Ask, Serve, Answered, stream,
       server
  <2>2. CASE UNCHANGED server
    BY <1>7, <2>2, SyncSame DEF Staff, OpenDetail, CloseDetail, Ask, Serve, Answered, stream
  <2>3. Write \/ UNCHANGED server
    BY <1>7 DEF Staff, OpenDetail, CloseDetail, Ask, Serve, Answered, Target, Write
  <2> QED
    BY <2>1, <2>2, <2>3
<1> QED
  BY <1>1, <1>2, <1>3, <1>4, <1>5, <1>6, <1>7 DEF Next, Publishing, Streaming

LEMMA InStepShown == SyncInv /\ TypeOK => StoredIsShown
<1> SUFFICES ASSUME SyncInv, TypeOK, Quiet
             PROVE  /\ \A o \in rows : Follows(o)
                    /\ \A o \in shown \ rows : o.uid \in closed \/ o.id \in spoiled
  BY DEF StoredIsShown
<1>1. Base = shown /\ Registered /\ queue = <<>> /\ jobs = {}
  BY DEF Quiet, Base, Registered
<1>2. \A o : Coming(o) <=> o \in shown
  BY <1>1 DEF Coming, Untouched
<1> QED
  BY <1>1, <1>2 DEF SyncInv, InStep, Pending, Explained, Follows, TypeOK

--------------------------------------------------------------------------------
(* Rows, frames, the screen and what is under way keep their types.               *)
THEOREM EventsTypeCorrect == Spec => []TypeOK
BY InitTyped, TypeStep, PTL DEF Spec

(* Whatever is lost, fails or comes late, no copy of an order, sent, on its way   *)
(* or shown, is further on than the stored order, and it names the stored order's *)
(* row and table (publish after the commit, db.refresh, snapshots).               *)
THEOREM CopiesNeverAhead == Spec => []NeverAhead
<1>1. CopyInv => NeverAhead
  BY DEF CopyInv, HeldBehind, Held, Behind, NeverAhead
<1> QED
  BY <1>1, InitTyped, TypeStep, InitCopies, CopyInvStep, PTL DEF Spec

(* While the stream runs, every order marked as new is one that is shown, unless  *)
(* a late list or a lost event has spoiled it (the reducer of                     *)
(* MonitoringDashboardView).                                                      *)
THEOREM MarksAreShown == Spec => []UnseenShown
<1>1. Init => UnseenShown
  BY DEF Init, UnseenShown, Ids
<1> QED
  BY <1>1, MarkStep, PTL DEF Spec

(* Whatever breaks: once everything sent has arrived, every stored order is shown *)
(* as it is stored, and the others shown went with a close whose events nobody    *)
(* gets, unless their row id was spoiled after the last snapshot was read or had  *)
(* something on the way then.                                                     *)
THEOREM ShownCatchesUp == Spec => []StoredIsShown
<1>1. Init => SyncInv
  BY DEF Init, SyncInv, JobsFit, RowsById, InStep, Registered
<1> QED
  BY <1>1, SyncStep, InitTyped, TypeStep, InStepShown, PTL DEF Spec

================================================================================
