------------------------------- MODULE OrderPages ------------------------------
(* CurrentOrdersView: the orders of a session are fetched page by page, by the   *)
(* effect that runs when the page opens and by an observer of the list's end.    *)
(* Both call loadMore of the last render, which knows the state of that render.  *)
EXTENDS Integers, Sequences, FiniteSetsExt

CONSTANTS MaxOrders, \* bound on row ids
          PageSize,  \* limit
          MaxErrors, \* bound on failing requests
          Prompt     \* whether React renders before the observer reports

ASSUME PagesAssumption == /\ MaxOrders \in Nat /\ PageSize \in Nat \ {0}
                          /\ MaxErrors \in Nat /\ Prompt \in BOOLEAN

VARIABLES stored,   \* row ids of the session's orders
          late,     \* those of them given out at or below a row read already: history
          loaded,   \* the pages listed, each by its rows, which come in order of their ids
          state,    \* cursor, hasMore and loading
          rendered, \* ... as the last render saw them
          watching, \* whether the observer of the last render has yet to report
          requests, \* pending requests, in the order sent, with what the server has read
          errors

vars == <<stored, late, loaded, state, rendered, watching, requests, errors>>

Ids == 0 .. MaxOrders
Done == -1   \* next_cursor = null
Unread == -2 \* the server has not read the page yet
Requests == [cursor : Ids, page : SUBSET Ids, next : Ids \cup {Done, Unread}]
States == [cursor : Ids \cup {Done}, more : BOOLEAN, loading : BOOLEAN]

TypeOK == /\ stored \subseteq Ids \ {0} /\ late \subseteq stored
          /\ loaded \in Seq(SUBSET Ids)
          /\ state \in States /\ rendered \in States /\ watching \in BOOLEAN
          /\ requests \in Seq(Requests) /\ errors \in 0 .. MaxErrors

(* A null cursor at first asks from the start, like row id 0.                  *)
Start == [cursor |-> 0, more |-> TRUE, loading |-> FALSE]

Request(cursor) == [cursor |-> cursor, page |-> {}, next |-> Unread]

(* The session's ids have gaps where other tables have ordered.                *)
Init == /\ stored \in SUBSET (Ids \ {0}) /\ late = {}
        /\ loaded = <<>> /\ state = [Start EXCEPT !.loading = TRUE] /\ rendered = Start
        /\ watching = TRUE /\ requests = <<Request(0)>> /\ errors = 0

-------------------------------------------------------------------------------
(* The server: rows after the cursor, one more than the page to know of more.  *)
After(cursor) == {o \in stored : o > cursor}
Page(cursor) == {o \in After(cursor) : Cardinality({p \in After(cursor) : p < o}) < PageSize}

(* Mutant: the next cursor is the first order that was not sent.               *)
NextUnsent(cursor) ==
  IF Page(cursor) # After(cursor) THEN Min(After(cursor) \ Page(cursor)) ELSE Done
NextCursor(cursor) == IF Page(cursor) # After(cursor) THEN Max(Page(cursor)) ELSE Done

Read(i) == /\ i \in DOMAIN requests /\ requests[i].next = Unread
           /\ requests' = LET cursor == requests[i].cursor IN
                [requests EXCEPT ![i].page = Page(cursor), ![i].next = NextCursor(cursor)]
           /\ UNCHANGED <<stored, late, loaded, state, rendered, watching, errors>>

(* The rows on the list, and those the server has read for it.                 *)
Listed == UNION Range(loaded)
OnTheWay == UNION {r.page : r \in Range(requests)}

(* SQLite gives a new row the id after the greatest of the table.  Orders of other *)
(* tables raise it; once the last rows are deleted their ids come again.       *)
Place == /\ \E id \in Ids \ {0} :
              /\ \A o \in stored : o < id
              /\ stored' = stored \cup {id}
              /\ late' = late \cup {n \in {id} : \E l \in Listed \cup OnTheWay : n <= l}
         /\ UNCHANGED <<loaded, state, rendered, watching, requests, errors>>
Delete(o) == /\ o \in stored /\ stored' = stored \ {o} /\ late' = late \ {o}
             /\ UNCHANGED <<loaded, state, rendered, watching, requests, errors>>

-------------------------------------------------------------------------------
(* React: a render after a change makes a new loadMore and a new observer,     *)
(* which reports as soon as the end of the list is in view.                    *)
Render == /\ rendered # state /\ rendered' = state /\ watching' = TRUE
          /\ UNCHANGED <<stored, late, loaded, state, requests, errors>>

(* Mutants: loadMore does not look whether it is loading, or whether there is more. *)
MayLoadTwice == rendered.more
MayLoadOn == ~rendered.loading
MayLoad == ~rendered.loading /\ rendered.more

InView == /\ watching /\ (Prompt => rendered = state)
          /\ watching' = FALSE
          /\ IF MayLoad THEN /\ requests' = Append(requests, Request(rendered.cursor))
                             /\ state' = [state EXCEPT !.loading = TRUE]
             ELSE UNCHANGED <<requests, state>>
          /\ UNCHANGED <<stored, late, loaded, rendered, errors>>

(* Mutant: the flag is not cleared by a page.                                  *)
StillLoading(next) == [cursor |-> next, more |-> next # Done, loading |-> TRUE]
Advanced(next) == [cursor |-> next, more |-> next # Done, loading |-> FALSE]

(* An answer takes longer than the render that shows the page is loading.      *)
Answerable == requests # <<>> /\ rendered # Start

Arrive == /\ Answerable /\ Head(requests).next # Unread /\ requests' = Tail(requests)
          /\ loaded' = Append(loaded, Head(requests).page)
          /\ state' = Advanced(Head(requests).next)
          /\ UNCHANGED <<stored, late, rendered, watching, errors>>

Fail == /\ errors < MaxErrors /\ Answerable
        /\ requests' = Tail(requests) /\ errors' = errors + 1
        /\ state' = [state EXCEPT !.more = FALSE, !.loading = FALSE]
        /\ UNCHANGED <<stored, late, loaded, rendered, watching>>

-------------------------------------------------------------------------------
Loading == Render \/ InView \/ Arrive \/ Fail \/ \E i \in DOMAIN requests : Read(i)
Next == Place \/ (\E o \in stored : Delete(o)) \/ Loading

(* React renders, requests are answered, and the end of the list stays in view *)
(* (a customer who scrolls down sees it again after every page).               *)
Spec == Init /\ [][Next]_vars /\ WF_vars(Loading)

-------------------------------------------------------------------------------
(* Every order is listed once, in the order they were placed.                  *)
InOrder == \A i, j \in DOMAIN loaded : i < j => \A o \in loaded[i], p \in loaded[j] : o < p

(* Paging by row id skips no order, whatever is placed or deleted meanwhile, but *)
(* one that got the id of deleted orders, at or below a row that had been read.  *)
NoGap == \A o \in stored \ late, l \in Listed : o < l => o \in Listed

(* Without errors the list reaches its end: the last page says so, and what is *)
(* stored and not listed was placed after that.                                *)
ReachesEnd == <>(errors > 0 \/ (state.cursor = Done /\ requests = <<>>))

================================================================================
