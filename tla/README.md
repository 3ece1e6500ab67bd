# TLA+ verification of the table-order service

Specifications, model-checking configurations and proofs for the ordering system in `src/`: tablets on
restaurant tables order from a FastAPI/SQLAlchemy/SQLite backend (`backend/app`); staff follow the
orders on a dashboard, close tables, keep the menu and read the history in a React front end
(`frontend/src`).

Run TLC with `tlc -workers 2 -config X.cfg M`, the proofs with `tlapm M.tla`.

## 1. The system

| component | state | operations | module |
|---|---|---|---|
| Table session lifecycle (`services/table_session/lifecycle.py`) | `table_session` rows: table, active or closed | look for or start the active session; close a table | `TableOrders` |
| Order creation (`services/order/create.py`, `repositories/order.py`) | `order` rows | ensure the session, price the items, take the day's next number, insert | `TableOrders`; number texts in `OrderNumbers`, prices in `Checkout` |
| Order status and deletion (`services/order/admin.py`) | status of an `order` row | change status along 대기중 → 준비중 → 완료; delete | `TableOrders` |
| Order history (`repositories/order_history.py`) | `order_history` rows | migrate a session's orders inside the close; list by days | `TableOrders`, `HistoryDays` |
| Threads and transactions (`db.py`, `main.py`) | what each request holds in memory | SELECTs that commit by themselves, one write transaction, rollback, restart | `TableOrders` |
| Order events (`services/order_event_broker.py`, `routers/admin_order.py`) | subscribers, a bounded queue each | publish after commit, snapshot on connect, deliver | `OrderEvents` |
| Monitoring dashboard (`features/admin/monitoring`, `shared/api/sse-client.ts`) | orders shown, marks of new ones, detail window, connection | REST list, snapshot, events, reconnect, change or delete from the window | `OrderEvents` |
| Cart and confirmation (`context/cart-context.tsx`, `features/customer/cart-order`) | stored cart, page, pending request | add, change, confirm, leave, reload, handle the answer | `Checkout` |
| Order list of the tablet (`CurrentOrdersView.tsx`, cursor pages of `repositories/order.py`) | pages loaded, cursor | load more, place, delete | `OrderPages` |
| Tablet identity (`context/table-session-context.tsx`, `main.tsx`, `features/customer/auto-login`) | stored configuration, stored session id, context | set up, log in, bootstrap, load, order | `TabletIdentity` |
| Menu catalogue (`services/menu_service.py`, `MenuManageView.tsx`) | menus with a display order; list, form and request of each desk | create, change, delete, move, reload | `MenuAdmin` |
| Staff login (`services/auth_service.py`, `AdminLoginView.tsx`, `auth-context.tsx`) | failures and lock of an account; token and page of each desk | check, verify, count; expire, log out | `AdminAccess` |
| History page (`routers/history.py`, `OrderHistoryView.tsx`) | inputs, request, list shown | turn local days into UTC bounds, list | `HistoryDays` |
| Closing desk (`features/admin/table-close`) | number typed, dialog, request | ask, confirm, close, retry | `ClosingDesk` |
| Table setup, views, routing | partly: what of them keeps state is in `TabletIdentity`, `ClosingDesk`, `AdminAccess` | | |
| Schemas, error texts, seed data | none of their own | | not modelled |

**How they interact.** A tablet sends `POST /api/orders`; the order service calls the session service
(which uses a database session and a transaction of its own), then reads menus and the last number and
inserts the order.  Staff send `PATCH`/`DELETE /api/admin/orders/{id}` and
`POST /api/admin/tables/{id}/close`; the close calls the history repository inside its transaction.
After its commit each operation publishes an event to the broker, which hands it to the event loop and
from there to every dashboard's stream.  The backend's parts share the SQLite file and nothing else; the
login throttle and the broker's subscribers live in memory and are gone after a restart.  A tablet's
pages share localStorage (cart, configuration, session id) and a context above the routes.

**What is hard.** The endpoints are plain functions, so FastAPI runs them on a pool of threads.  Every
service call opens its own SQLAlchemy session; the SQLite driver begins a transaction at the first
INSERT, UPDATE or DELETE, so a SELECT before that sees the last committed state and holds no lock.  A
decision made on a SELECT can therefore be out of date when the write it leads to is executed.  SQLite
gives the row id of a deleted last row to the next insert, so a request that holds an id may act on
another row than the one it read.  Requests fail between one commit and the next, and the process may be
restarted.  In the browser, answers come after the page that asked is left, React renders some time after
a state has changed, and a lost answer cannot be told from a lost request.

**What makes each component correct.**

- Session lifecycle: at most one active session per table; a close ends the session it read and leaves
  the table empty, and where requests overlap only what is late for the close stays behind.
- Order creation: unique ids and numbers, which grow; an order belongs to its table's active session.
- Status and deletion: statuses only move forward; a delete removes the order that was read.
- Migration: every order of the session is archived exactly once; nothing is lost, nothing comes back.
- Events and dashboard: what is shown is never ahead of what is stored, and once nothing changes any more
  it is what is stored, also after a stream that broke or a restart.
- Cart: what was chosen is ordered or still in the cart, once, and ordered again only when the tablet
  could not see that it was stored; the total stored is the one confirmed; a confirmation ends.
- Order list: every order once, in order, without gaps, to the end.
- Tablet identity: orders go to the configured table, the list is of a session of that table, the start
  page does not wait for ever.
- Menu: a desk works from what is stored, a move gives the order asked for, a form is saved to one menu.
- Login: failures are bounded by the limit and the server's threads, every lock ends.
- History: exactly the rows closed on the chosen local days, newest first.
- Closing: the party whose session ends is the one staff meant.

## 2. Modules

`TableService` is the abstract specification of the backend: tables that are occupied or free, a bill of
open orders, an archive, with atomic operations `Sit`, `Place`, `Advance`, `Strike`, `Settle`.
`TableOrders` is the code's version of it, with one action per SELECT that decides something and one per
write transaction: it implements `TableService` where requests for one table do not overlap
(`RefinesService`), and where they do every step is an atomic operation or one of four commits on a read
that is out of date (`AtomicUnlessStale`).  The other modules take one component each together with the
part of the server it talks to, and an operation that `TableOrders` has step by step by its commit.  The `MC...` modules give constants
their small values; the `...Proofs` modules hold the proofs.

### 2.1 `TableOrders`

| variable | code |
|---|---|
| `session` | rows of `table_session`, indexed by id (rows are never deleted, so ids are 1, 2, ...) |
| `orders` | rows of `order`: row id, number of the day, table, session, status |
| `history` | rows of `order_history`; `closing` stands for the close that wrote the row |
| `job[w]` | the local variables of the request thread `w` works on; `at` is where it stands |
| `placed`, `removed`, `closings` | history variables: orders ever inserted, orders whose DELETE was answered as successful, closes ever committed |

An order's items, prices and total never change after its insert; they are abstracted to `uid`, the
order's rank among all inserted orders.  The row id is modelled separately because it is reused.
Numbers are integers within one business day and below 1000; their text form is in `OrderNumbers`.

| request | actions, in order |
|---|---|
| `create_order` | `FindSession`, or `FindNoSession` and `OpenSession` (commit); `RejectUnknownMenu` or `ReadNumber`; `InsertOrder` (commit) or `NumberCollision` |
| `close_table` | `CloseConflicts`, or `FindSessionToClose`, `LoadOrders`, `CommitClose` (commit) |
| `change_status` | `ReadForStatus`; `UpdateStatus` (commit) or `UpdateMissesRow` |
| `delete_order` | `ReadForDelete`; `DeleteOrder` (commit) |
| any | `WriteFails` (rolled back, 500); `Restart` (every request is lost, every commit kept) |

A request that is refused before it writes (404, 409, 422) changes nothing; only the two refusals that
leave something behind or decide whether the system can move are actions.  `CommitClose` writes from what
`LoadOrders` read: a row that is gone by then is still written to the history, because SQLAlchemy only
warns when a DELETE matches no row; an UPDATE that matches none (`UpdateMissesRow`) is an error.

The code itself excludes no overlap of requests.  The constant `Exclusive` says which requests for one
table do not overlap in a run: `"customer"` stands for one tablet per table that waits for its answer,
`"staff"` for one member of staff at a time per table.  Requests for different tables always overlap
freely.  Nothing in the code enforces `Exclusive`, so the properties come in two kinds.  Those of
`MCOverlap` need no such assumption: among them `LeftoverOnlyIfLate` and `AtomicUnlessStale`, which say
what overlapping requests of one table can do and that they can do no more.  `StaleCommit` lists it: an
order for a session closed meanwhile (`LateOrder`), a close whose list of orders is out of date
(`MissedOrders`) or whose session is not the table's only active one, a status set on an order that has
changed.  Each of the four is needed: without any one of them `MCOverlap` finds a step that is neither
atomic nor excepted.  Those of `MCSerial` are what restaurants with one tablet and one member of staff
per table rely on; section 4 says what happens without.

### 2.2 `OrderEvents`

`rows` and `closed` are what is committed; `jobs` are requests between their commit and their event:
`ReadBack` is `db.refresh` and the lookup of the order that is to be published (a row that is gone ends
the request without an event), `ReadBackFails` an error in it, `Publish` hands the frame to the
subscriber's queue, where a full queue drops it.  `Close` sends nothing: the broker finds no `store_id`
in the events of a close and drops them.  `Subscribe`, `ReadSnapshot`, `ReceiveSnapshot` and `Receive`
are the stream; `Break`, `Restart` and `Remount` lose it, with what is queued.  `AnswerList` and
`ReceiveList` are the dashboard's own REST list.  `OpenDetail`, `Ask`, `Serve`, `Answered` and
`CloseDetail` are the detail window, whose request is served like any other but goes back to this screen.
The request (`asked`) names a row id and the status to set; the server takes it for whichever order has
that id by then and refuses a status that is not its next one (`Advances`).

List and stream are requested together and race; two requests that changed one order publish in either
order; a request may fail after its commit; a full queue drops frames.  Each of these can leave one row
of the screen wrong, and no later event is sure to mend it.  The history variable `spoiled` keeps the ids of the
rows concerned, marked by the very step that does the damage (`Spoil`), until the next snapshot has been
read with nothing of them on the way.  `UnseenShown`, `StoredIsShown` and `Converges` hold for every
other row, so they say that a dashboard is wrong for these reasons, in these rows, that long, and never
otherwise.

### 2.3 The tablet: `Checkout`, `OrderPages`, `TabletIdentity`

- `Checkout`: `menu` is what the server sells, `browsed` what the menu page read of it, `cart` the stored
  cart, `posts` the requests whose answer has not been handled: a page that is left leaves its request
  going on, a reload forgets it.  `Serve` prices anew, and answers an order it has stored with success or,
  when reading it back after the commit fails, with an error; `Lose` is the network, which may turn any
  answer into an error.  `Handle` empties the cart wherever the customer is.
  A cart maps each menu in it to its line.  `chosen` counts the pieces the customer asked for and
  `ordered` those in stored orders, by menu; `unsure` counts those in stored orders whose success no page
  that confirmed them has seen; the three are history variables.  A total is kept as its terms,
  one amount per line: that is more than the sum, which two wrong amounts could still make up.
- `OrderPages`: `loaded` are the pages listed, each as the set of its rows, which a page has in order of
  their ids; `state` is cursor, `hasMore` and `loading`; `rendered` is that state as the last render
  saw it, which is what `loadMore` decides on.  `InView` is the observer's report, `Read` the server's
  query, `Arrive` a page, `Fail` an error.  `Place` gives a new order any id above the session's stored
  ones: ids of deleted last rows come again, and orders of other tables leave gaps.  `late` are the
  orders that got an id at or below a row read already, a history variable.  `Prompt` says that React
  renders before the observer reports.
- `TabletIdentity`: `config` and `saved` are the entries of localStorage, `info` is the context, `boots`
  the table-login requests of layout, start page and form, `open` and `tableOf` the server's sessions.
  `Mount` is a page load with the effects of the start page and of the layout, in this order.

`Checkout` and `TabletIdentity` carry the assumptions of a behaviour in a variable `ideal` that is chosen
at the start among the constant `Ideals` and never changes: one run checks several of them side by side,
and a property names the assumption it needs as its antecedent.

### 2.4 The desks: `MenuAdmin`, `AdminAccess`, `HistoryDays`, `ClosingDesk`

- `MenuAdmin`: several desks with their list, form and request, and the table `menu`.  The place of a
  new menu is read (`ReadLast`) before it is inserted (`Create`); `Reorder` writes the places of a list
  the desk loaded earlier; every change is followed by `load()` (`Answered`, `List`, `Load`).  The order
  of a category is kept as the position of each of its menus (`Listed`), and so is the one a move asks
  for, which exchanges two neighbours.  `staff`, chosen at the start, says which desks are at work.
- `AdminAccess`: `Pass` is the check of the lock, `RegisterFailure` and `RegisterSuccess` what follows
  the verification of the password; attempts overlap in between.  `Lose` is a lost connection, a reload
  or the back button at any moment: the form can be sent again, and the attempt goes on in its thread
  (`gone`, by stage; `PassGone`, `RegisterGone`, `RefuseGone`), to be counted as a failure or a success.
  What limits the overlap is the pool of threads that runs the endpoint (`Busy < Threads`), because an
  attempt holds its thread from the check to the count.  Time is what is left of a lock or token and runs
  down by `Tick`.
- `HistoryDays`: hours in UTC, a store whose clock is `Offset` ahead, filters by local days.  A list is
  the place of each of its rows, with the filter it was read with and the number of rows there were then.
  Closes commit out of the order they began in.
- `ClosingDesk`: `Number` gives the number painted on the table with a row id; a close is one step.

### 2.5 `OrderNumbers`

Numbers as sequences of digits, padded to `Width`, compared as texts.  The code has base 10 and width 3;
the run takes base 3 and width 2, so that the first longer number is the 9th instead of the 1000th.

## 3. What the runs check

| run | what may happen | instance | properties |
|---|---|---|---|
| `MCOverlap` | every overlap, failures, restarts | 2 threads, 2 tables, 2 orders, 3 sessions | `TypeOK`, `KeysUnique`, `RowsFollowSession`, `ArchiveImpliesClosed`, `LeftoverOnlyIfLate`, `AtomicUnlessStale` |
| `MCSerial` | requests for different tables overlap | 2 threads, 2 tables, 3 orders, 3 sessions | `AtMostOneActive`, `NothingLost`, `OneFate`, `StatusForward`, `RefinesService` |
| `MCEvents` | everything but two requests between commit and event: late list, full queue, failures, breaks, restarts, the detail window | 2 orders, 1 break, 1 thread, queue of 1 | `TypeOK`, `UnseenShown` |
| `MCConverge` | everything, with two requests that publish in any order | 1 order, 1 break, 2 threads, queue of 1, 1 preview | `NeverAhead`, `StoredIsShown`, `Converges` |
| `MCCheckout` | always losses and errors for stored orders; with a fixed menu reloads and pages left as well, with a changing one a customer who stays | 2 menus at any of 2 prices, 2 confirmations, at most 2 of a menu in the cart, 3 pieces wanted | `TypeOK`, `NothingTwice`, `NothingWiped`, `TotalAgrees`, `ConfirmEnds` |
| `MCIdentity` | everything; an orderly set-up; a tablet not moved | 2 tables, 2 sessions | `TypeOK`, `FollowsConfig`, `SessionOfTable`, `StartEnds` |
| `MCOrderPages` | orders placed and deleted, ids given out again, while pages load; one error | ids up to 5, pages of 2 | `TypeOK`, `InOrder`, `NoGap`, `ReachesEnd` |
| `MCMenus` | one desk with several forms, two desks, lost answers | 2 desks, 2 categories, 4 forms (2 for two desks) | `TypeOK`, `ShownIsStored`, `MovedAsAsked`, `SavedOnce`, `BusyEnds` |
| `MCAccess` | overlapping attempts, also of pages that are gone, restarts, losses, expiry | 2 desks, 2 attempts of gone pages, 3 threads, limit 2, lock 2, token 2 | `TypeOK`, `FailuresBounded`, `LockEnds` |
| `MCHistory` | closes, edits, reads and failures while time passes | 2 days of 3 hours, offset 1, 2 rows, 6 filters | `TypeOK`, `RightDays`, `NewestFirst` |
| `VThousandth` | orders and deletions of a day | base 3, width 2 | `NextIsNew` is violated |
| `VNextParty` | closes, one lost answer | 1 desk, 2 tables, 2 parties | `EndsMeant` is violated |

**Why the bounds are enough.**  Two threads make any race of two requests; with two orders an id or a
number is taken, freed and taken again; three sessions let a table be closed and opened again while a
request holds the first.  In `OrderEvents` one order with two threads and a break lets its frame be lost,
overtaken or hidden by a list, and a second order lets an id be used again and a queue of one be full
with another's frame.  Two confirmations are what it takes to order twice; a `MaxQuantity` of 2 with 3
pieces wanted meets the cap.  Five ids in pages of 2 have a full page, a seam inside changes, and a last
page that is not full, and let an id behind a seam come again.  Two desks of staff and four forms leave equal places and gaps behind.  Two desks and
two pages that are gone fill three threads, which overrun a limit of 2 by two: the bound is reached.  Two days of three hours with an offset of one have a local midnight on
either side of the UTC one.  For the properties of section 5 the proofs cover every other size.

Workers and tables are symmetric in `MCOverlap` and `MCSerial`; no run with symmetry checks liveness.

**Fairness, and why the code justifies it.**  The browser settles every request it has sent, by its
answer or an error, and the server's threads go on when nothing stops them (`Publishing`, `Requests`,
`Serve`, `Accepted \/ Failed`).  The stream is opened again after a delay without a limit on attempts
(`Reopen`).  React renders what has changed, and the end of the list stays in view (`Loading`).  The
clock ticks (`Tick`), and attempts nobody waits for come to their end (`ServeGone`).  Nothing is assumed of what customers, staff, failures or restarts do.  Under
this: `Converges`, `ConfirmEnds`, `StartEnds`, `ReachesEnd`, `BusyEnds`, `LockEnds`.  `TableOrders` has no
liveness property: a request ends or fails whenever its thread runs, and none waits for another.

Deadlock is not checked (`CHECK_DEADLOCK FALSE`) where the system may stop because users have done all
that the bounds allow.  It is checked in `MCOverlap`, `MCSerial`, `MCAccess`, `MCHistory` and
`VNextParty`.

## 4. Where code and documents disagree

Two runs are refutations of a statement of the documents in ordinary use:

- `VThousandth`: numbers of a day grow (`u4-cart-order/nfr/nfr-requirements.md`).  The last number is
  found by comparing texts (`repositories/order.py:109`): `999` stays above `1000`, and every order from
  the 1001st of a day on fails at the UNIQUE index.
- `VNextParty`: closing a session that is closed already is a CONFLICT
  (`u6-session-lifecycle/functional-design/business-rules.md`).  The request names the table only; the
  retry after a lost answer closes the session of the next party.

The properties of the other runs hold, some of them under an assumption or with an exception that they
state.  What goes wrong there was met while modelling, and each case is reproduced by the change named
here:

| what happens | where | change that shows it |
|---|---|---|
| Two first orders of a table overlap and open two sessions | `lifecycle.py:34` | `MCSerial` with `Exclusive <- Nobody`: `AtMostOneActive` |
| A close commits between an order's read of the session and its insert: the order is left in a closed session, in no list and no history | `create.py:103` | `MCOverlap` with `LateOrder` dropped from `LeftoverOnlyIfLate` |
| An order commits between a close's read of the orders and its commit, and is left behind alike | `lifecycle.py:64` | ... with `MissedOrders` dropped |
| Two closes archive an order twice; an order is deleted after the close has loaded it and archived all the same | `lifecycle.py:64` | `MCSerial` with `Exclusive <- Nobody`: `OneFate` |
| The row id a delete holds belongs to a new order by then, which is deleted | `models/order.py:12` | ... `NothingLost` |
| A change validated against an old status puts an order back | `admin.py:103` | ... `StatusForward` |
| A number conflict is not retried: the flush that raises it is outside the `try` | `create.py:130`, `:145` | no change: `NumberCollision` ends the request |
| Numbers start again during the day: the maximum is taken over live orders, and closes empty the table | `repositories/order.py:109` | no change: with all orders archived `ReadNumber` reads 0 |
| An update overtakes another on its way to the broker, the dashboard keeps the older | `order_event_broker.py:115` | `MCConverge` without the mark in `Committed`: `StoredIsShown` |
| A late list hides events; marks of orders that are not shown | `MonitoringDashboardView.tsx:38` | ... without the mark in `ReceiveList`: `StoredIsShown`; in `MCEvents`: `UnseenShown` |
| `db.refresh` fails after the commit and the event is never sent | `create.py:158` | ... without the mark in `ReadBackFails`: `StoredIsShown` |
| A full queue drops a frame for good | `order_event_broker.py:124` | ... without the mark in `Publish`: `StoredIsShown` |
| Orders archived by a close stay on the dashboard: its events are dropped | `lifecycle.py:78` | no change: strengthen `StoredIsShown` to `Quiet => shown = rows` |
| The detail window names a stored order by the row id of one that is gone | `OrderDetailModal.tsx:86` | no change: `asked` names an id only, and `Target` is the order that has it when the request is served |
| The answer to an order is lost, or is an error though the order is stored: the customer confirms again and it is ordered twice | `OrderConfirmView.tsx:35`, `create.py:158` | `MCCheckout` without `unsure` in `NothingTwice` |
| The confirm page is left; the late success empties what was chosen since | `OrderConfirmView.tsx:49` | ... without `"stays"` in `NothingWiped` |
| The price changes between browsing and ordering: the total charged is not the one shown | `cart-logic.ts:42` | ... without `"fixedMenu"` in `TotalAgrees` |
| A table-login of the layout fails silently; a form saves credentials before they are checked; an order is sent before the new table's login is answered | `main.tsx:61`, `TableLoginView.tsx:28` | `MCIdentity` without `"reliable"`, `"careful"` or `"waits"`, `Orderly` weakened alike: `FollowsConfig` |
| A tablet moved to another table lists the orders of the session of the old one | `table-session-context.tsx:67` | ... without `"settled"`: `SessionOfTable` |
| The start page of a tablet that the layout is about to configure asks for a set-up | `AutoLoginBootstrap.tsx:12` | no change: `Mount` from an empty `config` ends in `"unconfigured"` |
| The observer reports before the next render and a page is loaded twice | `CurrentOrdersView.tsx:30` | `MCOrderPages` with `Prompt = FALSE`: `InOrder` |
| An order gets the id of deleted ones after that id was read, and is never listed | `models/order.py:12`, `repositories/order.py:64` | `MCOrderPages` without `late` in `NoGap` |
| Two desks, or a lost answer: a desk works from an old list, a move ends in another order, a form is saved as a second menu | `MenuManageView.tsx:67`, `repositories/menu.py:45` | `MCMenus` with `Alone`, or `losses = 0`, dropped: `ShownIsStored`, `MovedAsAsked`, `SavedOnce` |
| Overlapping attempts overrun the limit of failures, by as many threads as there are but one | `auth_service.py:79` | `MCAccess` with `Bound == MaxFailures`: `FailuresBounded` |
| A page other than the dashboard stays open when its token has expired | `api-client.ts:55` | no change: `Tick` leaves `page` alone |
| The number typed to close a table is used as its row id | `CloseTableView.tsx:20` | `VNextParty` with `MaxLosses = 0` and `Number(t) == 3 - t`: `EndsMeant` |
| Times of the history come without a zone and are shown as if they were local | `OrderHistoryView.tsx:11` | outside `HistoryDays`, which is about the rows selected |

## 5. What is proved

For every value of the constants that satisfies the modules' assumptions (`tlapm` checks all proofs):

| theorem | assumption | statement |
|---|---|---|
| `TypeCorrect` | – | `TableOrders`: `[]TypeOK` |
| `KeysStayUnique`, `RowsKeepTable`, `ArchivedIsClosed` | – | `[]KeysUnique`, `[]RowsFollowSession`, `[]ArchiveImpliesClosed` |
| `OneTabletOneSession` | `"customer" \in Exclusive` | `[]AtMostOneActive` |
| `OneStaffNothingLost`, `OneStaffOneFate`, `OneStaffStatusForward` | `"staff" \in Exclusive` | `[]NothingLost`, `[]OneFate`, `StatusForward` |
| `LeftBehindLate` | – | `LeftoverOnlyIfLate` |
| `StepsAreAtomic` | – | `AtomicUnlessStale`, the refinement of `TableService` step by step |
| `EventsTypeCorrect`, `CopiesNeverAhead` | – | `OrderEvents`: `[]TypeOK`, `[]NeverAhead` |
| `MarksAreShown`, `ShownCatchesUp` | – | `[]UnseenShown`, `[]StoredIsShown` |
| `CheckoutTypeCorrect` | – | `Checkout`: `[]TypeOK` |
| `NothingOrderedTwice`, `WaitingNothingWiped`, `FixedMenuTotalAgrees` | –; the antecedents of the last two | `[]NothingTwice`, `[]NothingWiped`, `[]TotalAgrees` |
| `PagesTypeCorrect` | – | `OrderPages`: `[]TypeOK` |
| `PromptInOrder`, `PromptNoGap` | `Prompt` | `[]InOrder`, `[]NoGap` |
| `IdentityTypeCorrect` | – | `TabletIdentity`: `[]TypeOK` |
| `OrdersFollowConfig`, `ListsOwnSession` | the antecedents of the properties | `[]FollowsConfig`, `[]SessionOfTable` |
| `AccessTypeCorrect`, `OverrunBounded` | finitely many desks; limit, threads and times at least 1 | `AdminAccess`: `[]TypeOK`, `[]FailuresBounded` |
| `MenusTypeCorrect` | finitely many desks | `MenuAdmin`: `[]TypeOK` |
| `MenusSavedOnce`, `AloneShownIsStored`, `AloneMovedAsAsked` | the same and the antecedents of the properties | `[]SavedOnce`, `[]ShownIsStored`, `[]MovedAsAsked` |
| `HistoryTypeCorrect`, `ListsRightDays`, `ListsNewestFirst` | – | `HistoryDays`: `[]TypeOK`, `[]RightDays`, `[]NewestFirst` |

`MCSerial` checks `AtMostOneActive`, `NothingLost`, `OneFate` and `StatusForward` with both kinds of
request exclusive; the theorems show that one kind is enough for each.

The inductive invariants:

In `TableOrdersProofs`:

- `DataInv` adds to the three data properties that uids do not exceed `placed` and that what requests
  hold agrees with the stored sessions (`JobFollowsSession`): without it an insert or a close could write
  a row for the wrong table.
- `Excluded` says that requests of exclusive kinds are for different tables.  `SessionInv` adds that a
  request about to open a session is right that there is none (`OpeningRight`): the fact that the
  check-then-insert loses when two customers' requests overlap.
- `FateInv` says that the rows a request of staff has read are still stored, unchanged (`JobsHoldRows`).
  It needs `Excluded` for staff only, because customers only add rows.
- `LeftBehindLate` and `StepsAreAtomic` follow from `TypeOK` and `DataInv`, action by action, with no
  assumption on overlaps: `OpenSession` is `Sit` (or nothing, where the table is occupied already),
  `InsertOrder` in an active session `Place`, `UpdateStatus` of the order that was read `Advance`,
  `DeleteOrder` `Strike` or nothing, `CommitClose` of exactly the session's orders `Settle`; everything
  else is stuttering or named in `StaleCommit`.

In `OrderEventsProofs`:

- `CopyInv` extends `NeverAhead` to the rows requests have committed and not yet read back
  (`HeldBehind`), and adds that stored orders differ in uid and none exceeds `placed` (`RowsApart`): a
  read back by row id may otherwise copy another order.  Every commit is shown to move rows on only
  (`RowsGoOn`), every other step to copy what is held or stored.  `UnseenShown` is inductive by itself
  (`MarkStep`): only a late list takes a marked row off a running stream's screen, and it spoils it.
- `SyncInv` follows each order from its commit to the screen.  What will be shown of an order is its last
  frame in the queue or, without one, its copy in the snapshot or list the queue is applied to
  (`Coming`).  `InStep` says that this is the stored row unless a request has yet to publish it, and that
  nothing else is coming but what a close has archived or a request is about to correct, but for spoiled
  ids.  `JobsFit` says that an id that is not spoiled has one request at a time, which knows the row as it
  is stored: the two requests that could overtake each other spoil it when the second commits.  The
  snapshot forgets what is spoiled (`SyncSnapshot`) because it makes every row's copy the stored one,
  except of those still on the way.

In the modules of the tablet:

- `ConfigRight` (`TabletIdentityProofs`) says that pending table-logins are for the current
  configuration, and that a context of another table has one pending to correct it.  `SessionInv` adds
  that the saved session is of the configured table (`SavedOfTable`) and that a session is open for the
  table it was opened for (`OpenOfTable`).
- `PieceInv` (`CheckoutProofs`) adds to `NothingTwice` that a request whose page is still open was made
  of the cart as it is (`PageInv`), so that the success that empties the cart and lowers `unsure` counts
  the same pieces.  `WaitInv` says that a customer who stays has one request at most, whose success stands
  for the pieces in the cart until it is handled.  `PriceInv` says that with a fixed menu every line, in
  the cart or in a request, has the price the server has.
- `ListInv` (`OrderPagesProofs`) says that while there is more to load there is one request at most,
  which asks for what follows the cursor (`OneRequest`), that the list goes up to the cursor
  (`UpToCursor`) and the page on its way goes on from there (`PagesGoOn`), and that both leave out none
  but late orders; a new order is late or above all that has been read (`PlaceFresh`).  `TypeInv` carries
  `TypeOK`.

In the modules of the desks:

- `CountInv` (`AdminAccessProofs`) counts failures together with the attempts that have passed the check
  and are not counted yet, waited for or not (`Counted`), of which there are no more than threads
  (`WithinPool`); a full count has a lock (`FullIsLocked`), which lets no further attempt pass until the
  count is forgotten.
- `MenuInv` (`MenuAdminProofs`) is what the types of ids and places rest on, which the code derives from
  the rows there are: a menu comes from a new form or from one whose answer was lost, so that no id
  exceeds `Room`, the forms and losses so far less the forms that may still create a menu.
- `SaveInv` says that without a loss a form is with one menu or one page, never with two.  `AloneInv`
  says what a desk that works alone knows of the stored list: it is the one shown while the page is
  idle, before a request takes effect and once the list is loaded again; and between a move and its list
  the stored order is the one asked for.  Its lemmas are about positions: those of a category are `1` to
  `n`, each once (`ListedRanks`), an exchange keeps them so (`SwappedRanks`), and places written from
  such positions are listed in them again (`PlacedListed`).
- `HistoryInv` (`HistoryDaysProofs`) says that rows are numbered as they are stored (`Numbered`), that a
  list holds the rows of its filter among those there were (`Held`) and that their places are in order,
  each once (`Sorted`).  `SelectedDays` relates the two UTC bounds to the local day of each row, for any
  offset within a day.

**Only model-checked:** the liveness properties `Converges`, `ConfirmEnds`, `StartEnds`, `ReachesEnd`,
`BusyEnds` and `LockEnds`, because fairness is stated with `ENABLED`, about which the prover cannot
reason.  The theorem `ShownCatchesUp` is the safety half of `Converges`: when everything sent has
arrived, the screen is right, the spoiled rows excepted.  `RefinesService` is checked in `MCSerial`; what
holds of it without assuming that requests do not overlap is the theorem `StepsAreAtomic`, and that no
commit is stale where they do not is only model-checked.  The two refutations of section 4 have nothing
to prove, and `OrderNumbers` and `ClosingDesk` exist for them.  Every other invariant and action property
of the other runs is stated by a theorem.

## 6. What is not modelled, and what is abstracted

Left out, because they keep no state that a property could be about: the dashboard's filter bar and
totals per card, layout and navigation, error texts, schemas, configuration and seed data, the image and
price inputs of the menu form, the form of the table setup, keep-alive frames of the stream, hashing of
passwords and signing of tokens.  Several stores are left out: the seed data creates one, no endpoint
adds another, and every query is by store.

Abstractions a reader should know of:

- Bounds (`MaxOrders`, `MaxSessions`, `MaxBreaks`, `MaxConfirms`, `MaxForms`, `MaxErrors`, `MaxRows`,
  `MaxParties`, `MaxLosses`, ...) only guard the step that would exceed them.
- `OrderEvents` has one dashboard: subscribers do not affect each other.  Its detail window has one
  request pending at a time.  One step of `Restart` ends every request.
- `MenuAdmin` takes the SELECT and UPDATE of one row by one request as one step, leaves a page only while
  no request is pending, and gives a menu its category when the form is sent.
- `AdminAccess` leaves out what the late answer of a form left inside the app shows (its failure counts
  all the same), and chooses whether the password of an attempt whose page is gone was right when it is
  counted.
- `TabletIdentity` keeps equal pending requests as one, since their answers have the same effect, and
  `ClosingDesk` leaves out the message shown after a success.
- `OrderNumbers` and `ClosingDesk` are only used by the two runs of section 4, which check one property
  each, so their `TypeOK` is not among the properties of a run.
