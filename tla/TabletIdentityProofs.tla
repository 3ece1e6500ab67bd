-------------------------- MODULE TabletIdentityProofs -------------------------
(* What holds of TabletIdentity for any tables, any number of sessions and        *)
(* whatever is excluded: with an orderly set-up a tablet orders for the table it  *)
(* is configured for, and if it keeps that table it lists a session of it.        *)
EXTENDS TabletIdentity, SequenceTheorems, TLAPS

Boots == [from : {"layout", "start", "login"}, config : Configs]

(* A tablet that shows a page for guests, or has asked for its table, is          *)
(* configured.                                                                    *)
Typed == TypeOK /\ (page # "admin" \/ boots # {} => config # None)

(* Requests under way ask for the table configured, with the right password; only *)
(* they can correct a context of another table, and they will.                    *)
ConfigRight == Orderly =>
  /\ config # None => config.valid
  /\ \A b \in boots : b.config = config
  /\ page # "admin" /\ info # None => boots # {} \/ info.table = config.table

(* A tablet that keeps its table has stored a session of it.                      *)
SavedOfTable == Orderly /\ "settled" \in ideal /\ saved # 0 =>
  config # None /\ tableOf[saved] = config.table

(* The session that is open for a table was opened for it.                        *)
OpenOfTable == \A t \in Tables : open[t] # 0 => tableOf[open[t]] = t

--------------------------------------------------------------------------------
(* Typing.                                                                        *)

LEMMA MountTyped ==
  ASSUME TypeOK, NEW next \in {"start", "login", "menu"}, NEW pending \in SUBSET boots,
         Mount(next, pending)
  PROVE  /\ page' \in {"start", "login", "menu", "admin"}
         /\ status' \in {"checking", "unconfigured", "error"}
         /\ config' \in Configs /\ boots' \subseteq Boots
         /\ config # None => config' = config
         /\ config = None => config' = [table |-> DefaultTable, valid |-> TRUE]
         /\ page' = next
         /\ boots' # {} /\ \A b \in boots' \ pending : b.config = config'
<1> DEFINE cfg == IF config = None THEN [table |-> DefaultTable, valid |-> TRUE] ELSE config
           fromLayout == [from |-> "layout", config |-> cfg]
           fromStart  == [from |-> "start", config |-> cfg]
<1>1. cfg \in Configs
  BY IdentityAssumption DEF TypeOK, Configs
<1>2. boots' \subseteq pending \cup {fromLayout, fromStart} /\ fromLayout \in boots'
  BY DEF Mount
<1>3. fromLayout \in Boots /\ fromStart \in Boots
  BY <1>1 DEF Boots
<1>4. config' = cfg
  BY DEF Mount
<1>5. boots' \subseteq Boots
  BY <1>2, <1>3 DEF TypeOK, Boots
<1>6. \A b \in boots' \ pending : b.config = config'
  <2>1. fromLayout.config = cfg /\ fromStart.config = cfg
    OBVIOUS
  <2> QED
    BY <1>2, <1>4, <2>1
<1>7. page' = next /\ status' \in {"checking", "unconfigured", "error"}
  BY DEF Mount
<1> QED
  BY <1>1, <1>2, <1>4, <1>5, <1>6, <1>7

LEMMA UncancelledTyped ==
  ASSUME TypeOK
  PROVE  /\ Uncancelled \subseteq Boots
         /\ \A c \in Uncancelled : \E b \in boots : c.config = b.config
         /\ boots # {} => Uncancelled # {}
<1>1. \A b \in boots : b \in Boots
  BY DEF TypeOK, Boots
<1>2. \A b \in boots : [b EXCEPT !.from = "layout"] \in Boots
                       /\ [b EXCEPT !.from = "layout"].config = b.config
  BY <1>1 DEF Boots
<1> QED
  BY <1>1, <1>2 DEF Uncancelled

LEMMA InitTyped == Init => Typed
BY IdentityAssumption DEF Init, Typed, TypeOK, None

LEMMA TypeStep == Typed /\ [Next]_vars => Typed'
<1> SUFFICES ASSUME Typed, [Next]_vars PROVE Typed'
  OBVIOUS
<1> USE DEF Typed
<1>1. CASE UNCHANGED vars
  BY <1>1 DEF vars, TypeOK
<1>0. \A c \in Configs : c # None
  BY IdentityAssumption DEF Configs, None
<1>2. ASSUME NEW next \in {"start", "login", "menu"}, Enter(next) PROVE Typed'
  BY <1>0, <1>2, MountTyped DEF Enter, TypeOK, Boots
<1>3. ASSUME NEW next \in {"start", "login", "menu"}, Load(next) PROVE Typed'
  BY <1>0, <1>3, MountTyped DEF Load, TypeOK, Boots
<1>4. ASSUME NEW next \in {"start", "login", "menu"}, Go(next) PROVE Typed'
  <2>1. config \in Configs /\ config # None
    BY <1>4 DEF Go, TypeOK
  <2>2. [from |-> "start", config |-> config] \in Boots
    BY <2>1 DEF Boots
  <2>3. boots' \subseteq Boots
    BY <1>4, <2>2, UncancelledTyped DEF Go
  <2> QED
    BY <1>4, <2>1, <2>3 DEF Go, TypeOK, Boots
<1>5. CASE Leave
  BY <1>5, UncancelledTyped DEF Leave, TypeOK, Boots
<1>6. ASSUME NEW cfg \in Configs, LogIn(cfg) PROVE Typed'
  BY <1>0, <1>6 DEF LogIn, Configure, TypeOK
<1>7. ASSUME NEW t \in Tables, SetUp(t) PROVE Typed'
  BY <1>0, <1>7 DEF SetUp, Configure, TypeOK, Configs
<1>8. ASSUME NEW b \in boots, Accepted(b) PROVE Typed'
  <2>1. config # None
    BY <1>8 DEF Accepted
  <2> QED
    BY <2>1, <1>8 DEF Accepted, Context, TypeOK, Configs
<1>9. ASSUME NEW b \in boots, Failed(b) PROVE Typed'
  BY <1>9 DEF Failed, TypeOK
<1>10. CASE Order
  BY <1>10 DEF Order, OrderedAt, TypeOK
<1>11. ASSUME NEW t \in Tables, Close(t) PROVE Typed'
  BY <1>11 DEF Close, TypeOK
<1> QED
  BY <1>1, <1>2, <1>3, <1>4, <1>5, <1>6, <1>7, <1>8, <1>9, <1>10, <1>11
     DEF Next, Guest, Staff, Answering

--------------------------------------------------------------------------------
(* A request that is served correctly settles the table.                          *)

LEMMA ConfigStep == Typed /\ ConfigRight /\ [Next]_vars => ConfigRight'
<1> SUFFICES ASSUME Typed, ConfigRight, [Next]_vars, Orderly' PROVE
      /\ config' # None => config'.valid
      /\ \A b \in boots' : b.config = config'
      /\ page' # "admin" /\ info' # None => boots' # {} \/ info'.table = config'.table
  BY DEF ConfigRight
<1> DEFINE Goal == /\ config' # None => config'.valid
                   /\ \A b \in boots' : b.config = config'
                   /\ page' # "admin" /\ info' # None
                        => boots' # {} \/ info'.table = config'.table
<1>0. /\ Orderly /\ TypeOK
      /\ config # None => config.valid
      /\ \A b \in boots : b.config = config
      /\ page # "admin" /\ info # None => boots # {} \/ info.table = config.table
  <2>1. ideal' = ideal
    BY DEF Next, Guest, Staff, Answering, Enter, Load, Go, Leave, LogIn, SetUp, Accepted,
           Failed, Order, Close, vars
  <2> QED
    BY <2>1 DEF ConfigRight, Orderly, Typed
<1>1. CASE UNCHANGED vars
  BY <1>0, <1>1 DEF vars
<1>a. ASSUME NEW next \in {"start", "login", "menu"}, NEW pending \in SUBSET boots,
             Mount(next, pending)
      PROVE  Goal
  <2>1. /\ boots' # {} /\ \A b \in boots' \ pending : b.config = config'
        /\ config # None => config' = config
        /\ config = None => config' = [table |-> DefaultTable, valid |-> TRUE]
    BY <1>0, <1>a, MountTyped
  <2>2. config = None => boots = {}
    BY DEF Typed
  <2>3. config' # None => config'.valid
    BY <1>0, <2>1
  <2> QED
    BY <1>0, <2>1, <2>2, <2>3
<1>2. ASSUME NEW next \in {"start", "login", "menu"}, Enter(next) PROVE Goal
  BY <1>2, <1>a DEF Enter
<1>3. ASSUME NEW next \in {"start", "login", "menu"}, Load(next) PROVE Goal
  BY <1>3, <1>a DEF Load
<1>4. ASSUME NEW next \in {"start", "login", "menu"}, Go(next) PROVE Goal
  <2>1. \A c \in Uncancelled : c.config = config
    BY <1>0, UncancelledTyped
  <2>2. boots # {} => boots' # {}
    BY <1>0, <1>4, UncancelledTyped DEF Go
  <2>3. [from |-> "start", config |-> config].config = config
    OBVIOUS
  <2>4. \A b \in boots' : b.config = config'
    BY <1>4, <2>1, <2>3 DEF Go
  <2> QED
    BY <1>0, <1>4, <2>2, <2>4 DEF Go
<1>5. CASE Leave
  <2>1. \A c \in Uncancelled : c.config = config
    BY <1>0, UncancelledTyped
  <2> QED
    BY <1>0, <1>5, <2>1 DEF Leave
<1>6. ASSUME NEW cfg \in Configs, LogIn(cfg) PROVE Goal
  <2>1. boots = {} /\ config' = cfg /\ cfg.valid
    BY <1>0, <1>6 DEF LogIn, Configure, Orderly
  <2>2. boots' = {[from |-> "login", config |-> cfg]}
    BY <1>6, <2>1 DEF LogIn
  <2> QED
    BY <2>1, <2>2
<1>7. ASSUME NEW t \in Tables, SetUp(t) PROVE Goal
  <2>1. boots' = {} /\ config' = [table |-> t, valid |-> TRUE] /\ page' = "admin"
    BY <1>0, <1>7 DEF SetUp, Configure, Orderly
  <2> QED
    BY <2>1
<1>8. ASSUME NEW b \in boots, Accepted(b) PROVE Goal
  <2>1. b.config = config /\ config' = config
    BY <1>0, <1>8 DEF Accepted
  <2>2. info'.table = config'.table
    BY <1>8, <2>1 DEF Accepted, Context
  <2> QED
    BY <1>0, <1>8, <2>2 DEF Accepted
<1>9. ASSUME NEW b \in boots, Failed(b) PROVE Goal
  <2>1. b.config = config /\ config # None
    BY <1>0, <1>9 DEF Typed
  <2>2. ~MayFail(b)
    BY <1>0, <2>1 DEF MayFail, Orderly
  <2> QED
    BY <1>9, <2>2 DEF Failed
<1>10. CASE Order
  <2>1. /\ info # None /\ info'.table = info.table
        /\ boots' = boots /\ config' = config /\ page' = page
    BY <1>0, <1>10 DEF Order, OrderedAt, TypeOK
  <2> QED
    BY <1>0, <2>1
<1>11. ASSUME NEW t \in Tables, Close(t) PROVE Goal
  BY <1>0, <1>11 DEF Close
<1> QED
  BY <1>1, <1>2, <1>3, <1>4, <1>5, <1>6, <1>7, <1>8, <1>9, <1>10, <1>11
     DEF Next, Guest, Staff, Answering

--------------------------------------------------------------------------------
(* Sessions.                                                                      *)

SessionInv == SessionOfTable /\ SavedOfTable /\ OpenOfTable

(* A step that leaves the server's sessions alone.                                *)
LEMMA TabletStep ==
  ASSUME Typed, SessionInv, UNCHANGED <<saved, open, tableOf, ideal>>,
         SavedOfTable',
         info' = info \/ info' = None
           \/ \E b \in boots : info' = Context(b) /\ (Orderly => b.config = config)
  PROVE  SessionInv'
<1>1. OpenOfTable'
  BY DEF SessionInv, OpenOfTable
<1>2. SessionOfTable'
  <2> SUFFICES ASSUME Orderly', ("settled" \in ideal)', info' # None, info'.session # 0
               PROVE  tableOf'[info'.session] = info'.table
    BY DEF SessionOfTable
  <2>1. Orderly /\ "settled" \in ideal
    BY DEF Orderly
  <2>2. CASE info' = info
    BY <2>1, <2>2 DEF SessionInv, SessionOfTable
  <2>3. ASSUME NEW b \in boots, info' = Context(b), b.config = config
        PROVE  tableOf'[info'.session] = info'.table
    BY <2>1, <2>3 DEF Context, SessionInv, SavedOfTable
  <2> QED
    BY <2>1, <2>2, <2>3
<1> QED
  BY <1>1, <1>2 DEF SessionInv

LEMMA SessionStep == Typed /\ ConfigRight /\ SessionInv /\ [Next]_vars => SessionInv'
<1> SUFFICES ASSUME Typed, ConfigRight, SessionInv, [Next]_vars PROVE SessionInv'
  OBVIOUS
<1>0. /\ Typed' /\ TypeOK /\ TypeOK'
      /\ \A b \in boots : Orderly => b.config = config
  BY TypeStep DEF Typed, ConfigRight
<1>a. ASSUME UNCHANGED <<saved, tableOf, ideal>>, config' = config \/ config = None
      PROVE  SavedOfTable'
  BY <1>a DEF SessionInv, SavedOfTable, Orderly
<1>b. ASSUME NEW cfg \in Configs, Configure(cfg), UNCHANGED <<saved, tableOf, ideal>>
      PROVE  SavedOfTable'
  <2>1. cfg # None
    BY IdentityAssumption DEF Configs, None
  <2> QED
    BY <1>b, <2>1 DEF Configure, SavedOfTable, Orderly
<1>1. CASE UNCHANGED vars
  BY <1>1, <1>a, TabletStep DEF vars
<1>2. ASSUME NEW next \in {"start", "login", "menu"}, Enter(next) PROVE SessionInv'
  <2>1. config # None => config' = config
    BY <1>0, <1>2, MountTyped DEF Enter
  <2> QED
    BY <1>2, <2>1, <1>a, TabletStep DEF Enter
<1>3. ASSUME NEW next \in {"start", "login", "menu"}, Load(next) PROVE SessionInv'
  <2>1. config # None => config' = config
    BY <1>0, <1>3, MountTyped DEF Load
  <2> QED
    BY <1>3, <2>1, <1>a, TabletStep DEF Load
<1>4. ASSUME NEW next \in {"start", "login", "menu"}, Go(next) PROVE SessionInv'
  BY <1>4, <1>a, TabletStep DEF Go
<1>5. CASE Leave
  BY <1>5, <1>a, TabletStep DEF Leave
<1>6. ASSUME NEW cfg \in Configs, LogIn(cfg) PROVE SessionInv'
  BY <1>6, <1>b, TabletStep DEF LogIn
<1>7. ASSUME NEW t \in Tables, SetUp(t) PROVE SessionInv'
  <2>1. [table |-> t, valid |-> TRUE] \in Configs
    BY DEF Configs
  <2> QED
    BY <1>7, <2>1, <1>b, TabletStep DEF SetUp
<1>8. ASSUME NEW b \in boots, Accepted(b) PROVE SessionInv'
  BY <1>0, <1>8, <1>a, TabletStep DEF Accepted
<1>9. ASSUME NEW b \in boots, Failed(b) PROVE SessionInv'
  BY <1>9, <1>a, TabletStep DEF Failed
<1>10. CASE Order
  <2> DEFINE t == info.table
             new == Len(tableOf) + 1
             id == IF open[t] = 0 THEN new ELSE open[t]
  <2>1. /\ info # None /\ t \in Tables /\ open[t] \in 0 .. Len(tableOf)
        /\ Len(tableOf) \in Nat /\ tableOf \in Seq(Tables)
    BY <1>0, <1>10 DEF Order, TypeOK
  <2>2. /\ tableOf' = IF id = new THEN Append(tableOf, t) ELSE tableOf
        /\ open' = [open EXCEPT ![t] = id]
        /\ saved' = id /\ info' = [info EXCEPT !.session = id]
        /\ UNCHANGED <<config, ideal>>
    BY <1>10 DEF Order, OrderedAt
  <2>3. /\ \A s \in 1 .. Len(tableOf) : tableOf'[s] = tableOf[s]
        /\ tableOf'[id] = t
    BY <2>1, <2>2 DEF SessionInv, OpenOfTable
  <2>4. OpenOfTable'
    <3> SUFFICES ASSUME NEW u \in Tables, open'[u] # 0 PROVE tableOf'[open'[u]] = u
      BY DEF OpenOfTable
    <3>1. open' \in [Tables -> Nat] /\ open[u] \in 0 .. Len(tableOf)
      BY <1>0 DEF TypeOK
    <3>2. CASE u = t
      BY <1>0, <2>1, <2>2, <2>3, <3>2 DEF TypeOK
    <3>3. CASE u # t
      <4>1. open'[u] = open[u] /\ open[u] \in 1 .. Len(tableOf)
        BY <1>0, <2>2, <3>1, <3>3 DEF TypeOK
      <4> QED
        BY <2>3, <4>1 DEF SessionInv, OpenOfTable
    <3> QED
      BY <3>2, <3>3
  <2>5. SessionOfTable'
    <3>1. info'.session = id /\ info'.table = t
      BY <1>0, <2>1, <2>2 DEF TypeOK
    <3> QED
      BY <2>3, <3>1 DEF SessionOfTable
  <2>6. SavedOfTable'
    <3> SUFFICES ASSUME Orderly' PROVE config' # None /\ tableOf'[saved'] = config'.table
      BY DEF SavedOfTable
    <3>1. Orderly /\ boots = {} /\ page # "admin"
      BY <1>10, <2>2 DEF Order, Orderly
    <3>2. config # None /\ t = config.table
      BY <2>1, <3>1 DEF Typed, ConfigRight
    <3> QED
      BY <2>2, <2>3, <3>2
  <2> QED
    BY <2>4, <2>5, <2>6 DEF SessionInv
<1>11. ASSUME NEW t \in Tables, Close(t) PROVE SessionInv'
  <2>1. OpenOfTable'
    BY <1>0, <1>11 DEF Close, SessionInv, OpenOfTable, TypeOK
  <2>2. SavedOfTable' /\ SessionOfTable'
    BY <1>11 DEF Close, SessionInv, SavedOfTable, SessionOfTable, Orderly
  <2> QED
    BY <2>1, <2>2 DEF SessionInv
<1> QED
  BY <1>1, <1>2, <1>3, <1>4, <1>5, <1>6, <1>7, <1>8, <1>9, <1>10, <1>11
     DEF Next, Guest, Staff, Answering

LEMMA InitRight == Init => Typed /\ ConfigRight /\ SessionInv
BY InitTyped DEF Init, ConfigRight, SessionInv, SessionOfTable, SavedOfTable, OpenOfTable

--------------------------------------------------------------------------------
(* What a tablet stores, knows and has asked for keeps its type.                  *)
THEOREM IdentityTypeCorrect == Spec => []TypeOK
<1>1. Typed => TypeOK
  BY DEF Typed
<1> QED
  BY <1>1, InitTyped, TypeStep, PTL DEF Spec

(* If set-ups, logins and orders wait for pending requests, credentials are right *)
(* and table-login requests are answered, a tablet whose requests have all been   *)
(* answered orders for the table it is configured for (bootstrap, confirm).       *)
THEOREM OrdersFollowConfig == Spec => []FollowsConfig
<1>1. Typed /\ ConfigRight => FollowsConfig
  BY DEF Typed, ConfigRight, FollowsConfig
<1> QED
  BY <1>1, InitRight, TypeStep, ConfigStep, PTL DEF Spec

(* ... and if it keeps its table once it has ordered, the session it lists is one *)
(* of that table (the id restored by bootstrap, setSessionId).                    *)
THEOREM ListsOwnSession == Spec => []SessionOfTable
<1>1. SessionInv => SessionOfTable
  BY DEF SessionInv
<1> QED
  BY <1>1, InitRight, TypeStep, ConfigStep, SessionStep, PTL DEF Spec

================================================================================
