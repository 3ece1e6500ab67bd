---------------------------- MODULE TabletIdentity -----------------------------
(* Which table and session a tablet believes it serves: the configuration and    *)
(* the session id in localStorage, the table-login requests of the layout, the   *)
(* start page and the login form, and the server's sessions behind them.         *)
EXTENDS Integers, Sequences

CONSTANTS Tables,
          DefaultTable, \* DEFAULT_TABLE, which an unconfigured tablet is given
          MaxSessions,  \* bound on sessions ever opened
          Ideals        \* sets of IdealKinds, see there

(* What the users and the network may be excluded to do.                       *)
IdealKinds == {"waits",    \* set-up, login and orders only when no request is pending
               "careful",  \* ... with the right credentials, and the form gets its answer
               "reliable", \* table-login requests are answered
               "settled"}  \* a tablet keeps its table once it has ordered

ASSUME IdentityAssumption ==
  /\ Tables \subseteq Nat \ {0} /\ DefaultTable \in Tables
  /\ MaxSessions \in Nat /\ Ideals \subseteq SUBSET IdealKinds

VARIABLES config,  \* TABLE_CONFIG_KEY: a table and whether its password is right
          saved,   \* TABLE_SESSION_ID_KEY, 0 if there is none
          info,    \* infoRef: what getContext answers
          page,    \* the route; pages of staff are "admin"
          status,  \* AutoLoginBootstrap's status
          boots,   \* pending table-login requests; equal ones have one effect
          open,    \* active session of each table, 0 if there is none
          tableOf, \* table of every session ever opened
          ideal    \* what is excluded in this behaviour: it never changes

vars == <<config, saved, info, page, status, boots, open, tableOf, ideal>>

Configs == [table : Tables, valid : BOOLEAN]
None == [table |-> 0]

TypeOK == /\ config \in Configs \cup {None}
          /\ saved \in 0 .. Len(tableOf)
          /\ info \in [table : Tables, session : 0 .. Len(tableOf)] \cup {None}
          /\ page \in {"start", "login", "menu", "admin"}
          /\ status \in {"checking", "unconfigured", "error"}
          /\ boots \subseteq [from : {"layout", "start", "login"}, config : Configs]
          /\ open \in [Tables -> 0 .. Len(tableOf)] /\ tableOf \in Seq(Tables)
          /\ ideal \in Ideals

Init == /\ config = None /\ saved = 0 /\ info = None /\ page = "admin" /\ status = "checking"
        /\ boots = {} /\ open = [t \in Tables |-> 0] /\ tableOf = <<>> /\ ideal \in Ideals

-------------------------------------------------------------------------------
(* Pages.  A request of the start page that is left only sets the context.     *)
Uncancelled == {IF b.from = "start" THEN [b EXCEPT !.from = "layout"] ELSE b : b \in boots}

(* The start page's effect runs before the layout's, which configures a tablet *)
(* that is not configured yet.                                                 *)
Mount(next, pending) ==
  LET cfg == IF config = None THEN [table |-> DefaultTable, valid |-> TRUE] ELSE config
      starts == next = "start" /\ config # None
  IN /\ page' = next /\ config' = cfg
     /\ status' = IF next = "start" /\ config = None THEN "unconfigured" ELSE "checking"
     /\ boots' = pending \cup {[from |-> "layout", config |-> cfg]}
                   \cup (IF starts THEN {[from |-> "start", config |-> cfg]} ELSE {})

Enter(next) == /\ page = "admin" /\ Mount(next, boots)
               /\ UNCHANGED <<saved, info, open, tableOf, ideal>>

(* A page load forgets the context and every request.                          *)
Load(next) == /\ Mount(next, {}) /\ info' = None
              /\ UNCHANGED <<saved, open, tableOf, ideal>>

Go(next) == /\ page \notin {"admin", next} /\ page' = next /\ status' = "checking"
            /\ boots' = Uncancelled \cup
                 (IF next = "start" THEN {[from |-> "start", config |-> config]} ELSE {})
            /\ UNCHANGED <<config, saved, info, open, tableOf, ideal>>

(* The link to the staff's pages keeps the context.                            *)
Leave == /\ page # "admin" /\ page' = "admin" /\ status' = "checking"
         /\ boots' = Uncancelled
         /\ UNCHANGED <<config, saved, info, open, tableOf, ideal>>

-------------------------------------------------------------------------------
(* Configuration.                                                              *)
Configure(cfg) == /\ "waits" \in ideal => boots = {}
                  /\ "settled" \in ideal /\ saved # 0 => tableOf[saved] = cfg.table
                  /\ config' = cfg

(* TableSetupView saves what the server has just accepted.                     *)
SetUp(t) == /\ page = "admin" /\ Configure([table |-> t, valid |-> TRUE])
            /\ UNCHANGED <<saved, info, page, status, boots, open, tableOf, ideal>>

(* TableLoginView saves first and asks the server afterwards.                  *)
LogIn(cfg) == /\ page = "login" /\ ("careful" \in ideal => cfg.valid)
              /\ \A b \in boots : b.from # "login"
              /\ Configure(cfg)
              /\ boots' = boots \cup {[from |-> "login", config |-> cfg]}
              /\ UNCHANGED <<saved, info, page, status, open, tableOf, ideal>>

-------------------------------------------------------------------------------
(* Answers.                                                                    *)

(* Mutant: the context keeps the table it had.                                 *)
ContextKept(b) == IF info = None THEN [table |-> b.config.table, session |-> saved]
                  ELSE [info EXCEPT !.session = saved]

(* The saved session id is restored with whatever table the server named.      *)
Context(b) == [table |-> b.config.table, session |-> saved]

Accepted(b) == /\ b \in boots /\ b.config.valid
               /\ boots' = boots \ {b} /\ info' = Context(b)
               /\ page' = IF b.from = "layout" THEN page ELSE "menu"
               /\ UNCHANGED <<config, saved, status, open, tableOf, ideal>>

MayFail(b) == /\ "reliable" \in ideal => ~b.config.valid
              /\ "careful" \in ideal => b.from # "login"

(* Mutant: an error leaves the start page waiting. *)
FailSilently(b) == /\ b \in boots /\ MayFail(b)
                   /\ boots' = boots \ {b}
                   /\ UNCHANGED <<config, saved, info, page, status, open, tableOf, ideal>>

Failed(b) == /\ b \in boots /\ MayFail(b)
             /\ boots' = boots \ {b}
             /\ status' = IF b.from = "start" THEN "error" ELSE status
             /\ UNCHANGED <<config, saved, info, page, open, tableOf, ideal>>

-------------------------------------------------------------------------------
(* Sessions: the first order opens one, staff close it.                        *)

(* Mutant: every order is for the default table.                               *)
OrderedAtDefault == DefaultTable
OrderedAt == info.table

Order == /\ page = "menu" /\ info # None /\ ("waits" \in ideal => boots = {})
         /\ LET t == OrderedAt
                new == Len(tableOf) + 1
                id == IF open[t] = 0 THEN new ELSE open[t] IN
              /\ id <= MaxSessions
              /\ tableOf' = IF id = new THEN Append(tableOf, t) ELSE tableOf
              /\ open' = [open EXCEPT ![t] = id]
              /\ saved' = id /\ info' = [info EXCEPT !.session = id]
         /\ UNCHANGED <<config, page, status, boots, ideal>>

(* Mutant: a close deletes the session's row.                                  *)
CloseDeletes(t) == /\ open[t] # 0 /\ open' = [open EXCEPT ![t] = 0]
                   /\ tableOf' = SubSeq(tableOf, 1, Len(tableOf) - 1)
                   /\ UNCHANGED <<config, saved, info, page, status, boots, ideal>>

Close(t) == /\ open[t] # 0 /\ open' = [open EXCEPT ![t] = 0]
            /\ UNCHANGED <<config, saved, info, page, status, boots, tableOf, ideal>>

-------------------------------------------------------------------------------
Guest == \/ \E next \in {"start", "login", "menu"} : Enter(next) \/ Load(next) \/ Go(next)
         \/ \E cfg \in Configs : LogIn(cfg)
         \/ Leave \/ Order
Staff == \E t \in Tables : SetUp(t) \/ Close(t)
Answering == \E b \in boots : Accepted(b) \/ Failed(b)

Next == Guest \/ Staff \/ Answering

(* The browser settles every request it has sent.                              *)
Spec == Init /\ [][Next]_vars
             /\ \A b \in [from : {"layout", "start", "login"}, config : Configs] :
                  WF_vars(Accepted(b) \/ Failed(b))

-------------------------------------------------------------------------------
(* A tablet orders for the table it is configured for once its requests are     *)
(* answered, if users wait for that and nothing fails.  A table-login that fails *)
(* after the configuration was changed is swallowed: the tablet goes on ordering *)
(* for the table it served before.                                             *)
Orderly == {"waits", "careful", "reliable"} \subseteq ideal
FollowsConfig == Orderly /\ boots = {} /\ page # "admin" /\ info # None
                   => info.table = config.table

(* The session whose orders a tablet lists is one of the table it serves, if it  *)
(* keeps that table: the saved session is restored whatever the table is.      *)
SessionOfTable == Orderly /\ "settled" \in ideal /\ info # None /\ info.session # 0
                    => tableOf[info.session] = info.table

(* The start page never waits for ever.                                        *)
StartEnds == page = "start" /\ status = "checking"
               ~> page # "start" \/ status # "checking"

================================================================================
