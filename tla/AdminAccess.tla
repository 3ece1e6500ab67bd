------------------------------ MODULE AdminAccess ------------------------------
(* Logging in as staff: the counter of failed attempts of one account (every      *)
(* account has its own), requests that check it, verify the password and count in *)
(* separate steps, and the pages a desk is shown while its token gets old.        *)
EXTENDS Integers, FiniteSets

CONSTANTS Desks,
          Threads,     \* of the server's pool: an attempt holds one from check to count
          MaxGone,     \* bound on attempts under way that nobody waits for
          MaxFailures, \* _MAX_FAILURES
          Lockout,     \* _LOCKOUT, in units of time
          Life         \* jwt_expire_hours, in units of time

ASSUME AccessAssumption == /\ IsFiniteSet(Desks) /\ MaxFailures \in Nat \ {0}
                           /\ Lockout \in Nat \ {0} /\ Life \in Nat \ {0}
                           /\ Threads \in Nat \ {0} /\ MaxGone \in Nat

VARIABLES attempts, \* _attempts of the account
          desk,     \* page, token and login request of each desk
          gone      \* how many attempts go on whose page is gone, by stage

vars == <<attempts, desk, gone>>

(* Time is what remains of it: of a lock (Never when there is none), of a token *)
(* (0 when there is none or it has expired; the page cannot tell them apart).   *)
Never == -1
NoAttempts == [failures |-> 0, lock |-> Never]
Bound == MaxFailures + Threads - 1
Stages == {"idle", "sent", "unlocked", "refused", "granted"}

(* The dashboard looks for a token when it is mounted, other pages never do.    *)
Pages == {"login", "dashboard", "other"}
Desk == [at : Stages, right : BOOLEAN, page : Pages, token : 0 .. Life]

TypeOK == /\ attempts \in [failures : Nat, lock : Never .. Lockout]
          /\ desk \in [Desks -> Desk] /\ gone \in [sent : Nat, unlocked : Nat]

Entered == [at |-> "idle", right |-> FALSE, page |-> "login", token |-> 0]
NoneGone == [sent |-> 0, unlocked |-> 0]
Init == attempts = NoAttempts /\ desk = [d \in Desks |-> Entered] /\ gone = NoneGone

-------------------------------------------------------------------------------
(* AdminLoginView.  The button is disabled while an answer is awaited.          *)
Submit(d, right) == /\ desk[d].page = "login" /\ desk[d].at = "idle"
                    /\ desk' = [desk EXCEPT ![d].at = "sent", ![d].right = right]
                    /\ UNCHANGED <<attempts, gone>>

(* The request or its answer, and with it the token, is lost, or the page is    *)
(* reloaded or left: the form can be sent again, though the server may go on.   *)
Lose(d) == /\ desk[d].at \in {"sent", "unlocked", "granted"}
           /\ desk' = [desk EXCEPT ![d].at = "refused", ![d].token = 0]
           /\ \/ desk[d].at # "unlocked" /\ UNCHANGED gone
              \/ /\ gone.sent + gone.unlocked < MaxGone
                 /\ \/ desk[d].at = "sent" /\ gone' = [gone EXCEPT !.sent = @ + 1]
                    \/ desk[d].at = "unlocked" /\ gone' = [gone EXCEPT !.unlocked = @ + 1]
           /\ UNCHANGED attempts

-------------------------------------------------------------------------------
(* The server, whether somebody waits for the answer or not.                    *)
Verifying == {d \in Desks : desk[d].at = "unlocked"}
Busy == Cardinality(Verifying) + gone.unlocked

(* Mutant: an attempt during a lock counts as a failure.                        *)
RefuseAndRenew(d) == /\ desk[d].at = "sent" /\ attempts.lock > 0
                     /\ desk' = [desk EXCEPT ![d].at = "refused"]
                     /\ attempts' = [attempts EXCEPT !.lock = Lockout] /\ UNCHANGED gone

Refuse(d) == /\ desk[d].at = "sent" /\ attempts.lock > 0
             /\ desk' = [desk EXCEPT ![d].at = "refused"] /\ UNCHANGED <<attempts, gone>>

(* _is_locked: a lock that is over is forgotten with the count.                 *)
AfterLock == IF attempts.lock = Never THEN attempts ELSE NoAttempts

(* Mutant: the password is looked at before the lock.                           *)
PassAnyway(d) == /\ desk[d].at = "sent" /\ Busy < Threads
                 /\ desk' = [desk EXCEPT ![d].at = "unlocked"] /\ UNCHANGED <<attempts, gone>>

Pass(d) == /\ desk[d].at = "sent" /\ attempts.lock <= 0 /\ Busy < Threads
           /\ attempts' = AfterLock
           /\ desk' = [desk EXCEPT ![d].at = "unlocked"] /\ UNCHANGED gone

LockAfter(n) == IF n >= MaxFailures THEN Lockout ELSE Never
OneMore == [failures |-> attempts.failures + 1, lock |-> LockAfter(attempts.failures + 1)]

RegisterFailure(d) == /\ desk[d].at = "unlocked" /\ ~desk[d].right /\ attempts' = OneMore
                      /\ desk' = [desk EXCEPT ![d].at = "refused"] /\ UNCHANGED gone

RegisterSuccess(d) == /\ desk[d].at = "unlocked" /\ desk[d].right /\ attempts' = NoAttempts
                      /\ desk' = [desk EXCEPT ![d].at = "granted", ![d].token = Life]
                      /\ UNCHANGED gone

(* The same for attempts whose page is gone: their answers go nowhere.          *)
RefuseGone == /\ gone.sent > 0 /\ attempts.lock > 0 /\ gone' = [gone EXCEPT !.sent = @ - 1]
              /\ UNCHANGED <<attempts, desk>>

PassGone == /\ gone.sent > 0 /\ attempts.lock <= 0 /\ Busy < Threads /\ attempts' = AfterLock
            /\ gone' = [sent |-> gone.sent - 1, unlocked |-> gone.unlocked + 1]
            /\ UNCHANGED desk

RegisterGone == /\ gone.unlocked > 0 /\ gone' = [gone EXCEPT !.unlocked = @ - 1]
                /\ attempts' \in {OneMore, NoAttempts} /\ UNCHANGED desk

(* The counter is kept in memory.                                               *)
Restart == /\ attempts' = NoAttempts /\ gone' = NoneGone
           /\ desk' = [d \in Desks |-> IF desk[d].at \in {"sent", "unlocked"}
                                       THEN [desk[d] EXCEPT !.at = "refused"] ELSE desk[d]]

-------------------------------------------------------------------------------
(* What a login that ends shows: /admin leads on to the dashboard or back.      *)
Landing(d) == IF desk[d].token > 0 THEN "dashboard" ELSE "login"

ShowDesk(d) == /\ desk[d].at = "granted"
               /\ desk' = [desk EXCEPT ![d].at = "idle", ![d].page = Landing(d)]
               /\ UNCHANGED <<attempts, gone>>

ShowError(d) == /\ desk[d].at = "refused" /\ desk' = [desk EXCEPT ![d].at = "idle"]
                /\ UNCHANGED <<attempts, gone>>

(* A click in the header, whose links are there if the last render found a      *)
(* token, and the dashboard's own check.                                        *)
Go(d, page) == /\ desk[d].at = "idle" /\ desk[d].page # "login" /\ page # "login"
               /\ desk' = [desk EXCEPT ![d].page = IF page = "dashboard" THEN Landing(d) ELSE page]
               /\ UNCHANGED <<attempts, gone>>

(* Requests with a token that has expired are refused, and the page stays.      *)
Logout(d) == /\ desk[d].page # "login"
             /\ desk' = [desk EXCEPT ![d] = Entered] /\ UNCHANGED <<attempts, gone>>

(* Mutant: time runs on below what remains.                                     *)
AgedBelow(left) == left - 1
Aged(left) == IF left > 0 THEN left - 1 ELSE left
Tick == /\ attempts' = [attempts EXCEPT !.lock = Aged(@)]
        /\ desk' = [d \in Desks |-> [desk[d] EXCEPT !.token = Aged(@)]] /\ UNCHANGED gone

-------------------------------------------------------------------------------
Serve(d) == Refuse(d) \/ Pass(d) \/ RegisterFailure(d) \/ RegisterSuccess(d)
Show(d) == ShowDesk(d) \/ ShowError(d)

ServeGone == RefuseGone \/ PassGone \/ RegisterGone

Next == \/ Tick \/ Restart \/ ServeGone
        \/ \E d \in Desks : \/ Serve(d) \/ Show(d) \/ Lose(d) \/ Logout(d)
                            \/ \E right \in BOOLEAN : Submit(d, right)
                            \/ \E page \in Pages : Go(d, page)

(* Time passes, requests are answered and answers shown; what a user or a       *)
(* restart does is not sure to happen.                                          *)
Spec == /\ Init /\ [][Next]_vars /\ WF_vars(Tick) /\ WF_vars(ServeGone)
        /\ \A d \in Desks : WF_vars(Serve(d)) /\ WF_vars(Show(d))

-------------------------------------------------------------------------------
(* The limit may be overrun by attempts that had passed the check before the    *)
(* last failure counted, and by no others: fewer than the server has threads.   *)
FailuresBounded == attempts.failures <= Bound

(* Every lock ends by itself, however often the account is tried meanwhile.     *)
LockEnds == attempts.lock > 0 ~> attempts.lock <= 0

================================================================================
