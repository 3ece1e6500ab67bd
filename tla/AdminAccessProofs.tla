--------------------------- MODULE AdminAccessProofs ---------------------------
(* What holds of AdminAccess for any number of desks and threads, any limit and   *)
(* any times: the limit of failures is overrun by the attempts that had passed    *)
(* the check before the last failure counted, and by no others.                   *)
EXTENDS AdminAccess, FiniteSetTheorems, TLAPS

(* A count at its limit comes with a lock, which lets nobody through before the   *)
(* count is forgotten; what has been counted and what may still be is bounded.    *)
FullIsLocked == attempts.failures >= MaxFailures => attempts.lock # Never
Counted == attempts.failures + Busy <= Bound
WithinPool == Busy <= Threads

CountInv == TypeOK /\ FullIsLocked /\ Counted /\ WithinPool

--------------------------------------------------------------------------------
(* The attempts under way.                                                        *)

LEMMA VerifyingFinite == IsFiniteSet(Verifying) /\ Cardinality(Verifying) \in Nat
<1>1. IsFiniteSet(Desks) /\ Verifying \subseteq Desks
  BY AccessAssumption DEF Verifying
<1> QED
  BY <1>1, FS_Subset, FS_CardinalityType

LEMMA BusyTyped ==
  ASSUME TypeOK
  PROVE  /\ gone.sent \in Nat /\ gone.unlocked \in Nat /\ Busy \in Nat
         /\ Busy = Cardinality(Verifying) + gone.unlocked
<1>1. gone.sent \in Nat /\ gone.unlocked \in Nat
  BY DEF TypeOK
<1> QED
  BY <1>1, VerifyingFinite DEF Busy

--------------------------------------------------------------------------------
LEMMA InitCount == Init => CountInv
<1> SUFFICES ASSUME Init PROVE CountInv
  OBVIOUS
<1>1. TypeOK
  BY AccessAssumption DEF Init, TypeOK, NoAttempts, NoneGone, Never, Entered, Desk, Stages, Pages
<1>2. FullIsLocked
  BY AccessAssumption DEF Init, FullIsLocked, NoAttempts, Never
<1>3. Verifying = {} /\ Cardinality(Verifying) = 0
  BY FS_EmptySet DEF Init, Verifying, Entered
<1>4. gone.unlocked = 0
  BY DEF Init, NoneGone
<1>5. Busy = 0 /\ attempts.failures = 0
  BY <1>3, <1>4 DEF Busy, Init, NoAttempts
<1> QED
  BY <1>1, <1>2, <1>5, AccessAssumption DEF CountInv, Counted, WithinPool, Bound

(* A desk stays one when its stage and its token change.                          *)
LEMMA DeskChanged ==
  ASSUME NEW r \in Desk, NEW stage \in Stages, NEW left \in 0 .. Life
  PROVE  [r EXCEPT !.at = stage, !.token = left] \in Desk
BY DEF Desk

LEMMA TypeStep == TypeOK /\ [Next]_vars => TypeOK'
<1> SUFFICES ASSUME TypeOK, [Next]_vars PROVE TypeOK'
  OBVIOUS
<1> USE AccessAssumption DEF TypeOK, Never, Desk, Stages, Pages
<1>1. CASE UNCHANGED vars
  BY <1>1 DEF vars
<1>2. CASE Tick
  <2>1. attempts' \in [failures : Nat, lock : Never .. Lockout]
    BY <1>2 DEF Tick, Aged
  <2>2. \A d \in Desks : desk[d] \in Desk /\ Aged(desk[d].token) \in 0 .. Life
    BY DEF Aged
  <2>3. \A d \in Desks : [desk[d] EXCEPT !.token = Aged(desk[d].token)] \in Desk
    BY <2>2
  <2> HIDE DEF Desk
  <2>4. desk' \in [Desks -> Desk]
    BY <1>2, <2>3 DEF Tick
  <2> QED
    BY <1>2, <2>1, <2>4 DEF Tick
<1>3. CASE Restart
  BY <1>3 DEF Restart, NoAttempts, NoneGone
<1>4. ASSUME NEW d \in Desks, Serve(d) PROVE TypeOK'
  <2>1. CASE Refuse(d)
    BY <2>1 DEF Refuse
  <2>2. CASE Pass(d)
    BY <2>2 DEF Pass, AfterLock, NoAttempts
  <2>3. CASE RegisterFailure(d)
    BY <2>3 DEF RegisterFailure, OneMore, LockAfter
  <2>4. CASE RegisterSuccess(d)
    <3>1. [desk[d] EXCEPT !.at = "granted", !.token = Life] \in Desk
      <4>1. desk[d] \in Desk /\ "granted" \in Stages /\ Life \in 0 .. Life
        OBVIOUS
      <4> HIDE DEF Desk, Stages
      <4> QED
        BY <4>1, DeskChanged
    <3>2. desk' = [desk EXCEPT ![d] = [desk[d] EXCEPT !.at = "granted", !.token = Life]]
      BY <2>4 DEF RegisterSuccess
    <3> HIDE DEF Desk
    <3>3. desk' \in [Desks -> Desk]
      BY <3>1, <3>2
    <3> QED
      BY <2>4, <3>3 DEF RegisterSuccess, NoAttempts
  <2> QED
    BY <1>4, <2>1, <2>2, <2>3, <2>4 DEF Serve
<1>5. ASSUME NEW d \in Desks, Show(d) PROVE TypeOK'
  BY <1>5 DEF Show, ShowDesk, ShowError, Landing
<1>6. ASSUME NEW d \in Desks, Lose(d) PROVE TypeOK'
  <2>1. [desk[d] EXCEPT !.at = "refused", !.token = 0] \in Desk
    <3>1. desk[d] \in Desk /\ "refused" \in Stages /\ 0 \in 0 .. Life
      OBVIOUS
    <3> HIDE DEF Desk, Stages
    <3> QED
      BY <3>1, DeskChanged
  <2>2. desk' = [desk EXCEPT ![d] = [desk[d] EXCEPT !.at = "refused", !.token = 0]]
    BY <1>6 DEF Lose
  <2> HIDE DEF Desk
  <2>3. desk' \in [Desks -> Desk]
    BY <2>1, <2>2
  <2>4. gone' \in [sent : Nat, unlocked : Nat]
    BY <1>6 DEF Lose
  <2> QED
    BY <1>6, <2>3, <2>4 DEF Lose
<1>7. ASSUME NEW d \in Desks, Logout(d) PROVE TypeOK'
  BY <1>7 DEF Logout, Entered
<1>8. ASSUME NEW d \in Desks, NEW right \in BOOLEAN, Submit(d, right) PROVE TypeOK'
  <2>1. [desk[d] EXCEPT !.at = "sent", !.right = right] \in Desk
    OBVIOUS
  <2>2. desk' = [desk EXCEPT ![d] = [desk[d] EXCEPT !.at = "sent", !.right = right]]
    BY <1>8 DEF Submit
  <2> HIDE DEF Desk
  <2>3. desk' \in [Desks -> Desk]
    BY <2>1, <2>2
  <2> QED
    BY <1>8, <2>3 DEF Submit
<1>9. ASSUME NEW d \in Desks, NEW page \in Pages, Go(d, page) PROVE TypeOK'
  BY <1>9 DEF Go, Landing
<1>10. CASE ServeGone
  <2>1. gone' \in [sent : Nat, unlocked : Nat]
    BY <1>10 DEF ServeGone, RefuseGone, PassGone, RegisterGone
  <2>2. attempts' \in {attempts, AfterLock, NoAttempts, OneMore} /\ desk' = desk
    BY <1>10 DEF ServeGone, RefuseGone, PassGone, RegisterGone
  <2>3. attempts' \in [failures : Nat, lock : Never .. Lockout]
    BY <2>2 DEF AfterLock, NoAttempts, OneMore, LockAfter
  <2> QED
    BY <2>1, <2>2, <2>3
<1> QED
  BY <1>1, <1>2, <1>3, <1>4, <1>5, <1>6, <1>7, <1>8, <1>9, <1>10 DEF Next

LEMMA BusyTypedNext == TypeOK' => /\ Busy' \in Nat /\ gone.unlocked' \in Nat
                                  /\ Busy' = Cardinality(Verifying') + gone.unlocked'
<1> SUFFICES ASSUME TypeOK' PROVE /\ Busy' \in Nat /\ gone.unlocked' \in Nat
                                  /\ Busy' = Cardinality(Verifying') + gone.unlocked'
  OBVIOUS
<1>1. IsFiniteSet(Desks) /\ Verifying' \subseteq Desks
  BY AccessAssumption DEF Verifying
<1>2. Cardinality(Verifying') \in Nat
  BY <1>1, FS_Subset, FS_CardinalityType
<1>3. gone.unlocked' \in Nat
  BY DEF TypeOK
<1> QED
  BY <1>2, <1>3 DEF Busy

(* An attempt passes the check while the count is not full, or forgets it.        *)
LEMMA PassCounts ==
  ASSUME CountInv, TypeOK', attempts.lock <= 0, attempts' = AfterLock, Busy < Threads,
         Busy' = Busy + 1
  PROVE  FullIsLocked' /\ Counted' /\ WithinPool'
<1>0. TypeOK /\ Busy \in Nat /\ Threads \in Nat
  BY BusyTyped, AccessAssumption DEF CountInv
<1>1. attempts'.failures < MaxFailures /\ attempts'.failures \in Nat
  <2>1. CASE attempts.lock = Never
    BY <1>0, <2>1, AccessAssumption DEF AfterLock, CountInv, FullIsLocked, TypeOK
  <2>2. CASE attempts.lock # Never
    BY <2>2, AccessAssumption DEF AfterLock, NoAttempts
  <2> QED
    BY <2>1, <2>2
<1>2. Busy' <= Threads
  BY <1>0
<1> QED
  BY <1>0, <1>1, <1>2, AccessAssumption DEF FullIsLocked, Counted, WithinPool, Bound

(* A failure that is counted is under way no longer.                              *)
LEMMA FailureCounts ==
  ASSUME CountInv, TypeOK', attempts' = OneMore, Busy' = Busy - 1
  PROVE  FullIsLocked' /\ Counted' /\ WithinPool'
<1>0. TypeOK /\ Busy \in Nat /\ attempts.failures \in Nat /\ Threads \in Nat /\ MaxFailures \in Nat
  BY BusyTyped, AccessAssumption DEF CountInv, TypeOK
<1>1. attempts'.failures = attempts.failures + 1 /\ attempts'.lock = LockAfter(attempts'.failures)
  BY DEF OneMore
<1>2. FullIsLocked'
  BY <1>1, AccessAssumption DEF FullIsLocked, LockAfter, Never
<1> QED
  BY <1>0, <1>1, <1>2 DEF CountInv, Counted, WithinPool, Bound

(* A count forgotten, or kept, with no more under way.                            *)
LEMMA ForgottenCounts ==
  ASSUME CountInv, TypeOK', attempts' = NoAttempts, Busy' <= Busy
  PROVE  FullIsLocked' /\ Counted' /\ WithinPool'
<1>0. Busy \in Nat /\ Busy' \in Nat /\ Threads \in Nat /\ MaxFailures \in Nat \ {0}
  BY BusyTyped, BusyTypedNext, AccessAssumption DEF CountInv
<1>1. attempts'.failures = 0
  BY DEF NoAttempts
<1>2. Busy' <= Threads
  BY <1>0 DEF CountInv, WithinPool
<1>3. FullIsLocked'
  BY <1>0, <1>1 DEF FullIsLocked
<1>4. Counted'
  <2>1. attempts'.failures + Busy' = Busy'
    <3>1. \A n \in Nat : 0 + n = n
      OBVIOUS
    <3> QED
      BY <1>0, <1>1, <3>1, Zenon
  <2>2. Busy' <= Bound
    BY <1>0, <1>2 DEF Bound
  <2> QED
    BY <2>1, <2>2 DEF Counted
<1> QED
  BY <1>2, <1>3, <1>4 DEF WithinPool

LEMMA KeptCounts ==
  ASSUME CountInv, TypeOK', attempts'.failures = attempts.failures,
         attempts.lock # Never => attempts'.lock # Never, Busy' <= Busy
  PROVE  FullIsLocked' /\ Counted' /\ WithinPool'
<1>0. Busy \in Nat /\ Busy' \in Nat /\ Threads \in Nat /\ MaxFailures \in Nat /\ attempts.failures \in Nat
  BY BusyTyped, BusyTypedNext, AccessAssumption DEF CountInv, TypeOK
<1> QED
  BY <1>0 DEF CountInv, FullIsLocked, Counted, WithinPool, Bound

(* How many are under way after a step of a desk.                                 *)
LEMMA BusySame ==
  ASSUME TypeOK, TypeOK', gone'.unlocked = gone.unlocked, Verifying' \subseteq Verifying
  PROVE  Busy' <= Busy
<1>1. Cardinality(Verifying') <= Cardinality(Verifying) /\ Cardinality(Verifying') \in Nat
  BY VerifyingFinite, FS_Subset, FS_CardinalityType
<1> QED
  BY <1>1, BusyTyped, BusyTypedNext, VerifyingFinite

LEMMA BusyOneLess ==
  ASSUME TypeOK, gone' = gone, NEW d \in Verifying, Verifying' = Verifying \ {d}
  PROVE  Busy' = Busy - 1
<1>1. Cardinality(Verifying') = Cardinality(Verifying) - 1
  BY VerifyingFinite, FS_RemoveElement
<1> QED
  BY <1>1, BusyTyped, VerifyingFinite DEF Busy

LEMMA BusyOneMore ==
  ASSUME TypeOK, gone' = gone, NEW d, d \notin Verifying, Verifying' = Verifying \cup {d}
  PROVE  Busy' = Busy + 1
<1>1. Cardinality(Verifying') = Cardinality(Verifying) + 1
  BY VerifyingFinite, FS_AddElement
<1> QED
  BY <1>1, BusyTyped, VerifyingFinite DEF Busy

LEMMA LoseCounts ==
  ASSUME CountInv, TypeOK', NEW d \in Desks, Lose(d)
  PROVE  Busy' <= Busy
<1>0. TypeOK /\ desk \in [Desks -> Desk]
  BY DEF CountInv, TypeOK
<1>1. Verifying' = Verifying \ {d}
  BY <1>0 DEF Lose, Verifying
<1>2. CASE gone'.unlocked = gone.unlocked
  BY <1>0, <1>1, <1>2, BusySame
<1>3. CASE desk[d].at = "unlocked" /\ gone' = [gone EXCEPT !.unlocked = @ + 1]
  <2>1. gone'.unlocked = gone.unlocked + 1
    BY <1>0, <1>3 DEF TypeOK
  <2>2. d \in Verifying
    BY <1>3 DEF Verifying
  <2>3. Cardinality(Verifying') = Cardinality(Verifying) - 1
    BY <1>1, <2>2, VerifyingFinite, FS_RemoveElement
  <2> QED
    BY <1>0, <2>1, <2>3, BusyTyped, BusyTypedNext, VerifyingFinite
<1> QED
  BY <1>0, <1>2, <1>3 DEF Lose, TypeOK

LEMMA GoneCounts ==
  ASSUME CountInv, TypeOK', ServeGone
  PROVE  FullIsLocked' /\ Counted' /\ WithinPool'
<1>0. TypeOK /\ Verifying' = Verifying
  BY DEF CountInv, ServeGone, RefuseGone, PassGone, RegisterGone, Verifying
<1>1. CASE RefuseGone
  <2>1. gone'.unlocked = gone.unlocked
    BY <1>0, <1>1 DEF RefuseGone, TypeOK
  <2>2. Busy' <= Busy
    BY <1>0, <2>1, BusySame
  <2> QED
    BY <1>1, <2>2, KeptCounts DEF RefuseGone
<1>2. CASE PassGone
  <2>1. gone'.unlocked = gone.unlocked + 1
    BY <1>2 DEF PassGone
  <2>2. Busy' = Busy + 1
    BY <1>0, <2>1, BusyTyped, BusyTypedNext, VerifyingFinite
  <2> QED
    BY <1>2, <2>2, PassCounts DEF PassGone
<1>3. CASE RegisterGone
  <2>1. gone'.unlocked = gone.unlocked - 1
    BY <1>0, <1>3 DEF RegisterGone, TypeOK
  <2>2. Busy' = Busy - 1 /\ Busy' <= Busy
    BY <1>0, <2>1, BusyTyped, BusyTypedNext, VerifyingFinite
  <2> QED
    BY <1>3, <2>2, FailureCounts, ForgottenCounts DEF RegisterGone
<1> QED
  BY <1>1, <1>2, <1>3 DEF ServeGone

LEMMA CountStep == CountInv /\ [Next]_vars => CountInv'
<1> SUFFICES ASSUME CountInv, [Next]_vars PROVE CountInv'
  OBVIOUS
<1>0. TypeOK /\ TypeOK' /\ \A e \in Desks : desk[e] \in Desk
  BY TypeStep DEF CountInv, TypeOK
<1> SUFFICES FullIsLocked' /\ Counted' /\ WithinPool'
  BY <1>0 DEF CountInv
<1>a. ASSUME attempts' = attempts, gone' = gone, Verifying' \subseteq Verifying
      PROVE  FullIsLocked' /\ Counted' /\ WithinPool'
  BY <1>0, <1>a, KeptCounts, BusySame
<1>1. CASE UNCHANGED vars
  BY <1>1, <1>a DEF vars, Verifying
<1>2. CASE Tick
  <2>1. Verifying' \subseteq Verifying /\ gone' = gone /\ attempts'.failures = attempts.failures
    BY <1>0, <1>2 DEF Tick, Verifying, TypeOK
  <2>2. attempts.lock # Never => attempts'.lock # Never
    BY <1>0, <1>2 DEF Tick, Aged, TypeOK, Never
  <2> QED
    BY <1>0, <2>1, <2>2, KeptCounts, BusySame
<1>3. CASE Restart
  <2>0. \A e \in Desks : desk'[e].at # "unlocked"
    BY <1>0, <1>3 DEF Restart
  <2>1. Verifying' = {}
    BY <2>0 DEF Verifying
  <2>2. gone'.unlocked = 0
    BY <1>3 DEF Restart, NoneGone
  <2>3. Busy' = 0
    BY <1>0, <2>1, <2>2, FS_EmptySet, BusyTypedNext
  <2> QED
    BY <1>0, <1>3, <2>3, BusyTyped, ForgottenCounts DEF Restart
<1>4. ASSUME NEW d \in Desks, Refuse(d) PROVE FullIsLocked' /\ Counted' /\ WithinPool'
  <2>1. Verifying' \subseteq Verifying
    BY <1>0, <1>4 DEF Refuse, Verifying, TypeOK
  <2> QED
    BY <1>4, <1>a, <2>1 DEF Refuse
<1>5. ASSUME NEW d \in Desks, Pass(d) PROVE FullIsLocked' /\ Counted' /\ WithinPool'
  <2>1. d \notin Verifying /\ Verifying' = Verifying \cup {d}
    BY <1>0, <1>5 DEF Pass, Verifying, TypeOK
  <2>2. Busy' = Busy + 1
    BY <1>0, <1>5, <2>1, BusyOneMore DEF Pass
  <2> QED
    BY <1>0, <1>5, <2>2, PassCounts DEF Pass
<1>6. ASSUME NEW d \in Desks, RegisterFailure(d) \/ RegisterSuccess(d)
      PROVE  FullIsLocked' /\ Counted' /\ WithinPool'
  <2>1. d \in Verifying /\ Verifying' = Verifying \ {d} /\ gone' = gone
    <3>1. CASE RegisterFailure(d)
      BY <1>0, <3>1 DEF RegisterFailure, Verifying, TypeOK
    <3>2. CASE RegisterSuccess(d)
      BY <1>0, <3>2 DEF RegisterSuccess, Verifying, TypeOK
    <3> QED
      BY <1>6, <3>1, <3>2
  <2>2. Busy' = Busy - 1 /\ Busy' <= Busy
    BY <1>0, <2>1, BusyOneLess, BusyTyped
  <2>3. attempts' = OneMore \/ attempts' = NoAttempts
    BY <1>6 DEF RegisterFailure, RegisterSuccess
  <2> QED
    BY <1>0, <2>2, <2>3, FailureCounts, ForgottenCounts
<1>7. ASSUME NEW d \in Desks, Lose(d) PROVE FullIsLocked' /\ Counted' /\ WithinPool'
  <2>1. Busy' <= Busy
    BY <1>0, <1>7, LoseCounts
  <2> QED
    BY <1>0, <1>7, <2>1, KeptCounts DEF Lose
<1>8. ASSUME NEW d \in Desks,
             Show(d) \/ Logout(d)
               \/ (\E right \in BOOLEAN : Submit(d, right)) \/ (\E page \in Pages : Go(d, page))
      PROVE  FullIsLocked' /\ Counted' /\ WithinPool'
  <2>1. attempts' = attempts /\ gone' = gone
    BY <1>8 DEF Show, ShowDesk, ShowError, Logout, Submit, Go
  <2>2. \A e \in Desks : desk'[e].at = "unlocked" => desk[e].at = "unlocked"
    <3>1. CASE Show(d)
      BY <1>0, <3>1 DEF Show, ShowDesk, ShowError, Landing, TypeOK, Desk
    <3>2. CASE Logout(d)
      BY <1>0, <3>2 DEF Logout, Entered, TypeOK
    <3>3. CASE \E right \in BOOLEAN : Submit(d, right)
      BY <1>0, <3>3 DEF Submit, TypeOK
    <3>4. CASE \E page \in Pages : Go(d, page)
      BY <1>0, <3>4 DEF Go, TypeOK
    <3> QED
      BY <1>8, <3>1, <3>2, <3>3, <3>4
  <2>3. Verifying' \subseteq Verifying
    BY <2>2 DEF Verifying
  <2> QED
    BY <2>1, <2>3, <1>a
<1>9. CASE ServeGone
  BY <1>0, <1>9, GoneCounts
<1> QED
  BY <1>1, <1>2, <1>3, <1>4, <1>5, <1>6, <1>7, <1>8, <1>9 DEF Next, Serve

--------------------------------------------------------------------------------
(* The counter, its lock and the desks keep their types.                          *)
THEOREM AccessTypeCorrect == Spec => []TypeOK
<1>1. Init => TypeOK
  BY InitCount DEF CountInv
<1> QED
  BY <1>1, TypeStep, PTL DEF Spec

(* However attempts overlap, wait or are abandoned, fewer failures than the       *)
(* server has threads are counted beyond the limit: the check and the count are   *)
(* apart in authenticate, and a thread does one attempt at a time.                *)
THEOREM OverrunBounded == Spec => []FailuresBounded
<1>1. CountInv => FailuresBounded
  BY BusyTyped, AccessAssumption DEF CountInv, Counted, FailuresBounded, TypeOK, Bound
<1> QED
  BY <1>1, InitCount, CountStep, PTL DEF Spec

================================================================================
