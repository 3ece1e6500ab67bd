------------------------------ MODULE ClosingDesk ------------------------------
(* CloseTableView: staff enter the number of a table whose party has left, and   *)
(* the request closes whatever session the table with that row id has by then.   *)
EXTENDS Integers, FiniteSets

CONSTANTS Desks, Tables,  \* row ids of the tables
          Number(_),      \* table_number of a row
          MaxParties,     \* bound on parties that sit down
          MaxLosses       \* bound on answers that get lost

VARIABLES seated,  \* the party whose session is active, for each table
          parties, \* parties so far
          desk,    \* what each desk shows and what it has asked for
          ended,   \* closes that succeeded: the party, and the one staff meant
          losses

vars == <<seated, parties, desk, ended, losses>>

Nobody == 0
Blank == 0
Parties == Nobody .. MaxParties
Numbers == {Number(t) : t \in Tables}
(* text and meant say what was typed and seen; loading is at.    *)
Desk == [text : Numbers \cup {Blank}, confirming : BOOLEAN, meant : Parties,
         at : {"idle", "sent", "done", "failed"}, error : BOOLEAN]

TypeOK == /\ seated \in [Tables -> Parties] /\ parties \in Parties
          /\ desk \in [Desks -> Desk] /\ losses \in 0 .. MaxLosses
          /\ ended \subseteq [party : Parties \ {Nobody}, meant : Parties]

Init == /\ seated = [t \in Tables |-> Nobody] /\ parties = 0 /\ ended = {} /\ losses = 0
        /\ desk = [d \in Desks |-> [text |-> Blank, confirming |-> FALSE, meant |-> Nobody,
                                    at |-> "idle", error |-> FALSE]]

-------------------------------------------------------------------------------
(* The first order of a party opens its session.                                *)
Sit(t) == /\ seated[t] = Nobody /\ parties < MaxParties
          /\ parties' = parties + 1 /\ seated' = [seated EXCEPT ![t] = parties']
          /\ UNCHANGED <<desk, ended, losses>>

(* The input is covered while the dialog is open.                               *)
Type(d, number) == /\ ~desk[d].confirming
                   /\ desk' = [desk EXCEPT ![d].text = number, ![d].meant = Nobody]
                   /\ UNCHANGED <<seated, parties, ended, losses>>

Ask(d) == /\ desk[d].text # Blank /\ desk[d].at = "idle" /\ ~desk[d].confirming
          /\ desk' = [desk EXCEPT ![d].confirming = TRUE]
          /\ UNCHANGED <<seated, parties, ended, losses>>

Cancel(d) == /\ desk[d].confirming /\ desk[d].at = "idle"
             /\ desk' = [desk EXCEPT ![d].confirming = FALSE]
             /\ UNCHANGED <<seated, parties, ended, losses>>

(* Staff close the table of that number for the party they see leave; after an  *)
(* error they try again for the one they meant.                                 *)
Party(number) == seated[CHOOSE t \in Tables : Number(t) = number]
Confirm(d) ==
  /\ desk[d].confirming /\ desk[d].at = "idle"
  /\ \E meant \in {Party(desk[d].text)} \cup (IF desk[d].error THEN {desk[d].meant} ELSE {}) :
       /\ meant # Nobody
       /\ desk' = [desk EXCEPT ![d].at = "sent", ![d].error = FALSE, ![d].meant = meant]
  /\ UNCHANGED <<seated, parties, ended, losses>>

-------------------------------------------------------------------------------
(* The server takes what was typed for a row id.                                *)
Active(d) == {t \in Tables : t = desk[d].text /\ seated[t] # Nobody}

Close(d, t) == /\ desk[d].at = "sent" /\ t \in Active(d)
               /\ ended' = ended \cup {[party |-> seated[t], meant |-> desk[d].meant]}
               /\ seated' = [seated EXCEPT ![t] = Nobody]
               /\ desk' = [desk EXCEPT ![d].at = "done"]
               /\ UNCHANGED <<parties, losses>>

Conflict(d) == /\ desk[d].at = "sent" /\ Active(d) = {}
               /\ desk' = [desk EXCEPT ![d].at = "failed"]
               /\ UNCHANGED <<seated, parties, ended, losses>>

Lose(d) == /\ desk[d].at \in {"sent", "done"} /\ losses < MaxLosses /\ losses' = losses + 1
           /\ desk' = [desk EXCEPT ![d].at = "failed"]
           /\ UNCHANGED <<seated, parties, ended>>

(* useCloseTable and handleConfirm: the dialog closes either way, and an error  *)
(* is shown.                                                                   *)
Reset(d) == /\ desk[d].at \in {"done", "failed"}
            /\ desk' = [desk EXCEPT ![d] = [@ EXCEPT !.at = "idle", !.confirming = FALSE,
                                                     !.error = desk[d].at = "failed"]]
            /\ UNCHANGED <<seated, parties, ended, losses>>

-------------------------------------------------------------------------------
Answer(d) == (\E t \in Tables : Close(d, t)) \/ Conflict(d) \/ Reset(d)

Next == \/ \E t \in Tables : Sit(t)
        \/ \E d \in Desks : \/ Ask(d) \/ Cancel(d) \/ Confirm(d) \/ Lose(d) \/ Answer(d)
                            \/ \E number \in Numbers \cup {Blank} : Type(d, number)

(* Requests are handled and answered; guests and staff do as they please.       *)
Spec == Init /\ [][Next]_vars /\ \A d \in Desks : WF_vars(Answer(d))

-------------------------------------------------------------------------------
(* A close ends the session of the party that staff meant, and no other: a close *)
(* of a session that is closed already is refused, also when it is sent again.  *)
EndsMeant == \A e \in ended : e.party = e.meant

================================================================================
