--------------------------- MODULE DeliveryLedger ---------------------------
(***************************************************************************)
(* What a client may rely on for each notification: it is handed to the    *)
(* gateway only while it is due and has not come, each attempt is followed *)
(* by its conclusion before the next one, and it is given up only when the *)
(* first attempt and Budget retries have failed.  A notification that the  *)
(* system loses account of is excused, until it is deleted.                *)
(***************************************************************************)
EXTENDS Integers

CONSTANTS Notes, Budget

VARIABLE row   \* what is known of each notification

\* tries counts the attempts, sends the ones that reached the client.
States == {"absent", "due", "tried", "sent", "dead", "excused"}
Rows == [state : States, tries : Nat, sends : Nat]
Uncounted(state) == [state |-> state, tries |-> 0, sends |-> 0]

\* What becomes of a notification after so many attempts in vain.
After(tries) == IF tries <= Budget THEN "due" ELSE "dead"

Init == row = [n \in Notes |-> Uncounted("absent")]

\* A notification, or a retry of a message whose first attempt has failed.
Post(n) ==
  /\ row[n].state = "absent"
  /\ \E tries \in {0, 1} :
       row'[n] = [state |-> After(tries), tries |-> tries, sends |-> 0]

Attempt(n) ==
  /\ row[n].state = "due" /\ row[n].sends = 0
  /\ \E sends \in {0, 1} :
       row'[n] = [state |-> "tried", tries |-> row[n].tries + 1, sends |-> sends]

Conclude(n) ==
  /\ row[n].state = "tried"
  /\ row'[n] = [row[n] EXCEPT
       !.state = IF row[n].sends = 0 THEN After(row[n].tries) ELSE "sent"]

\* Someone says that the client has got it.
Report(n) ==
  /\ row[n].state \in {"due", "dead"}
  /\ row'[n] = [row[n] EXCEPT !.state = "sent"]

Excuse(n) == row[n].state # "absent" /\ row'[n] = Uncounted("excused")
Delete(n) == row[n].state # "absent" /\ row'[n] = Uncounted("absent")

Step(n) == Post(n) \/ Attempt(n) \/ Conclude(n) \/ Report(n) \/ Excuse(n) \/ Delete(n)

\* One transaction may conclude, excuse or delete several notifications.
Next ==
  /\ row' = [n \in Notes |-> row'[n]]
  /\ \A n \in Notes : row'[n] = row[n] \/ Step(n)

Spec == Init /\ [][Next]_row

\* A notification comes once at most and is tried no more often than the budget
\* allows; one that is due has not come, and has attempts left; one is given up
\* only with the budget spent and nothing received.
Accounted ==
  \A n \in Notes :
    /\ row[n] \in Rows
    /\ row[n].sends <= 1 /\ row[n].tries <= Budget + 1
    /\ row[n].state = "due" => row[n].tries <= Budget /\ row[n].sends = 0
    /\ row[n].state = "dead" => row[n].tries = Budget + 1 /\ row[n].sends = 0

=============================================================================
