----------------------------- MODULE ReplyLedger -----------------------------
(***************************************************************************)
(* What a client may rely on for each message sent to the assistant: one   *)
(* turn is made of it, which answers or ignores it for good; a reply comes *)
(* a second time only after the turn that sent it has failed; and when the *)
(* message is answered without a reply having come, one is owed.           *)
(***************************************************************************)
EXTENDS Integers

CONSTANTS Messages, None

VARIABLES
  outcome,   \* what became of each message; None while it is open
  turns,     \* turns made of each message
  replies,   \* replies to each message that came
  failed,    \* of these, the ones whose turn failed
  owed       \* messages answered by a reply that is still to come

ledger == <<outcome, turns, replies, failed, owed>>

\* The last reply that came stands: its turn has not failed.
Stands(m) == replies[m] > failed[m]

Init ==
  /\ outcome = [m \in Messages |-> None]
  /\ turns = [m \in Messages |-> 0]
  /\ replies = [m \in Messages |-> 0] /\ failed = [m \in Messages |-> 0]
  /\ owed = {}

Reply(m) ==
  /\ outcome[m] = None /\ ~Stands(m)
  /\ replies' = [replies EXCEPT ![m] = @ + 1]
  /\ UNCHANGED <<outcome, turns, failed, owed>>

Fail(m) ==
  /\ outcome[m] = None /\ Stands(m)
  /\ failed' = [failed EXCEPT ![m] = @ + 1]
  /\ UNCHANGED <<outcome, turns, replies, owed>>

Answer(m) ==
  /\ outcome[m] = None
  /\ outcome' = [outcome EXCEPT ![m] = "answered"]
  /\ turns' = [turns EXCEPT ![m] = @ + 1]
  /\ owed' = IF Stands(m) THEN owed ELSE owed \union {m}
  /\ UNCHANGED <<replies, failed>>

Ignore(m) ==
  /\ outcome[m] = None /\ ~Stands(m)
  /\ outcome' = [outcome EXCEPT ![m] = "ignored"]
  /\ turns' = [turns EXCEPT ![m] = @ + 1]
  /\ UNCHANGED <<replies, failed, owed>>

Next == \E m \in Messages : Reply(m) \/ Fail(m) \/ Answer(m) \/ Ignore(m)

Spec == Init /\ [][Next]_ledger

\* The account of a message: the replies that came are the failed ones and one
\* at most that stands; a turn is made of it when it is closed, and never again.
Balanced ==
  \A m \in Messages :
    /\ replies[m] \in {failed[m], failed[m] + 1}
    /\ turns[m] = IF outcome[m] = None THEN 0 ELSE 1
    /\ outcome[m] = "answered" => Stands(m) \/ m \in owed

=============================================================================
