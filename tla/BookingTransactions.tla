------------------------ MODULE BookingTransactions ------------------------
(***************************************************************************)
(* The checks of BookingLifecycle as the database runs them: each request  *)
(* is one READ COMMITTED transaction that loads a booking, decides on the  *)
(* loaded copy, queries the calendar and writes at the end.  No booking is *)
(* locked between the load and the write, no constraint guards the         *)
(* calendar, and the ORM's UPDATE names only the columns that changed.     *)
(*                                                                         *)
(* A request is a client's submission, a decision of admin or worker, or   *)
(* an edit.  The bookings are complete incall drafts at the start; the     *)
(* advance of an outcall, the deletion of a session and the clock are      *)
(* covered by BookingLifecycle.                                            *)
(***************************************************************************)
EXTENDS BookingLifecycle

CONSTANTS Requests   \* requests that may be in flight together

VARIABLES
  tx,         \* the transaction of each request; None when it has none
  raced,      \* auxiliary: pairs of bookings whose checks were in flight at once
  contested   \* auxiliary: bookings written on the strength of a copy that
              \* another request had overtaken by a commit of its own

txvars == <<vars, tx, raced, contested>>

Ops == {"submit", "confirm", "close", "edit"}
CheckedOps == {"submit", "confirm"}
Transaction == [op : Ops, booking : Bookings, old : Row, new : Row,
                checked : BOOLEAN, overtaken : BOOLEAN]

InFlight(q) == tx[q] # None

\* A client's turn updates its session row before anything else and so holds
\* that row's lock until it commits.
TurnHolds(s) ==
  \E q \in Requests :
    InFlight(q) /\ tx[q].op = "submit" /\ tx[q].old.session = s

-----------------------------------------------------------------------------
(* Loading: the guards look at the copy that was loaded *)

Load(q, op, b, new) ==
  /\ ~InFlight(q)
  /\ tx' = [tx EXCEPT ![q] = [op |-> op, booking |-> b, old |-> booking[b],
                              new |-> new, checked |-> FALSE, overtaken |-> FALSE]]
  /\ UNCHANGED <<vars, raced, contested>>

LoadSubmit(q, b) ==
  /\ booking[b].status = "DRAFT" /\ Complete(booking[b])
  /\ ~TurnHolds(booking[b].session)
  /\ Load(q, "submit", b, [booking[b] EXCEPT !.status = "PENDING_REVIEW"])

Load_Checked(q, op, b, new) ==
  /\ ~InFlight(q)
  /\ tx' = [tx EXCEPT ![q] = [op |-> op, booking |-> b, old |-> booking[b],
                              new |-> new, checked |-> TRUE, overtaken |-> FALSE]]
  /\ UNCHANGED <<vars, raced, contested>>
LoadConfirm_Unchecked(q, b) ==
  /\ "CONFIRMED" \in AllowedTransitions(booking[b].status)
  /\ Load_Checked(q, "confirm", b, [booking[b] EXCEPT !.status = "CONFIRMED"])
LoadConfirm(q, b) ==
  /\ "CONFIRMED" \in AllowedTransitions(booking[b].status)
  /\ Load(q, "confirm", b, [booking[b] EXCEPT !.status = "CONFIRMED"])

\* A rejection, a cancellation or a completion: a decision without a check.
LoadClose_AnyStatus(q, b, status) ==
  Load(q, "close", b, [booking[b] EXCEPT !.status = status])
LoadClose(q, b, status) ==
  /\ status \in AllowedTransitions(booking[b].status)
  /\ Load(q, "close", b, [booking[b] EXCEPT !.status = status])

LoadEdit(q, b, f) ==
  /\ booking[b].status \in EditStatuses
  /\ \E r \in Updates(booking[b], f) : Load(q, "edit", b, r)

-----------------------------------------------------------------------------
(* The availability query sees what is committed when it runs *)

Check(q) ==
  /\ InFlight(q) /\ tx[q].op \in CheckedOps /\ ~tx[q].checked
  /\ tx' = [tx EXCEPT ![q] = IF Available(tx[q].booking, tx[q].new)
                             THEN [@ EXCEPT !.checked = TRUE] ELSE None]
  /\ UNCHANGED <<vars, raced, contested>>

\* An exception, a crash or a deadlock's victim: nothing was written.
Rollback(q) ==
  /\ InFlight(q)
  /\ tx' = [tx EXCEPT ![q] = None]
  /\ UNCHANGED <<vars, raced, contested>>

-----------------------------------------------------------------------------
(* Writing *)

\* UPDATE ... SET the columns of new that differ from the loaded copy.
Merged(row, old, new) ==
  [c \in DOMAIN row |-> IF new[c] = old[c] THEN row[c] ELSE new[c]]

\* Bookings checked by another transaction still in flight.
CheckedMeanwhile(q) ==
  {tx[p].booking : p \in {x \in Requests \ {q} : InFlight(x) /\ tx[x].checked}}

Commit(q) ==
  LET t == tx[q]
      s == t.old.session
  IN /\ InFlight(q)
     /\ t.op \in CheckedOps => t.checked
     /\ t.op \in {"confirm", "close"} => ~TurnHolds(s)
     /\ booking' = [booking EXCEPT ![t.booking] = Merged(@, t.old, t.new)]
     /\ session' = CASE t.op = "submit" -> [session EXCEPT ![s].state = "WAITING_REVIEW"]
                     [] t.op = "edit" -> session
                     [] OTHER -> [session EXCEPT ![s] = [state |-> "IDLE", active |-> None]]
     /\ stale' = IF t.op \in CheckedOps THEN stale \ {t.booking}
                 ELSE IF t.op = "edit" /\ t.old.status \in Occupying
                      THEN stale \union {t.booking} ELSE stale
     /\ raced' = IF t.op \in CheckedOps
                 THEN raced \union {{t.booking, c} : c \in CheckedMeanwhile(q)}
                 ELSE raced
     /\ contested' = IF t.overtaken THEN contested \union {t.booking} ELSE contested
     /\ tx' = [p \in Requests |->
          CASE p = q -> None
            [] p # q /\ InFlight(p) /\ tx[p].booking = t.booking ->
                 [tx[p] EXCEPT !.overtaken = TRUE]
            [] OTHER -> tx[p]]
     /\ UNCHANGED <<media, now, amended>>

-----------------------------------------------------------------------------
Draft(s, t, d) ==
  [SetDuration(SetStart(NewDraft(s), t), d) EXCEPT
     !.type = "incall", !.screening = "passed"]

\* A complete draft in each of some sessions, put to its client.
TxInit ==
  /\ \E owner \in [Bookings -> Sessions], at \in [Bookings -> Starts], d \in Durations :
       /\ \A b, c \in Bookings : owner[b] = owner[c] => b = c
       /\ booking = [b \in Bookings |-> Draft(owner[b], at[b], d)]
       /\ session = [s \in Sessions |->
            IF \E b \in Bookings : owner[b] = s
            THEN [state |-> "AWAITING_CLIENT_CONFIRMATION",
                  active |-> CHOOSE b \in Bookings : owner[b] = s]
            ELSE [state |-> "IDLE", active |-> None]]
  /\ media = [m \in Media |-> NoMedia]
  /\ now = 0
  /\ stale = {} /\ amended = {}
  /\ tx = [q \in Requests |-> None]
  /\ raced = {} /\ contested = {}

TxStep(q) ==
  \/ \E b \in Bookings :
       \/ LoadSubmit(q, b)
       \/ LoadConfirm(q, b)
       \/ \E status \in Terminal : LoadClose(q, b, status)
       \/ \E f \in ScheduleFields : LoadEdit(q, b, f)
  \/ Check(q)
  \/ Rollback(q)
  \/ Commit(q)

TxNext == \E q \in Requests : TxStep(q)

TxSpec == TxInit /\ [][TxNext]_txvars

-----------------------------------------------------------------------------
(* Properties *)

\* The tables keep their types, and what a transaction has loaded is a row.
TxTypeOK ==
  /\ TypeOK
  /\ tx \in [Requests -> Transaction \union {None}]
  /\ raced \subseteq SUBSET Bookings
  /\ contested \subseteq Bookings

\* "Two conflicting pending bookings attempt confirmation: at most one becomes
\* CONFIRMED" (docs/PHASE5_UAT_LAUNCH_CHECKLIST.md), however the requests
\* interleave: each booking is already under review while it is confirmed, so
\* the later of two checks sees the other.  The exceptions are a booking
\* written over another request's commit and one rescheduled after its check.
ConfirmedApart ==
  \A b, c \in Bookings \ (contested \union stale) :
    /\ b # c
    /\ booking[b].status = "CONFIRMED" /\ booking[c].status = "CONFIRMED"
    /\ SameWorker(booking[b], booking[c])
    => Apart(booking[b], booking[c])

\* The confirmed bookings of the tables, seen as a calendar.  However the requests
\* interleave, a confirmation grants a slot away from those that are confirmed,
\* and what it granted stays as it is until a request ends or edits the booking,
\* or writes it over the commit of another one.
ConfirmedSlot(b) ==
  IF booking[b].status = "CONFIRMED" /\ b \notin contested THEN SlotHeld(b) ELSE None
Confirmed == INSTANCE SlotCalendar WITH slot <- [b \in Bookings |-> ConfirmedSlot(b)]
KeepsConfirmed == Confirmed!Spec

\* Two bookings of the calendar conflict only if their checks were in flight
\* together: the window between the query and the commit is the only way in.
ConflictsRaced ==
  \A b, c \in Bookings \ contested :
    /\ b # c /\ {b, c} \notin raced
    /\ HoldsSlot(b) /\ HoldsSlot(c)
    /\ SameWorker(booking[b], booking[c])
    => Apart(booking[b], booking[c])

\* The stored end goes out of step with start and duration only when two
\* requests wrote the same booking at once.
EndFitsAlone ==
  \A b \in Bookings \ contested :
    LET r == booking[b] IN
    r.end # None => r.start # None /\ r.duration # None /\ r.end = r.start + r.duration

\* A status changes along the table of allowed transitions, unless the row
\* changed between the load and the write.
TransitionsFollowed ==
  [][\A b \in Bookings \ contested' :
       booking'[b].status \in {booking[b].status} \union
                              AllowedTransitions(booking[b].status)]_txvars

-----------------------------------------------------------------------------
(* What the documents say and the code does not keep *)

\* set_status makes a "controlled status transition ... validates allowed
\* transitions" (booking_service.py): no request turns a status into one that
\* the table does not allow.
TransitionsValidated ==
  [][\A b \in Bookings :
       booking'[b].status \in {booking[b].status} \union
                              AllowedTransitions(booking[b].status)]_txvars

\* "Booking conflicts are checked transactionally" (docs/ARCHITECTURE.md): no
\* two bookings of the calendar conflict when none was edited or contested.
CheckedTransactionally ==
  stale = {} /\ contested = {} =>
    \A b, c \in Bookings :
      /\ b # c /\ booking[b].status \in Occupying /\ booking[c].status \in Occupying
      /\ SameWorker(booking[b], booking[c])
      => Apart(booking[b], booking[c])

=============================================================================
