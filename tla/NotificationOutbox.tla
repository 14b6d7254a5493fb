-------------------------- MODULE NotificationOutbox --------------------------
(***************************************************************************)
(* NotificationService: the notifications table between the transactions   *)
(* that queue a row, the dispatch runs that send what is due, and the      *)
(* outcomes an administrator reports by hand.                              *)
(*                                                                         *)
(* A dispatch run is one transaction around all of its sends: it lists the *)
(* due rows once, then sends, marks and flushes row after row and commits  *)
(* at the end.  A flushed row is locked until then, and the value written  *)
(* is computed from the copy that was listed.                              *)
(*                                                                         *)
(* Abstractions of data.  Times are countdowns: a row's wait is the time   *)
(* until its send_at, a booking's start the time until it begins.  Rows    *)
(* for admin and worker reach nobody: a run that lists them marks them     *)
(* sent, and takes them last (their place in the list is the database's    *)
(* choice).  Which of them a run has listed is left open until a booking   *)
(* is cleared.  Clients are never deleted, so a row for a client always    *)
(* has a destination.                                                      *)
(***************************************************************************)
EXTENDS Integers, FiniteSets

CONSTANTS
  Bookings,
  Notes,        \* rows of notifications whose target is a client
  Jobs,         \* transactions that may be in flight together
  Before,       \* settings.reminder_minutes_before
  MaxRetries,   \* settings.outbound_retry_max_attempts
  Minutes,      \* minutes_before, as given by who runs the reminders of a booking
  Starts,       \* starting times given to bookings
  MaxUpsets,    \* bound on crashes, outcomes reported by hand and changes of bookings
  None

ASSUME OutboxAssumption ==
  /\ Before \in Nat /\ MaxRetries \in Nat /\ MaxUpsets \in Nat
  /\ Starts \subseteq Nat /\ Minutes \subseteq Int
  /\ Bookings \intersect Notes = {}
  /\ None \notin Bookings \union Notes

VARIABLES
  booking,   \* status and start of each booking
  note,      \* the rows for clients: reminders of a booking, retries of a reply
  job,       \* the transaction each slot is running
  upsets,    \* crashes, reports and changes of bookings so far
  sends,     \* auxiliary: times each row reached the client, up to two
  tries,     \* auxiliary: times each row was handed to the gateway; neither is
             \* counted for excused rows
  excused,   \* auxiliary: rows listed by two transactions at once, sent by one
             \* that rolled back, or reported failed by hand
  moved,     \* auxiliary: bookings rescheduled after their reminders were timed
  raced,     \* auxiliary: bookings two transactions scheduled reminders of at once
  lead       \* auxiliary: how long before the start each reminder is to be
             \* sent, the ones being inserted included; 0 for other rows

vars == <<booking, note, job, upsets, sends, tries, excused, moved, raced, lead>>

Due == {"QUEUED", "RETRY_PENDING"}
Outcomes == {"sent", "retry", "dead"}

BookingRow == [status : {"ABSENT", "PENDING_REVIEW", "CONFIRMED", "CLOSED"},
               start : Nat]
Note == [status : {"ABSENT", "SENT", "DEAD_LETTER"} \union Due,
         booking : Bookings \union {None}, retries : Nat, wait : Nat]
NoNote == [status |-> "ABSENT", booking |-> None, retries |-> 0, wait |-> 0]

\* Transactions that schedule reminders, with a confirmation or without: row is
\* the reminder inserted, wait its countdown, start the booking's as loaded.
Schedule == [kind : {"confirm", "remind"}, booking : Bookings, ready : BOOLEAN,
             row : Notes \union {None}, start : Nat, wait : Nat]

\* Dispatch runs and reports: the rows as listed, the rows still to be taken, what
\* was flushed with which countdown; said is the outcome reported, None for a
\* run; lost if a row for admin or worker on the list was deleted since.
Copy == [status : {"SENT", "DEAD_LETTER"} \union Due, retries : Nat]
Run == [kind : {"run"}, copy : [Notes -> Copy \union {None}], lost : BOOLEAN,
        todo : SUBSET Notes, said : {"sent", "failed", "dead", None},
        did : [Notes -> Outcomes \union {None}], wait : [Notes -> Nat]]
NoJob == [kind |-> "none"]

ASSUME NoneAssumption == None \notin Copy \union Outcomes \union {"failed"}

IsRun(q) == job[q].kind = "run"
IsSchedule(q) == job[q].kind \in {"confirm", "remind"}
Idle(q) == job[q].kind = "none"

Exists(b) == booking[b].status # "ABSENT"
Stored(n) == note[n].status # "ABSENT"
ReminderOf(n, b) == Stored(n) /\ note[n].booking = b
Listed(q, n) == IsRun(q) /\ job[q].copy[n] # None

\* Rows of notifications flushed by an open transaction, and bookings updated.
Locks(q, n) == IsRun(q) /\ job[q].did[n] # None
HoldsBooking(q, b) == job[q].kind = "confirm" /\ job[q].ready /\ job[q].booking = b
Free(b) == \A q \in Jobs : ~HoldsBooking(q, b)

\* Identifiers not in use by a row, an insert in flight or a listed copy.
Unused == {n \in Notes :
  ~Stored(n) /\ \A q \in Jobs : ~Listed(q, n) /\ (IsSchedule(q) => job[q].row # n)}

\* A bound of the instance: a transaction that will insert finds an identifier.
Room == Cardinality(Unused) >
          Cardinality({q \in Jobs : job[q].kind = "confirm" /\ ~job[q].ready})

Max0(x) == IF x > 0 THEN x ELSE 0
Set(q, r) == job' = [job EXCEPT ![q] = r]
Drop(q) == Set(q, NoJob)
Upset == upsets < MaxUpsets /\ upsets' = upsets + 1
Counted == <<upsets, sends, tries, excused, moved, raced, lead>>

-----------------------------------------------------------------------------
(* Bookings; what changes them is BookingLifecycle's *)

Reminded_ByAnyRow(b) == \E n \in Notes : Stored(n)
Reminded_Never(b) == FALSE
Reminded(b) == \E n \in Notes : ReminderOf(n, b)
Scheduling(q, b) == IsSchedule(q) /\ job[q].booking = b

\* An edit of the start touches no reminder.
Reschedule(b, t) ==
  /\ Exists(b) /\ Free(b) /\ Upset
  /\ booking' = [booking EXCEPT ![b].start = t]
  /\ moved' = IF Reminded(b) \/ \E q \in Jobs : Scheduling(q, b)
              THEN moved \union {b} ELSE moved
  /\ UNCHANGED <<note, job, sends, tries, excused, raced, lead>>

\* A rejection, a cancellation, a completion; it withdraws no reminder.
Close(b) ==
  /\ booking[b].status \in {"PENDING_REVIEW", "CONFIRMED"} /\ Free(b) /\ Upset
  /\ booking' = [booking EXCEPT ![b].status = "CLOSED"]
  /\ UNCHANGED <<note, job, sends, tries, excused, moved, raced, lead>>

\* Clearing a session deletes its bookings' notifications, then the bookings.
\* The delete waits for rows that are locked or being inserted.
Clear(b) ==
  /\ Exists(b) /\ Free(b) /\ Upset
  /\ \A q \in Jobs :
       /\ \A n \in Notes : ReminderOf(n, b) => ~Locks(q, n)
       /\ Scheduling(q, b) => ~job[q].ready
  /\ booking' = [booking EXCEPT ![b] = [status |-> "ABSENT", start |-> 0]]
  /\ note' = [n \in Notes |-> IF note[n].booking = b THEN NoNote ELSE note[n]]
  /\ moved' = moved \ {b} /\ raced' = raced \ {b}
  /\ \E lost \in SUBSET {q \in Jobs : IsRun(q) /\ job[q].said = None} :
       job' = [q \in Jobs |-> IF q \in lost THEN [job[q] EXCEPT !.lost = TRUE] ELSE job[q]]
  /\ lead' = [n \in Notes |-> IF ReminderOf(n, b) THEN 0 ELSE lead[n]]
  /\ UNCHANGED <<sends, tries, excused>>

-----------------------------------------------------------------------------
(* Scheduling *)

\* The reminder is due so many minutes before the start, or at once if that is
\* past.
SendIn_AtOnce(start, minutes) == 0
SendIn_Unclamped(start, minutes) == start - minutes
SendIn(start, minutes) == Max0(start - minutes)

\* schedule_booking_reminders looks for reminders of any status and inserts
\* the new ones; it looks at the start that this transaction has loaded.
Inserting(q, kind, b, start, minutes) ==
  LET rivals == {p \in Jobs \ {q} : Scheduling(p, b) /\ job[p].row # None} IN
  \E n \in (IF Reminded(b) THEN {None} ELSE Unused) :
    /\ Set(q, [kind |-> kind, booking |-> b, ready |-> TRUE, row |-> n, start |-> 0,
               wait |-> IF n = None THEN 0 ELSE SendIn(start, minutes)])
    /\ raced' = IF n # None /\ rivals # {} THEN raced \union {b} ELSE raced
    /\ lead' = IF n = None THEN lead ELSE [lead EXCEPT ![n] = Max0(minutes)]

\* set_status loads the booking and checks it; that the slot is free of other
\* bookings is BookingLifecycle's.
BeginConfirm(q, b) ==
  /\ Idle(q) /\ Room
  /\ booking[b].status = "PENDING_REVIEW" /\ booking[b].start > 0
  /\ Set(q, [kind |-> "confirm", booking |-> b, ready |-> FALSE, row |-> None,
             start |-> booking[b].start, wait |-> 0])
  /\ UNCHANGED <<booking, note, Counted>>

\* The update of the booking waits for its lock and fails if it was deleted;
\* only then are the reminders looked up.
WriteConfirm(q) ==
  LET b == job[q].booking IN
  /\ job[q].kind = "confirm" /\ ~job[q].ready /\ Free(b)
  /\ IF Exists(b) THEN Inserting(q, "confirm", b, job[q].start, Before)
     ELSE Drop(q) /\ UNCHANGED <<raced, lead>>
  /\ UNCHANGED <<booking, note, upsets, sends, tries, excused, moved>>

\* /reminders/run with a booking, whatever its status, and the agent's tool:
\* the minutes are the caller's.
BeginRemind(q, b, minutes) ==
  /\ Idle(q) /\ Room /\ Exists(b) /\ ~Reminded(b)
  /\ Inserting(q, "remind", b, booking[b].start, minutes)
  /\ UNCHANGED <<booking, note, upsets, sends, tries, excused, moved>>

\* A new row of a client, and the history of its identifier.
Queue(n, row, tried) ==
  /\ note' = [note EXCEPT ![n] = row]
  /\ sends' = [sends EXCEPT ![n] = 0]
  /\ tries' = [tries EXCEPT ![n] = tried]
  /\ excused' = excused \ {n}

\* A confirmation writes its status over whatever is stored by now.
CommitSchedule(q) ==
  LET b == job[q].booking
      n == job[q].row
  IN /\ IsSchedule(q) /\ job[q].ready
     /\ booking' = IF job[q].kind = "confirm"
                   THEN [booking EXCEPT ![b].status = "CONFIRMED"] ELSE booking
     /\ IF n = None THEN UNCHANGED <<note, sends, tries, excused>>
        ELSE Queue(n, [status |-> "QUEUED", booking |-> b, retries |-> 0,
                       wait |-> job[q].wait], 0)
     /\ Drop(q)
     /\ UNCHANGED <<upsets, moved, raced, lead>>

-----------------------------------------------------------------------------
(* Retries *)

Backoff(k) == 2 ^ (k - 1)

\* True of every power; the provers have no rule for them.
ASSUME BackoffAssumption == \A k \in 1..MaxRetries : Backoff(k) \in Nat

\* mark_failed on a row that has been retried so often, and the new countdown.
Failed_Short(retries) == IF retries + 1 < MaxRetries THEN "retry" ELSE "dead"
Failed(retries) == IF retries < MaxRetries THEN "retry" ELSE "dead"
Delay(retries, outcome) == IF outcome = "retry" THEN Backoff(retries + 1) ELSE 0

\* A reply that could not be sent: created and marked failed in the same
\* transaction.
QueueRetry(n) ==
  /\ n \in Unused /\ Room
  /\ Queue(n, [status |-> IF Failed(0) = "retry" THEN "RETRY_PENDING" ELSE "DEAD_LETTER",
               booking |-> None,
               retries |-> IF Failed(0) = "retry" THEN 1 ELSE 0,
               wait |-> Delay(0, Failed(0))], 1)
  /\ UNCHANGED <<booking, job, upsets, moved, raced, lead>>

-----------------------------------------------------------------------------
(* Dispatch *)

IsDue_QueuedOnly(n) == note[n].status = "QUEUED" /\ note[n].wait = 0
IsDue_AnyStatus(n) == Stored(n) /\ note[n].wait = 0
IsDue(n) == note[n].status \in Due /\ note[n].wait = 0

NewRun(N, said) ==
  [kind |-> "run", lost |-> FALSE, todo |-> N, said |-> said,
   copy |-> [n \in Notes |->
     IF n \in N THEN [status |-> note[n].status, retries |-> note[n].retries] ELSE None],
   did |-> [n \in Notes |-> None], wait |-> [n \in Notes |-> 0]]

\* Rows of N that another transaction has listed and not committed.
Overlapped(N) == {n \in N : \E q \in Jobs : Listed(q, n)}

\* From here on the rows of N are excused: nothing is counted for them.
Excuse(N) ==
  /\ excused' = excused \union N
  /\ sends' = [n \in Notes |-> IF n \in N THEN 0 ELSE sends[n]]
  /\ tries' = [n \in Notes |-> IF n \in N THEN 0 ELSE tries[n]]

\* list_queued_due; a window run of /reminders/run finds nothing more, since
\* every confirmed booking has its reminders (ConfirmedReminded).
ListDue(q) ==
  LET due == {n \in Notes : IsDue(n)} IN
  /\ Idle(q)
  /\ due # {}
  /\ Set(q, NewRun(due, None))
  /\ Excuse(Overlapped(due))
  /\ UNCHANGED <<booking, note, upsets, moved, raced, lead>>

\* q is about to write a row that p has flushed.
Blocked(q, p, n) == IsRun(q) /\ p # q /\ n \in job[q].todo /\ Locks(p, n)

\* The job once it has marked and flushed the row, unless that was deleted:
\* mark_sent and mark_failed read it again.
Marking(r, n, outcome) ==
  LET rest == [r EXCEPT !.todo = @ \ {n}] IN
  IF Stored(n)
  THEN [rest EXCEPT !.did[n] = outcome,
                    !.wait[n] = Delay(r.copy[n].retries, outcome)]
  ELSE rest

Mark(q, n, outcome) ==
  /\ IsRun(q) /\ n \in job[q].todo
  /\ \A p \in Jobs : ~Blocked(q, p, n)
  /\ Set(q, Marking(job[q], n, outcome))
  /\ UNCHANGED <<booking, note, upsets, excused, moved, raced, lead>>

SendOutcome(q, n, ok) == IF ok THEN "sent" ELSE Failed(job[q].copy[n].retries)

\* A row is handed to the gateway, whatever became of it since it was listed,
\* and marked.  The code sends before it waits for the row; the two are one
\* step here, since a row that someone else has flushed is excused anyway.
Send(q, n, ok) ==
  /\ IsRun(q) /\ job[q].said = None
  /\ Mark(q, n, SendOutcome(q, n, ok))
  /\ sends' = IF ok /\ n \notin excused THEN [sends EXCEPT ![n] = @ + 1] ELSE sends
  /\ tries' = IF n \notin excused THEN [tries EXCEPT ![n] = @ + 1] ELSE tries

\* /dispatch: an administrator reports the outcome of any row.  It is read and
\* marked at once, unless a run holds it.
Reported(r, n) ==
  IF r.said = "failed" THEN Failed(r.copy[n].retries) ELSE r.said

Report(q, n, said) ==
  LET r == NewRun({n}, said) IN
  /\ Idle(q) /\ Stored(n) /\ Upset
  /\ Set(q, IF \E p \in Jobs : Locks(p, n) THEN r ELSE Marking(r, n, Reported(r, n)))
  /\ Excuse(Overlapped({n}) \union (IF said = "sent" THEN {} ELSE {n}))
  /\ UNCHANGED <<booking, note, moved, raced, lead>>

MarkReported(q, n) ==
  /\ IsRun(q) /\ job[q].said # None
  /\ Mark(q, n, Reported(job[q], n))
  /\ UNCHANGED <<sends, tries>>

\* Rows this transaction has sent or failed.
Touched(q) == {n \in Notes : IsRun(q) /\ job[q].did[n] # None}
RolledBack(q) ==
  /\ Drop(q)
  /\ Excuse(Touched(q))
  /\ lead' = [n \in Notes |-> IF IsSchedule(q) /\ job[q].row = n THEN 0 ELSE lead[n]]
  /\ UNCHANGED <<booking, note, moved, raced>>

\* The UPDATE names the columns that differ from the copy: a status that the
\* copy had already keeps what is stored by now.
NewStatus(outcome) ==
  CASE outcome = "sent" -> "SENT" [] outcome = "dead" -> "DEAD_LETTER"
    [] outcome = "retry" -> "RETRY_PENDING"
Marked(row, copy, outcome, wait) ==
  LET marked == IF NewStatus(outcome) = copy.status THEN row
                ELSE [row EXCEPT !.status = NewStatus(outcome)]
  IN IF outcome = "retry"
     THEN [marked EXCEPT !.retries = copy.retries + 1, !.wait = wait] ELSE marked

\* The rows for admin and worker are marked sent without more ado, and not
\* read again: if one was deleted its update raises, and the run is lost.
CommitRun(q) ==
  /\ IsRun(q) /\ job[q].todo = {}
  /\ IF ~job[q].lost
     THEN /\ note' = [n \in Notes |->
               IF job[q].did[n] = None THEN note[n]
               ELSE Marked(note[n], job[q].copy[n], job[q].did[n], job[q].wait[n])]
          /\ Drop(q)
          /\ UNCHANGED <<booking, sends, tries, excused, moved, raced, lead>>
     ELSE RolledBack(q)
  /\ UNCHANGED upsets

-----------------------------------------------------------------------------
(* Failures and time *)

\* A crash, or an exception of the gateway that it does not catch.
Crash(q) ==
  /\ ~Idle(q) /\ Upset
  /\ RolledBack(q)

\* Runs list in no particular order, so two of them may wait for each other;
\* the database ends one and hands the row to the other.
Victim(q) ==
  /\ IsRun(q)
  /\ \E p \in Jobs, m, n \in Notes :
       /\ Blocked(q, p, m) /\ Blocked(p, q, n)
       /\ \E ok \in BOOLEAN :
            job' = [job EXCEPT ![q] = NoJob,
                               ![p] = Marking(job[p], n, SendOutcome(p, n, ok))]
  /\ Excuse(Touched(q))
  /\ UNCHANGED <<booking, note, upsets, moved, raced, lead>>

TickJob(r) ==
  CASE r.kind = "run" -> [r EXCEPT !.wait = [n \in Notes |-> Max0(r.wait[n] - 1)]]
    [] r.kind = "none" -> r
    [] OTHER -> [r EXCEPT !.wait = Max0(@ - 1), !.start = Max0(@ - 1)]
Tick ==
  /\ booking' = [b \in Bookings |-> [booking[b] EXCEPT !.start = Max0(@ - 1)]]
  /\ note' = [n \in Notes |-> [note[n] EXCEPT !.wait = Max0(@ - 1)]]
  /\ job' = [q \in Jobs |-> TickJob(job[q])]
  /\ UNCHANGED Counted

-----------------------------------------------------------------------------
Init ==
  /\ \E start \in [Bookings -> Starts] :
       booking = [b \in Bookings |-> [status |-> "PENDING_REVIEW", start |-> start[b]]]
  /\ note = [n \in Notes |-> NoNote]
  /\ job = [q \in Jobs |-> NoJob]
  /\ upsets = 0
  /\ sends = [n \in Notes |-> 0] /\ tries = [n \in Notes |-> 0]
  /\ excused = {} /\ moved = {} /\ raced = {}
  /\ lead = [n \in Notes |-> 0]

\* What a transaction does by itself, once begun.
Work(q) ==
  \/ WriteConfirm(q)
  \/ CommitSchedule(q)
  \/ \E n \in Notes, ok \in BOOLEAN : Send(q, n, ok)
  \/ \E n \in Notes : MarkReported(q, n)
  \/ CommitRun(q)
  \/ Victim(q)

BookingNext(b) ==
  \/ \E t \in Starts : Reschedule(b, t)
  \/ Close(b)
  \/ Clear(b)

Next ==
  \/ \E b \in Bookings : BookingNext(b)
  \/ \E q \in Jobs, b \in Bookings :
       BeginConfirm(q, b) \/ \E minutes \in Minutes : BeginRemind(q, b, minutes)
  \/ \E n \in Notes : QueueRetry(n)
  \/ \E q \in Jobs : ListDue(q)
  \/ \E q \in Jobs, n \in Notes, said \in {"sent", "failed", "dead"} : Report(q, n, said)
  \/ \E q \in Jobs : Work(q)
  \/ \E q \in Jobs : Crash(q)
  \/ Tick

\* A transaction in flight makes progress (a lock is granted in the order of
\* the waiters), time passes, and someone keeps triggering dispatch runs.
Fairness ==
  /\ \A q \in Jobs : SF_vars(Work(q))
  /\ SF_vars(\E q \in Jobs : ListDue(q))
  /\ WF_vars(Tick)

Spec == Init /\ [][Next]_vars
FairSpec == Spec /\ Fairness

-----------------------------------------------------------------------------
(* Properties *)

\* Every variable keeps its type.
TypeOK ==
  /\ booking \in [Bookings -> BookingRow]
  /\ note \in [Notes -> Note]
  /\ job \in [Jobs -> Schedule \union Run \union {NoJob}]
  /\ upsets \in Nat
  /\ sends \in [Notes -> Nat] /\ tries \in [Notes -> Nat]
  /\ excused \subseteq Notes /\ moved \subseteq Bookings /\ raced \subseteq Bookings
  /\ lead \in [Notes -> Nat]

\* A client gets a notification at most once, unless two transactions had it
\* listed at once, one that sent it rolled back, or it was reported failed.
OneDelivery == \A n \in Notes : n \in excused \/ sends[n] <= 1

\* A row in the ledger of deliveries: between the attempt and the commit that
\* concludes it, the attempts are one more than the retries stored.
Delivery(n) ==
  LET counted == Stored(n) /\ n \notin excused IN
  [state |-> IF ~Stored(n) THEN "absent" ELSE IF n \in excused THEN "excused"
             ELSE CASE note[n].status = "SENT" -> "sent"
                    [] note[n].status = "DEAD_LETTER" -> "dead"
                    [] OTHER -> IF tries[n] = note[n].retries THEN "due" ELSE "tried",
   tries |-> IF counted THEN tries[n] ELSE 0,
   sends |-> IF counted THEN sends[n] ELSE 0]

Deliveries == INSTANCE DeliveryLedger
  WITH row <- [n \in Notes |-> Delivery(n)], Budget <- MaxRetries

\* Each notification goes through its attempts one by one, is sent or given up
\* as they say and never attempted again, whatever the runs and reports that
\* overlap with it have listed.
KeepsDeliveries == Deliveries!Spec

\* A booking has reminders at most once, unless two transactions looked for
\* them at the same time.
RemindedOnce ==
  \A b \in Bookings \ raced : \A m, n \in Notes :
    ReminderOf(m, b) /\ ReminderOf(n, b) => m = n

\* Every confirmed booking has its reminders, whichever transaction timed them
\* and however the confirmation overlapped with it.
ConfirmedReminded ==
  \A b \in Bookings : booking[b].status = "CONFIRMED" => \E n \in Notes : ReminderOf(n, b)

\* "Reminders: 20 minutes before booking" (IMPLEMENTAION_PLAN.md:70): no run
\* takes up a reminder earlier than it is to be sent, which is the setting for a
\* confirmation and the minutes given for an administrator's run, unless the
\* booking was moved after its reminders were timed, or the reminder is excused:
\* a failure reported by hand makes it due after a backoff, however far off the
\* booking is.
NotEarly ==
  [][\A q \in Jobs, b \in Bookings \ moved : \A n \in Notes \ excused :
       /\ ReminderOf(n, b)
       /\ IsRun(q) /\ job[q].said = None /\ n \in job[q].todo
       /\ job'[q].kind = "run" /\ n \notin job'[q].todo
       => booking[b].start <= lead[n]]_vars

\* Every notification is sent or given up in the end, however runs overlap,
\* deadlock and fail: a stale copy never puts it back for ever.
EventuallyOver ==
  \A n \in Notes : note[n].status \in Due ~> note[n].status \notin Due

=============================================================================
