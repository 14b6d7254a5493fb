-------------------------- MODULE BookingLifecycle --------------------------
(***************************************************************************)
(* The booking tables and every operation that writes them: collection of  *)
(* a draft by the client runtime, submission, the review decisions of      *)
(* admin and worker, completion, field edits, receipts, the pause and      *)
(* resume switches and the clearing of a session.                          *)
(*                                                                         *)
(* One step is one service call of one request, run alone; the module      *)
(* BookingTransactions runs the same checks concurrently.                  *)
(*                                                                         *)
(* Abstractions of data.  The four screening columns (age, ethnicity,      *)
(* size, alone policy) are one column, set to "passed" or to "failed" (a   *)
(* stored value that validate_fields refuses).  An address is present or   *)
(* not, an advance amount positive or not.  Names, prices, audit rows and  *)
(* the confirmed_at/cancelled_at/completed_at stamps are left out: no      *)
(* branch of the code reads them.                                          *)
(***************************************************************************)
EXTENDS Integers

CONSTANTS
  Bookings,      \* identifiers of booking rows
  Sessions,      \* conversation sessions: one per client and worker
  Workers,       \* workers whose calendars are booked
  WorkerOf,      \* the worker of each session
  Media,         \* identifiers of booking_media rows
  None,          \* SQL NULL
  Buffer,        \* settings.slot_buffer_minutes
  MaxTime,       \* bound on the clock
  Starts, Durations, Types, Addresses, Screenings, Advances, Receiveds,
                 \* values clients and admins supply for each column
  EditStatuses   \* statuses in which a booking is edited (the code allows all)

Statuses == {"DRAFT", "PENDING_REVIEW", "CONFIRMED",
             "REJECTED", "CANCELLED", "COMPLETED"}
Fields == {"start", "type", "duration", "address", "screening",
           "advanceRequired", "advanceReceived", "addressSent"}

ASSUME ConstantsAssumption ==
  /\ WorkerOf \in [Sessions -> Workers]
  /\ None \notin Bookings \union Sessions \union Fields
  /\ None \notin {"incall", "outcall"}
  /\ None \notin {"passed", "failed", "positive", "nonpositive"}
  /\ None \notin Nat
  /\ None \notin [worker : Workers, start : Nat, end : Nat]
  /\ Buffer \in Nat /\ MaxTime \in Nat
  /\ Starts \subseteq Nat /\ Durations \subseteq Nat \ {0}
  /\ Types \subseteq {"incall", "outcall"}
  /\ Addresses \subseteq BOOLEAN /\ Receiveds \subseteq BOOLEAN
  /\ Screenings \subseteq {"passed", "failed"}
  /\ Advances \subseteq {"positive", "nonpositive"}
  /\ EditStatuses \subseteq Statuses

VARIABLES
  booking,   \* the bookings table
  session,   \* state and active_booking_id of each conversation session
  media,     \* the booking_media table; every stored row is a receipt
  now,       \* the clock
  stale,     \* auxiliary: occupying bookings whose schedule was edited since
             \* an availability check last passed for them
  amended    \* auxiliary: occupying bookings of which another column was
             \* edited since they were submitted

vars == <<booking, session, media, now, stale, amended>>

-----------------------------------------------------------------------------
(* Rows *)

Occupying == {"PENDING_REVIEW", "CONFIRMED"}
Terminal == {"REJECTED", "CANCELLED", "COMPLETED"}
ScheduleFields == {"start", "duration"}
OptionalFields == {"advanceRequired", "advanceReceived", "addressSent"}

Row == [status : Statuses \union {"ABSENT"},
        session : Sessions \union {None},
        start : Nat \union {None},
        duration : Nat \union {None},
        end : Nat \union {None},
        type : {"incall", "outcall", None},
        address : BOOLEAN,
        screening : {"passed", "failed", None},
        advanceRequired : {"positive", "nonpositive", None},
        advanceReceived : BOOLEAN,
        addressSent : BOOLEAN]

NoRow == [status |-> "ABSENT", session |-> None,
          start |-> None, duration |-> None, end |-> None,
          type |-> None, address |-> FALSE, screening |-> None,
          advanceRequired |-> None, advanceReceived |-> FALSE,
          addressSent |-> FALSE]

States == {"IDLE", "COLLECTING", "AWAITING_CLIENT_CONFIRMATION",
           "WAITING_REVIEW", "PAUSED"}
SessionRow == [state : States, active : Bookings \union {None}]
MediaRow == [session : Sessions \union {None}, booking : Bookings \union {None}]
NoMedia == [session |-> None, booking |-> None]

NewDraft_Unlinked(s) == [NoRow EXCEPT !.status = "DRAFT"]
NewDraft(s) == [NoRow EXCEPT !.status = "DRAFT", !.session = s]
Exists(b) == booking[b].status # "ABSENT"
DraftsOf_Scheduled(s) ==
  {b \in Bookings : /\ booking[b].status = "DRAFT" /\ booking[b].session = s
                    /\ booking[b].start # None}
DraftsOf(s) ==
  {b \in Bookings : booking[b].status = "DRAFT" /\ booking[b].session = s}

-----------------------------------------------------------------------------
(* Field inspection and update *)

\* The next column to ask the client for; None when none is missing.
NextField(r) ==
  CASE r.type = "outcall" /\ r.duration # None /\ ~r.address -> "address"
    [] r.start = None     -> "start"
    [] r.type = None      -> "type"
    [] r.duration = None  -> "duration"
    [] r.screening = None -> "screening"
    [] OTHER              -> None

Complete(r) == NextField(r) = None /\ r.screening = "passed"

\* Setting one of start and duration recomputes the end if the other is known.
SetStart_KeepsEnd(r, t) ==
  [r EXCEPT !.start = t,
            !.end = IF r.duration = None \/ r.end # None THEN @ ELSE t + r.duration]
SetStart(r, t) ==
  [r EXCEPT !.start = t,
            !.end = IF r.duration = None THEN @ ELSE t + r.duration]
SetDuration(r, d) ==
  [r EXCEPT !.duration = d,
            !.end = IF r.start = None THEN @ ELSE r.start + d]

\* The rows one call of update_field can turn r into.
Updates(r, f) ==
  CASE f = "start"           -> {SetStart(r, t) : t \in Starts}
    [] f = "duration"        -> {SetDuration(r, d) : d \in Durations}
    [] f = "type"            -> {[r EXCEPT !.type = k] : k \in Types}
    [] f = "address"         -> {[r EXCEPT !.address = a] : a \in Addresses}
    [] f = "screening"       -> {[r EXCEPT !.screening = x] : x \in Screenings}
    [] f = "advanceRequired" -> {[r EXCEPT !.advanceRequired = x] : x \in Advances}
    [] f = "advanceReceived" -> {[r EXCEPT !.advanceReceived = x] : x \in Receiveds}
    [] f = "addressSent"     -> {[r EXCEPT !.addressSent = TRUE]}

UpdateField(b, f) ==
  /\ \E r \in Updates(booking[b], f) : booking' = [booking EXCEPT ![b] = r]
  /\ IF booking[b].status \notin Occupying THEN UNCHANGED <<stale, amended>>
     ELSE IF f \in ScheduleFields
       THEN stale' = stale \union {b} /\ UNCHANGED amended
       ELSE amended' = amended \union {b} /\ UNCHANGED stale
  /\ UNCHANGED <<session, media, now>>

-----------------------------------------------------------------------------
(* Availability *)

\* Row o occupies the calendar inside the buffered window of row r.  A row
\* without a stored end is invisible to the query.
Overlaps_HalfBuffer(o, r) ==
  /\ o.status \in Occupying
  /\ WorkerOf[o.session] = WorkerOf[r.session]
  /\ o.start # None /\ o.end # None
  /\ o.start < r.start + r.duration + Buffer
  /\ o.end > r.start
Overlaps_ConfirmedOnly(o, r) ==
  /\ o.status = "CONFIRMED"
  /\ WorkerOf[o.session] = WorkerOf[r.session]
  /\ o.start # None /\ o.end # None
  /\ o.start < r.start + r.duration + Buffer
  /\ o.end > r.start - Buffer
Overlaps(o, r) ==
  /\ o.status \in Occupying
  /\ WorkerOf[o.session] = WorkerOf[r.session]
  /\ o.start # None /\ o.end # None
  /\ o.start < r.start + r.duration + Buffer
  /\ o.end > r.start - Buffer

Available(b, r) ==
  /\ r.start > now
  /\ \A c \in Bookings \ {b} : ~Overlaps(booking[c], r)

-----------------------------------------------------------------------------
(* Lifecycle transitions of BookingService *)

AllowedTransitions(status) ==
  CASE status = "DRAFT"          -> {"PENDING_REVIEW", "CANCELLED"}
    [] status = "PENDING_REVIEW" -> {"CONFIRMED", "REJECTED", "CANCELLED"}
    [] status = "CONFIRMED"      -> {"COMPLETED", "CANCELLED"}
    [] OTHER                     -> {}

WithAdvanceDefault(r) ==
  IF r.type = "outcall" /\ r.advanceRequired = None
  THEN [r EXCEPT !.advanceRequired = "positive"] ELSE r

OutcallRequirementsMet(r) ==
  r.type = "outcall" => r.address /\ r.advanceRequired = "positive"

\* A submission refused after the advance default keeps the default.
SubmitForReview(b) ==
  LET r == WithAdvanceDefault(booking[b])
      s == booking[b].session
  IN /\ booking[b].status = "DRAFT"
     /\ Complete(booking[b])
     /\ \/ /\ OutcallRequirementsMet(r) /\ Available(b, r)
           /\ booking' = [booking EXCEPT ![b] = [r EXCEPT !.status = "PENDING_REVIEW"]]
           /\ session' = [session EXCEPT ![s].state = "WAITING_REVIEW"]
           /\ stale' = stale \ {b} /\ amended' = amended \ {b}
        \/ /\ ~(OutcallRequirementsMet(r) /\ Available(b, r))
           /\ booking' = [booking EXCEPT ![b] = r]
           /\ UNCHANGED <<session, stale, amended>>
     /\ UNCHANGED <<media, now>>

\* scalar_one_or_none over the receipts: two rows or more raise.
Receipts(M) ==
  CASE M = {} -> "none"
    [] \E m \in M : M = {m} -> "one"
    [] OTHER -> "raises"

BookingReceipts(b) ==
  {m \in Media : media[m].session # None /\ media[m].booking = b}
SessionReceipts(s) == {m \in Media : media[m].session = s}

\* The receipts of the booking first, then those of its session.
ReceiptLookup(b) ==
  IF Receipts(BookingReceipts(b)) = "none"
  THEN Receipts(SessionReceipts(booking[b].session))
  ELSE Receipts(BookingReceipts(b))

\* Confirming an outcall flips advance_received when a receipt is found.
ReceiptSeen(b) == booking[b].type = "outcall" /\ ReceiptLookup(b) = "one"

AdvanceSettled_AnyLookup(b) ==
  booking[b].type = "outcall" => ReceiptLookup(b) # "raises"
AdvanceSettled(b) ==
  booking[b].type = "outcall" =>
    \/ ReceiptLookup(b) = "one"
    \/ ReceiptLookup(b) = "none" /\ booking[b].advanceReceived

\* Every successful decision drops the active booking of the session and
\* returns the session to IDLE, whichever booking was active.
Decided_KeepsActive(b, r) ==
  /\ booking' = [booking EXCEPT ![b] = r]
  /\ session' = [session EXCEPT ![booking[b].session].state = "IDLE"]
Decided_KeepsState(b, r) ==
  /\ booking' = [booking EXCEPT ![b] = r]
  /\ session' = [session EXCEPT ![booking[b].session].active = None]
Decided(b, r) ==
  /\ booking' = [booking EXCEPT ![b] = r]
  /\ session' = [session EXCEPT ![booking[b].session] =
                   [state |-> "IDLE", active |-> None]]

\* A refused confirmation leaves the database as it was: the routers answer
\* 422 and the transaction rolls back.
Confirm(b) ==
  /\ "CONFIRMED" \in AllowedTransitions(booking[b].status)
  /\ booking[b].start # None /\ booking[b].duration # None
  /\ Available(b, booking[b])
  /\ AdvanceSettled(b)
  /\ Decided(b, [booking[b] EXCEPT
                   !.status = "CONFIRMED",
                   !.advanceReceived = @ \/ ReceiptSeen(b)])
  /\ stale' = stale \ {b}
  /\ UNCHANGED <<media, now, amended>>

SetStatus(b, status) ==
  /\ status \in AllowedTransitions(booking[b].status)
  /\ Decided(b, [booking[b] EXCEPT !.status = status])
  /\ UNCHANGED <<media, now, stale, amended>>

Reject(b) == SetStatus(b, "REJECTED")
Cancel(b) == SetStatus(b, "CANCELLED")
CompleteEarly(b) == SetStatus(b, "COMPLETED")

\* "Free now" completes some confirmed booking of the worker that has begun.
FreeNow(w) ==
  \E b \in Bookings :
    /\ booking[b].status = "CONFIRMED" /\ WorkerOf[booking[b].session] = w
    /\ booking[b].start # None /\ booking[b].start <= now
    /\ CompleteEarly(b)

MarkIncallAddressSent(b) ==
  /\ booking[b].type = "incall" /\ booking[b].status = "CONFIRMED"
  /\ ~booking[b].addressSent
  /\ booking' = [booking EXCEPT ![b].addressSent = TRUE]
  /\ UNCHANGED <<session, media, now, stale, amended>>

AdminEdit(b, f) ==
  /\ booking[b].status \in EditStatuses
  /\ UpdateField(b, f)

-----------------------------------------------------------------------------
(* Client runtime *)

\* _ensure_draft_booking_after_availability fills a missing start and a
\* missing duration.  The end is computed only when the duration is filled.
Filled(r, t, d) ==
  LET started == IF r.start = None THEN [r EXCEPT !.start = t] ELSE r
  IN IF r.duration = None /\ d # None
     THEN [started EXCEPT !.duration = d,
                          !.end = IF started.start = None THEN @
                                  ELSE started.start + d]
     ELSE started

\* The check_availability tool, whatever it answers (the call succeeds when
\* the slot is taken, too): fill the active booking, else relink and fill the
\* draft of the session, else create one.
CheckAvailability(s, t, d) ==
  LET a == session[s].active IN
  /\ \/ /\ a # None
        /\ booking' = [booking EXCEPT ![a] = Filled(@, t, d)]
        /\ UNCHANGED session
     \/ /\ a = None
        /\ \E b \in Bookings :
             /\ DraftsOf(s) = {b}
             /\ booking' = [booking EXCEPT ![b] = Filled(@, t, d)]
             /\ session' = [session EXCEPT ![s].active = b]
     \/ /\ a = None /\ DraftsOf(s) = {}
        /\ \E b \in Bookings :
             /\ ~Exists(b)
             /\ booking' = [booking EXCEPT ![b] = Filled(NewDraft(s), t, d)]
             /\ session' = [session EXCEPT ![s] =
                  [state |-> IF @.state = "IDLE" THEN "COLLECTING" ELSE @.state,
                   active |-> b]]
  /\ UNCHANGED <<media, now, stale, amended>>

\* The bookings a tool call can act on.  An id that is no UUID stands for the
\* session's active booking or draft; a UUID is taken as the model gives it, and
\* nothing compares the booking it names with the session.
ToolTarget == {b \in Bookings : Exists(b)}

\* The update_booking_field tool, the pre-capture of an inbound text and its
\* early look for the booking type.  Nothing looks at the booking's status;
\* outside collection and review it is bounded as for an admin's edits.
AgentUpdate(s, f) ==
  \E b \in ToolTarget :
    /\ booking[b].status \in EditStatuses \union {"DRAFT", "PENDING_REVIEW"}
    /\ \/ f \in OptionalFields
       \/ NextField(booking[b]) \in {f, None}
       \/ f = "type" /\ booking[b].type = None /\ b = session[s].active
    /\ UpdateField(b, f)

\* A client's YES, or the submit tool.
AgentSubmit == \E b \in ToolTarget : SubmitForReview(b)

\* The reply of the model ends a turn in which the draft became complete.
AwaitConfirmation(s) ==
  LET b == session[s].active IN
  /\ b # None
  /\ session[s].state \notin {"AWAITING_CLIENT_CONFIRMATION", "WAITING_REVIEW"}
  /\ booking[b].status = "DRAFT" /\ NextField(booking[b]) = None
  /\ session' = [session EXCEPT ![s].state = "AWAITING_CLIENT_CONFIRMATION"]
  /\ UNCHANGED <<booking, media, now, stale, amended>>

\* The deterministic turn: the session's draft, or a new one on booking
\* intent, captures at most its next field; a complete draft whose slot is
\* free is put to the client for confirmation.
FallbackTurn(s) ==
  \E b \in Bookings :
    LET existing == DraftsOf(s) = {b}
        before == IF existing THEN booking[b] ELSE NewDraft(s)
    IN /\ \/ existing
          \/ DraftsOf(s) = {} /\ session[s].state # "COLLECTING" /\ ~Exists(b)
       /\ \E r \in {before} \union
                   (IF NextField(before) = None THEN {}
                    ELSE Updates(before, NextField(before))) :
            /\ booking' = [booking EXCEPT ![b] = r]
            /\ session' = [session EXCEPT ![s] =
                 [state |-> IF NextField(r) = None /\ Available(b, r)
                            THEN "AWAITING_CLIENT_CONFIRMATION" ELSE "COLLECTING",
                  active |-> IF existing THEN @.active ELSE b]]
       /\ UNCHANGED <<media, now, stale, amended>>

-----------------------------------------------------------------------------
(* Receipts, sessions and the clock *)

\* Linked to the booking the caller names, else to the session's active one.
AttachMedia(s, m, b) ==
  /\ media[m] = NoMedia
  /\ b = session[s].active \/ (b # None /\ Exists(b))
  /\ media' = [media EXCEPT ![m] = [session |-> s, booking |-> b]]
  /\ UNCHANGED <<booking, session, now, stale, amended>>

MarkReceipt(m, b) ==
  /\ media[m] # NoMedia /\ Exists(b)
  /\ media' = [media EXCEPT ![m].booking = b]
  /\ UNCHANGED <<booking, session, now, stale, amended>>

\* Deleting a session's history deletes its bookings and media; rows of other
\* sessions that point at a deleted booking lose the link.
ClearSession(s) ==
  LET gone == {b \in Bookings : booking[b].session = s} IN
  /\ booking' = [b \in Bookings |-> IF b \in gone THEN NoRow ELSE booking[b]]
  /\ media' = [m \in Media |->
       IF media[m].session = s THEN NoMedia
       ELSE IF media[m].booking \in gone THEN [media[m] EXCEPT !.booking = None]
       ELSE media[m]]
  /\ session' = [q \in Sessions |->
       IF q = s THEN [state |-> "IDLE", active |-> None]
       ELSE IF session[q].active \in gone THEN [session[q] EXCEPT !.active = None]
       ELSE session[q]]
  /\ stale' = stale \ gone /\ amended' = amended \ gone
  /\ UNCHANGED now

PauseAgent ==
  /\ session' = [s \in Sessions |->
       IF session[s].state = "IDLE" THEN session[s]
       ELSE [session[s] EXCEPT !.state = "PAUSED"]]
  /\ UNCHANGED <<booking, media, now, stale, amended>>

ResumeAgent ==
  /\ session' = [s \in Sessions |->
       IF session[s].state # "PAUSED" THEN session[s]
       ELSE [session[s] EXCEPT !.state = "IDLE"]]
  /\ UNCHANGED <<booking, media, now, stale, amended>>

Tick ==
  /\ now < MaxTime
  /\ now' = now + 1
  /\ UNCHANGED <<booking, session, media, stale, amended>>

-----------------------------------------------------------------------------
Init ==
  /\ booking = [b \in Bookings |-> NoRow]
  /\ session = [s \in Sessions |-> [state |-> "IDLE", active |-> None]]
  /\ media = [m \in Media |-> NoMedia]
  /\ now = 0
  /\ stale = {} /\ amended = {}

RuntimeNext(s) ==
  \/ \E t \in Starts, d \in Durations \union {None} : CheckAvailability(s, t, d)
  \/ \E f \in Fields : AgentUpdate(s, f)
  \/ AgentSubmit
  \/ AwaitConfirmation(s)
  \/ FallbackTurn(s)

StaffNext(b) ==
  \/ Confirm(b)
  \/ Reject(b)
  \/ Cancel(b)
  \/ CompleteEarly(b)
  \/ MarkIncallAddressSent(b)
  \/ \E f \in Fields : AdminEdit(b, f)

Next ==
  \/ \E s \in Sessions : RuntimeNext(s)
  \/ \E b \in Bookings : StaffNext(b)
  \/ \E w \in Workers : FreeNow(w)
  \/ \E s \in Sessions, m \in Media, b \in Bookings \union {None} : AttachMedia(s, m, b)
  \/ \E m \in Media, b \in Bookings : MarkReceipt(m, b)
  \/ \E s \in Sessions : ClearSession(s)
  \/ PauseAgent
  \/ ResumeAgent
  \/ Tick

Spec == Init /\ [][Next]_vars

-----------------------------------------------------------------------------
(* Properties *)

\* Every variable keeps the columns' types (models/booking.py,
\* models/conversation_session.py, models/booking_media.py).
TypeOK ==
  /\ booking \in [Bookings -> Row]
  /\ session \in [Sessions -> SessionRow]
  /\ media \in [Media -> MediaRow]
  /\ now \in Nat
  /\ stale \subseteq Bookings /\ amended \subseteq Bookings
  /\ \A b \in Bookings : Exists(b) => booking[b].session # None

\* The stored end is derived: whichever of start and duration was written
\* last, by whatever path, an end that is stored is start + duration.
EndDerived ==
  \A b \in Bookings :
    LET r == booking[b] IN
    r.end # None =>
      r.start # None /\ r.duration # None /\ r.end = r.start + r.duration

\* b holds its slot: it occupies the calendar, its end is stored, and its
\* schedule is the one that last passed the availability check.
HoldsSlot(b) ==
  /\ booking[b].status \in Occupying
  /\ booking[b].end # None
  /\ b \notin stale

Apart(q, r) ==
  q.end + Buffer <= r.start \/ r.end + Buffer <= q.start

SameWorker(q, r) == WorkerOf[q.session] = WorkerOf[r.session]

\* Two bookings of one worker that hold their slots are a buffer apart: the
\* checks at submission and at confirmation, each against the calendar of its
\* moment, add up to a calendar without conflicts.  Every conflict there is
\* comes from an edit after the check or from a missing end.
SlotsApart ==
  \A b, c \in Bookings :
    b # c /\ HoldsSlot(b) /\ HoldsSlot(c) /\ SameWorker(booking[b], booking[c])
      => Apart(booking[b], booking[c])

\* The slots held implement the calendar that SlotCalendar promises.
SlotHeld(b) ==
  IF HoldsSlot(b)
  THEN [worker |-> WorkerOf[booking[b].session],
        start |-> booking[b].start, end |-> booking[b].end]
  ELSE None

Calendar == INSTANCE SlotCalendar WITH slot <- [b \in Bookings |-> SlotHeld(b)]
KeepsCalendar == Calendar!Spec

\* A session's active booking is its own and is still being collected or
\* reviewed: a decision, a clearing or a relink never leaves a session
\* pointing at a booking that is over.
ActiveIsOpen ==
  \A s \in Sessions :
    LET b == session[s].active IN
    b # None => /\ booking[b].session = s
                /\ booking[b].status \in {"DRAFT", "PENDING_REVIEW"}

\* A session waits for review only while one of its bookings is under review,
\* so a client is never told to wait for a decision that was already taken.
WaitingHasPending ==
  \A s \in Sessions :
    session[s].state = "WAITING_REVIEW" =>
      \E b \in Bookings :
        booking[b].session = s /\ booking[b].status = "PENDING_REVIEW"

\* A session has at most one draft: get_active_draft_for_session reads it
\* with scalar_one_or_none, which raises on a second one and would fail every
\* later message of the client.
OneDraft ==
  \A b, c \in Bookings :
    /\ booking[b].status = "DRAFT" /\ booking[c].status = "DRAFT"
    /\ booking[b].session = booking[c].session
    => b = c

\* A confirmed booking that nobody amended since its submission passed the
\* whole screening and, if it is an outcall, has an address and its advance.
ConfirmedAsReviewed ==
  \A b \in Bookings :
    booking[b].status = "CONFIRMED" /\ b \notin amended =>
      /\ Complete(booking[b])
      /\ booking[b].type = "outcall" =>
           booking[b].address /\ booking[b].advanceReceived

-----------------------------------------------------------------------------
(* What the documents say and the code does not keep *)

\* "Enforce 15-minute buffer around all confirmed/pending bookings"
\* (docs/STATE_MACHINE.md).
BufferAroundActive ==
  \A b, c \in Bookings :
    /\ b # c
    /\ \A x \in {b, c} : /\ booking[x].status \in Occupying
                         /\ booking[x].start # None /\ booking[x].duration # None
    /\ SameWorker(booking[b], booking[c])
    => \/ booking[b].start + booking[b].duration + Buffer <= booking[c].start
       \/ booking[c].start + booking[c].duration + Buffer <= booking[b].start

\* "admins are never blocked when the receipt image exists"
\* (booking_service.py, _validate_confirmation_requirements).
ReceiptNeverBlocks ==
  \A b \in Bookings :
    booking[b].status = "PENDING_REVIEW" /\ BookingReceipts(b) # {} =>
      AdvanceSettled(b)

=============================================================================
