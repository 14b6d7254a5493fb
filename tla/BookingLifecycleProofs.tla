------------------------ MODULE BookingLifecycleProofs ------------------------
(***************************************************************************)
(* The invariants of BookingLifecycle, for every set of bookings, sessions *)
(* and workers and for every buffer, and the proof that the slots it holds *)
(* implement SlotCalendar.                                                 *)
(*                                                                         *)
(* The lemmas about rows come first: what each operator that rewrites a    *)
(* row keeps.  Every invariant then has one step per action of Next.       *)
(***************************************************************************)
EXTENDS BookingLifecycle, TLAPS

\* The stored end of r, if there is one, is its start plus its duration.
EndFits(r) ==
  r.end # None =>
    r.start # None /\ r.duration # None /\ r.end = r.start + r.duration

\* Start and duration are known.
Scheduled(r) == r.start # None /\ r.duration # None

\* Two rows with one schedule, status and owner.
SameSlot(q, r) ==
  /\ q.status = r.status /\ q.session = r.session
  /\ q.start = r.start /\ q.duration = r.duration /\ q.end = r.end

-----------------------------------------------------------------------------
(* Rows *)

\* A schedule written into a row leaves a row.
LEMMA StartRow ==
  ASSUME NEW r \in Row, NEW t \in Nat \union {None}, NEW e \in Nat \union {None}
  PROVE  [r EXCEPT !.start = t, !.end = e] \in Row
BY DEF Row

LEMMA DurationRow ==
  ASSUME NEW r \in Row, NEW d \in Nat \union {None}, NEW e \in Nat \union {None}
  PROVE  [r EXCEPT !.duration = d, !.end = e] \in Row
BY DEF Row

\* update_field keeps a row's type, status and session, and its derived end;
\* it moves the slot only when it writes a schedule column.
LEMMA UpdatesRow ==
  ASSUME NEW r \in Row, NEW f \in Fields, NEW q \in Updates(r, f)
  PROVE  /\ q \in Row
         /\ q.status = r.status /\ q.session = r.session
         /\ EndFits(r) => EndFits(q)
         /\ f \notin ScheduleFields => SameSlot(q, r)
         /\ Scheduled(r) => Scheduled(q)
<1>1. CASE f = "start"
  <2>1. PICK t \in Starts : q = SetStart(r, t)
    BY <1>1 DEF Updates
  <2> DEFINE e == IF r.duration = None THEN r.end ELSE t + r.duration
  <2>2. t \in Nat /\ e \in Nat \union {None}
    BY ConstantsAssumption DEF Row
  <2>3. q = [r EXCEPT !.start = t, !.end = e]
    BY <2>1 DEF SetStart
  <2>4. q \in Row
    BY <2>2, <2>3, StartRow
  <2>5. EndFits(r) => EndFits(q)
    BY <2>2, <2>3, ConstantsAssumption DEF EndFits, Row
  <2> QED BY <1>1, <2>2, <2>3, <2>4, <2>5, ConstantsAssumption DEF Row, ScheduleFields, Scheduled
<1>2. CASE f = "duration"
  <2>1. PICK d \in Durations : q = SetDuration(r, d)
    BY <1>2 DEF Updates
  <2> DEFINE e == IF r.start = None THEN r.end ELSE r.start + d
  <2>2. d \in Nat /\ e \in Nat \union {None}
    BY ConstantsAssumption DEF Row
  <2>3. q = [r EXCEPT !.duration = d, !.end = e]
    BY <2>1 DEF SetDuration
  <2>4. q \in Row
    BY <2>2, <2>3, DurationRow
  <2>5. EndFits(r) => EndFits(q)
    BY <2>2, <2>3, ConstantsAssumption DEF EndFits, Row
  <2> QED BY <1>2, <2>2, <2>3, <2>4, <2>5, ConstantsAssumption DEF Row, ScheduleFields, Scheduled
<1> USE ConstantsAssumption DEF Row, EndFits, SameSlot, ScheduleFields, Scheduled
<1>3. CASE f = "type"
  BY <1>3 DEF Updates
<1>4. CASE f = "address"
  BY <1>4 DEF Updates
<1>5. CASE f = "screening"
  BY <1>5 DEF Updates
<1>6. CASE f = "advanceRequired"
  BY <1>6 DEF Updates
<1>7. CASE f = "advanceReceived"
  BY <1>7 DEF Updates
<1>8. CASE f = "addressSent"
  <2>1. q = [r EXCEPT !.addressSent = TRUE]
    BY <1>8 DEF Updates
  <2> QED BY <1>8, <2>1
<1> QED BY <1>1, <1>2, <1>3, <1>4, <1>5, <1>6, <1>7, <1>8 DEF Fields

\* Filling a draft after an availability check keeps the row well formed, and
\* a row that has its end is not touched.
LEMMA FilledRow ==
  ASSUME NEW r \in Row, NEW t \in Starts, NEW d \in Durations \union {None},
         EndFits(r)
  PROVE  /\ Filled(r, t, d) \in Row
         /\ Filled(r, t, d).status = r.status
         /\ Filled(r, t, d).session = r.session
         /\ EndFits(Filled(r, t, d))
         /\ r.end # None => Filled(r, t, d) = r
<1> DEFINE q == IF r.start = None THEN [r EXCEPT !.start = t] ELSE r
           e == IF q.start = None THEN q.end ELSE q.start + d
<1>1. t \in Nat /\ t # None /\ d \in Nat \union {None}
  BY ConstantsAssumption
<1>2. /\ q \in Row /\ q.status = r.status /\ q.session = r.session
      /\ q.start \in Nat /\ q.duration = r.duration /\ q.end = r.end
      /\ r.end # None => q = r
  <2>1. CASE r.start = None
    <3>1. q \in Row
      BY <1>1, <2>1 DEF Row
    <3> QED BY <1>1, <2>1, <3>1 DEF Row, EndFits
  <2>2. CASE r.start # None
    BY <2>2 DEF Row
  <2> QED BY <2>1, <2>2
<1>3. CASE r.duration = None /\ d # None
  <2>1. Filled(r, t, d) = [q EXCEPT !.duration = d, !.end = e]
    BY <1>2, <1>3 DEF Filled
  <2>2. e \in Nat /\ e = q.start + d /\ r.end = None
    BY <1>1, <1>2, <1>3, ConstantsAssumption DEF EndFits
  <2> HIDE DEF q, e
  <2>3. Filled(r, t, d) \in Row
    <3>1. d \in Nat \union {None} /\ e \in Nat \union {None}
      BY <1>1, <2>2
    <3>2. [q EXCEPT !.duration = d, !.end = e] \in Row
      BY <1>2, <3>1, DurationRow
    <3> QED BY <2>1, <3>2
  <2>4. /\ Filled(r, t, d).start = q.start /\ Filled(r, t, d).duration = d
        /\ Filled(r, t, d).end = e
        /\ Filled(r, t, d).status = q.status /\ Filled(r, t, d).session = q.session
    BY <1>2, <2>1 DEF Row
  <2> QED BY <1>1, <1>2, <1>3, <2>2, <2>3, <2>4, ConstantsAssumption DEF EndFits
<1>4. CASE ~(r.duration = None /\ d # None)
  <2>1. Filled(r, t, d) = q
    BY <1>4 DEF Filled
  <2> HIDE DEF q
  <2> QED BY <1>2, <2>1, ConstantsAssumption DEF EndFits
<1> QED BY <1>3, <1>4

\* A new draft is a row of its session without a schedule.
LEMMA NewDraftRow ==
  ASSUME NEW s \in Sessions
  PROVE  /\ NewDraft(s) \in Row /\ EndFits(NewDraft(s))
         /\ NewDraft(s).status = "DRAFT" /\ NewDraft(s).session = s
BY ConstantsAssumption DEF NewDraft, NoRow, Row, EndFits, Statuses

\* The advance default changes one column only.
LEMMA AdvanceDefaultRow ==
  ASSUME NEW r \in Row
  PROVE  /\ WithAdvanceDefault(r) \in Row
         /\ SameSlot(WithAdvanceDefault(r), r)
         /\ EndFits(r) => EndFits(WithAdvanceDefault(r))
         /\ Complete(r) => Complete(WithAdvanceDefault(r))
         /\ WithAdvanceDefault(r).type = r.type
BY ConstantsAssumption DEF WithAdvanceDefault, Row, EndFits, SameSlot, Complete, NextField

-----------------------------------------------------------------------------
(* Types and the derived end *)

\* What the two invariants say of one row.
LEMMA RowFacts ==
  ASSUME TypeOK, EndDerived, NEW b \in Bookings
  PROVE  /\ booking[b] \in Row /\ EndFits(booking[b])
         /\ booking[b].status # "ABSENT" => booking[b].session \in Sessions
BY DEF TypeOK, EndDerived, EndFits, Row, Exists

\* An active booking is a booking.
LEMMA ActiveTyped ==
  ASSUME TypeOK
  PROVE  \A s \in Sessions : session[s].active \in Bookings \union {None}
BY DEF TypeOK, SessionRow

\* A tool acts on a booking that exists.
LEMMA ToolTargetTyped ==
  \A b \in ToolTarget : b \in Bookings /\ Exists(b)
BY DEF ToolTarget

\* A step that writes one good row, and leaves the other tables well typed.
LEMMA WriteRow ==
  ASSUME TypeOK, EndDerived,
         NEW b \in Bookings, NEW r \in Row, EndFits(r),
         r.status # "ABSENT" => r.session # None,
         booking' = [booking EXCEPT ![b] = r],
         session' \in [Sessions -> SessionRow], media' \in [Media -> MediaRow],
         now' \in Nat, stale' \subseteq Bookings, amended' \subseteq Bookings
  PROVE  TypeOK' /\ EndDerived'
<1>1. booking' \in [Bookings -> Row]
  BY DEF TypeOK
<1>2. \A c \in Bookings :
        /\ EndFits(booking'[c])
        /\ booking'[c].status # "ABSENT" => booking'[c].session # None
  BY RowFacts, ConstantsAssumption DEF TypeOK, Exists
<1> QED BY <1>1, <1>2 DEF TypeOK, EndDerived, EndFits, Exists

LEMMA UpdateFieldTypes ==
  ASSUME TypeOK, EndDerived, NEW b \in Bookings, NEW f \in Fields,
         Exists(b), UpdateField(b, f)
  PROVE  TypeOK' /\ EndDerived'
<1>1. PICK r \in Updates(booking[b], f) : booking' = [booking EXCEPT ![b] = r]
  BY DEF UpdateField
<1>2. /\ r \in Row /\ EndFits(r)
      /\ r.status # "ABSENT" => r.session # None
  BY RowFacts, UpdatesRow DEF Exists, TypeOK
<1>3. /\ session' = session /\ media' = media /\ now' = now
      /\ stale' \subseteq Bookings /\ amended' \subseteq Bookings
  BY DEF UpdateField, TypeOK
<1> QED BY <1>1, <1>2, <1>3, WriteRow DEF TypeOK

LEMMA SubmitTypes ==
  ASSUME TypeOK, EndDerived, NEW b \in Bookings, SubmitForReview(b)
  PROVE  TypeOK' /\ EndDerived'
<1> DEFINE r == WithAdvanceDefault(booking[b])
           q == [r EXCEPT !.status = "PENDING_REVIEW"]
<1>1. /\ r \in Row /\ EndFits(r) /\ r.session # None
      /\ booking[b].session \in Sessions
  BY RowFacts, AdvanceDefaultRow, ConstantsAssumption DEF SubmitForReview, SameSlot
<1>2. /\ media' = media /\ now' = now
      /\ stale' \subseteq Bookings /\ amended' \subseteq Bookings
  BY DEF SubmitForReview, TypeOK
<1>3. CASE booking' = [booking EXCEPT ![b] = r] /\ session' = session
  BY <1>1, <1>2, <1>3, WriteRow DEF TypeOK
<1>4. CASE /\ booking' = [booking EXCEPT ![b] = q]
           /\ session' = [session EXCEPT ![booking[b].session].state = "WAITING_REVIEW"]
  <2>1. q \in Row /\ EndFits(q) /\ q.session # None
    BY <1>1 DEF Row, EndFits, Statuses
  <2>2. session' \in [Sessions -> SessionRow]
    BY <1>1, <1>4 DEF TypeOK, SessionRow, States
  <2> QED BY <1>2, <1>4, <2>1, <2>2, WriteRow DEF TypeOK
<1> QED BY <1>3, <1>4 DEF SubmitForReview

\* The decisions write a status and one flag, and reset the session.
LEMMA DecidedTypes ==
  ASSUME TypeOK, EndDerived, NEW b \in Bookings, Exists(b),
         NEW r \in Row, SameSlot([r EXCEPT !.status = booking[b].status], booking[b]),
         Decided(b, r), media' = media, now' = now,
         stale' \subseteq Bookings, amended' \subseteq Bookings
  PROVE  TypeOK' /\ EndDerived'
<1>1. EndFits(r) /\ r.session # None /\ booking[b].session \in Sessions
  BY RowFacts, ConstantsAssumption DEF SameSlot, EndFits, Exists, Row
<1>2. session' \in [Sessions -> SessionRow]
  BY <1>1 DEF Decided, TypeOK, SessionRow, States
<1> QED BY <1>1, <1>2, WriteRow DEF Decided, TypeOK

LEMMA ConfirmTypes ==
  ASSUME TypeOK, EndDerived, NEW b \in Bookings, Confirm(b)
  PROVE  TypeOK' /\ EndDerived'
<1> DEFINE r == [booking[b] EXCEPT !.status = "CONFIRMED",
                                   !.advanceReceived = @ \/ ReceiptSeen(b)]
<1>1. Exists(b) /\ Decided(b, r) /\ media' = media /\ now' = now
  BY DEF Confirm, Exists, AllowedTransitions
<1>2. stale' \subseteq Bookings /\ amended' \subseteq Bookings
  BY DEF Confirm, TypeOK
<1>3. booking[b] \in Row
  BY RowFacts
<1>4. (booking[b].advanceReceived \/ ReceiptSeen(b)) \in BOOLEAN
  OBVIOUS
<1>5. r \in Row
  BY <1>3, <1>4 DEF Row, Statuses
<1>6. SameSlot([r EXCEPT !.status = booking[b].status], booking[b])
  BY <1>3 DEF SameSlot, Row
<1> HIDE DEF r
<1> QED BY <1>1, <1>2, <1>5, <1>6, DecidedTypes

LEMMA SetStatusTypes ==
  ASSUME TypeOK, EndDerived, NEW b \in Bookings, NEW status \in Terminal,
         SetStatus(b, status)
  PROVE  TypeOK' /\ EndDerived'
<1> DEFINE r == [booking[b] EXCEPT !.status = status]
<1>1. Exists(b) /\ Decided(b, r) /\ media' = media /\ now' = now
  BY DEF SetStatus, Exists, AllowedTransitions
<1>2. stale' \subseteq Bookings /\ amended' \subseteq Bookings
  BY DEF SetStatus, TypeOK
<1>3. booking[b] \in Row
  BY RowFacts
<1>4. r \in Row /\ SameSlot([r EXCEPT !.status = booking[b].status], booking[b])
  BY <1>3 DEF SameSlot, Row, Statuses, Terminal
<1> HIDE DEF r
<1> QED BY <1>1, <1>2, <1>4, DecidedTypes

LEMMA CheckAvailabilityTypes ==
  ASSUME TypeOK, EndDerived, NEW s \in Sessions, NEW t \in Starts,
         NEW d \in Durations \union {None}, CheckAvailability(s, t, d)
  PROVE  TypeOK' /\ EndDerived'
<1> DEFINE a == session[s].active
<1>1. /\ media' = media /\ now' = now /\ stale' = stale /\ amended' = amended
      /\ session[s] \in SessionRow /\ a \in Bookings \union {None}
  BY DEF CheckAvailability, TypeOK, SessionRow
<1>2. ASSUME NEW b \in Bookings, booking' = [booking EXCEPT ![b] = Filled(@, t, d)],
             session' \in [Sessions -> SessionRow]
      PROVE  TypeOK' /\ EndDerived'
  <2>1. /\ Filled(booking[b], t, d) \in Row /\ EndFits(Filled(booking[b], t, d))
        /\ Filled(booking[b], t, d).status # "ABSENT" =>
             Filled(booking[b], t, d).session # None
    BY RowFacts, FilledRow, ConstantsAssumption
  <2>2. booking' = [booking EXCEPT ![b] = Filled(booking[b], t, d)]
    BY <1>2
  <2> QED BY <1>1, <1>2, <2>1, <2>2, WriteRow DEF TypeOK
<1>3. CASE /\ a # None
           /\ booking' = [booking EXCEPT ![a] = Filled(@, t, d)]
           /\ session' = session
  BY <1>1, <1>2, <1>3 DEF TypeOK
<1>4. CASE \E b \in Bookings :
             /\ booking' = [booking EXCEPT ![b] = Filled(@, t, d)]
             /\ session' = [session EXCEPT ![s].active = b]
  <2>1. PICK b \in Bookings :
             /\ booking' = [booking EXCEPT ![b] = Filled(@, t, d)]
             /\ session' = [session EXCEPT ![s].active = b]
    BY <1>4
  <2>2. session' \in [Sessions -> SessionRow]
    BY <2>1 DEF TypeOK, SessionRow
  <2> QED BY <1>2, <2>1, <2>2
<1>5. CASE \E b \in Bookings :
             /\ booking' = [booking EXCEPT ![b] = Filled(NewDraft(s), t, d)]
             /\ session' = [session EXCEPT ![s] =
                  [state |-> IF @.state = "IDLE" THEN "COLLECTING" ELSE @.state,
                   active |-> b]]
  <2>1. PICK b \in Bookings :
             /\ booking' = [booking EXCEPT ![b] = Filled(NewDraft(s), t, d)]
             /\ session' = [session EXCEPT ![s] =
                  [state |-> IF @.state = "IDLE" THEN "COLLECTING" ELSE @.state,
                   active |-> b]]
    BY <1>5
  <2>2. session' \in [Sessions -> SessionRow]
    BY <2>1 DEF TypeOK, SessionRow, States
  <2>3. /\ Filled(NewDraft(s), t, d) \in Row /\ EndFits(Filled(NewDraft(s), t, d))
        /\ Filled(NewDraft(s), t, d).session # None
    BY NewDraftRow, FilledRow, ConstantsAssumption
  <2> QED BY <1>1, <2>1, <2>2, <2>3, WriteRow DEF TypeOK
<1> QED BY <1>3, <1>4, <1>5 DEF CheckAvailability

LEMMA FallbackTypes ==
  ASSUME TypeOK, EndDerived, NEW s \in Sessions, FallbackTurn(s)
  PROVE  TypeOK' /\ EndDerived'
<1> DEFINE Before(b) == IF DraftsOf(s) = {b} THEN booking[b] ELSE NewDraft(s)
           After(b) == {Before(b)} \union
                         (IF NextField(Before(b)) = None THEN {}
                          ELSE Updates(Before(b), NextField(Before(b))))
           Turn(b, r) ==
             /\ booking' = [booking EXCEPT ![b] = r]
             /\ session' = [session EXCEPT ![s] =
                  [state |-> IF NextField(r) = None /\ Available(b, r)
                             THEN "AWAITING_CLIENT_CONFIRMATION" ELSE "COLLECTING",
                   active |-> IF DraftsOf(s) = {b} THEN @.active ELSE b]]
<1>0. PICK b \in Bookings : \E q \in After(b) : Turn(b, q)
  BY DEF FallbackTurn
<1>1. PICK r \in After(b) : Turn(b, r)
  BY <1>0
<1>2. /\ media' = media /\ now' = now /\ stale' = stale /\ amended' = amended
  BY DEF FallbackTurn
<1>3. /\ Before(b) \in Row /\ EndFits(Before(b)) /\ Before(b).session # None
  BY RowFacts, NewDraftRow, ConstantsAssumption DEF DraftsOf
<1>4. NextField(Before(b)) \in Fields \union {None}
  BY DEF NextField, Fields
<1> HIDE DEF Before
<1>5. r \in Row /\ EndFits(r) /\ r.session # None
  BY <1>3, <1>4, UpdatesRow
<1>6. session' \in [Sessions -> SessionRow]
  BY <1>1 DEF TypeOK, SessionRow, States
<1> QED BY <1>1, <1>2, <1>5, <1>6, WriteRow DEF TypeOK

\* Deleting rows leaves empty rows; dangling references become NULL.
LEMMA ClearSessionTypes ==
  ASSUME TypeOK, EndDerived, NEW s \in Sessions, ClearSession(s)
  PROVE  TypeOK' /\ EndDerived'
<1>1. NoRow \in Row /\ EndFits(NoRow) /\ NoRow.status = "ABSENT"
  BY DEF NoRow, Row, EndFits
<1>2. \A b \in Bookings : booking'[b] = booking[b] \/ booking'[b] = NoRow
  BY DEF ClearSession
<1>3. booking' \in [Bookings -> Row]
  BY <1>1 DEF ClearSession, TypeOK
<1>4. \A b \in Bookings :
        /\ EndFits(booking'[b])
        /\ booking'[b].status # "ABSENT" => booking'[b].session # None
  BY <1>1, <1>2, RowFacts, ConstantsAssumption
<1>5. session' \in [Sessions -> SessionRow]
  BY DEF ClearSession, TypeOK, SessionRow, States
<1>6. media' \in [Media -> MediaRow]
  BY DEF ClearSession, TypeOK, MediaRow, NoMedia
<1>7. now' \in Nat /\ stale' \subseteq Bookings /\ amended' \subseteq Bookings
  BY DEF ClearSession, TypeOK
<1> QED BY <1>3, <1>4, <1>5, <1>6, <1>7 DEF TypeOK, EndDerived, EndFits, Exists

\* The steps that leave the bookings table alone.
LEMMA OtherTypes ==
  ASSUME TypeOK, EndDerived, booking' = booking,
         session' \in [Sessions -> SessionRow], media' \in [Media -> MediaRow],
         now' \in Nat, stale' \subseteq Bookings, amended' \subseteq Bookings
  PROVE  TypeOK' /\ EndDerived'
BY DEF TypeOK, EndDerived, Exists

LEMMA TypesStep ==
  ASSUME TypeOK, EndDerived, [Next]_vars
  PROVE  TypeOK' /\ EndDerived'
<1>1. ASSUME NEW s \in Sessions, RuntimeNext(s)
      PROVE  TypeOK' /\ EndDerived'
  <2>1. CASE \E t \in Starts, d \in Durations \union {None} : CheckAvailability(s, t, d)
    BY <2>1, CheckAvailabilityTypes
  <2>2. CASE \E f \in Fields : AgentUpdate(s, f)
    BY <2>2, ToolTargetTyped, UpdateFieldTypes DEF AgentUpdate, Exists
  <2>3. CASE AgentSubmit
    BY <2>3, ToolTargetTyped, SubmitTypes DEF AgentSubmit
  <2>4. CASE AwaitConfirmation(s)
    <3>1. session' \in [Sessions -> SessionRow]
      BY <2>4 DEF AwaitConfirmation, TypeOK, SessionRow, States
    <3> QED BY <2>4, <3>1, OtherTypes DEF AwaitConfirmation, TypeOK
  <2>5. CASE FallbackTurn(s)
    BY <2>5, FallbackTypes
  <2> QED BY <1>1, <2>1, <2>2, <2>3, <2>4, <2>5 DEF RuntimeNext
<1>2. ASSUME NEW b \in Bookings, StaffNext(b)
      PROVE  TypeOK' /\ EndDerived'
  <2>1. CASE Confirm(b)
    BY <2>1, ConfirmTypes
  <2>2. CASE Reject(b) \/ Cancel(b) \/ CompleteEarly(b)
    BY <2>2, SetStatusTypes DEF Reject, Cancel, CompleteEarly, Terminal
  <2>3. CASE MarkIncallAddressSent(b)
    <3> DEFINE r == [booking[b] EXCEPT !.addressSent = TRUE]
    <3>1. booking[b] \in Row /\ EndFits(booking[b]) /\ booking[b].session # None
      BY <2>3, RowFacts, ConstantsAssumption DEF MarkIncallAddressSent
    <3>2. r \in Row /\ EndFits(r) /\ r.session # None
      BY <3>1 DEF Row, EndFits
    <3> HIDE DEF r
    <3>3. booking' = [booking EXCEPT ![b] = r]
      BY <2>3 DEF MarkIncallAddressSent, r
    <3> QED BY <2>3, <3>2, <3>3, WriteRow DEF MarkIncallAddressSent, TypeOK
  <2>4. CASE \E f \in Fields : AdminEdit(b, f)
    <3>1. Exists(b)
      BY <2>4, ConstantsAssumption DEF AdminEdit, Exists, Statuses
    <3> QED BY <2>4, <3>1, UpdateFieldTypes DEF AdminEdit
  <2> QED BY <1>2, <2>1, <2>2, <2>3, <2>4 DEF StaffNext
<1>3. CASE \E w \in Workers : FreeNow(w)
  BY <1>3, SetStatusTypes DEF FreeNow, CompleteEarly, Terminal
<1>4. CASE \E s \in Sessions, m \in Media, b \in Bookings \union {None} :
             AttachMedia(s, m, b)
  <2>1. media' \in [Media -> MediaRow]
    BY <1>4 DEF AttachMedia, TypeOK, MediaRow
  <2> QED BY <1>4, <2>1, OtherTypes DEF AttachMedia, TypeOK
<1>5. CASE \E m \in Media, b \in Bookings : MarkReceipt(m, b)
  <2>1. media' \in [Media -> MediaRow]
    BY <1>5 DEF MarkReceipt, TypeOK, MediaRow
  <2> QED BY <1>5, <2>1, OtherTypes DEF MarkReceipt, TypeOK
<1>6. CASE \E s \in Sessions : ClearSession(s)
  BY <1>6, ClearSessionTypes
<1>7. CASE PauseAgent \/ ResumeAgent
  <2>1. session' \in [Sessions -> SessionRow]
    BY <1>7 DEF PauseAgent, ResumeAgent, TypeOK, SessionRow, States
  <2> QED BY <1>7, <2>1, OtherTypes DEF PauseAgent, ResumeAgent, TypeOK
<1>8. CASE Tick
  BY <1>8, OtherTypes DEF Tick, TypeOK
<1>9. CASE UNCHANGED vars
  BY <1>9, OtherTypes DEF vars, TypeOK
<1> QED BY <1>1, <1>2, <1>3, <1>4, <1>5, <1>6, <1>7, <1>8, <1>9 DEF Next

\* The initial tables are empty.
LEMMA InitTypes == Init => TypeOK /\ EndDerived
BY ConstantsAssumption
   DEF Init, TypeOK, EndDerived, Row, NoRow, SessionRow, MediaRow, NoMedia,
       States, Exists

\* Every variable keeps its columns' types through every sequence of requests.
THEOREM TypeCorrect == Spec => []TypeOK
<1>1. TypeOK /\ EndDerived /\ [Next]_vars => TypeOK' /\ EndDerived'
  BY TypesStep
<1> QED BY <1>1, InitTypes, PTL DEF Spec

\* The end of a booking is never out of step with its start and duration:
\* update_field and the fill after an availability check are the only writers,
\* and each keeps it.
THEOREM EndIsDerived == Spec => []EndDerived
<1>1. TypeOK /\ EndDerived /\ [Next]_vars => TypeOK' /\ EndDerived'
  BY TypesStep
<1> QED BY <1>1, InitTypes, PTL DEF Spec

-----------------------------------------------------------------------------
(* Sessions and their bookings *)

\* The three invariants about sessions are proved together: a decision drops
\* the active booking of one session only because of ActiveIsOpen.
SessionsInv == ActiveIsOpen /\ WaitingHasPending /\ OneDraft

\* A row of the same status and session.
SameOwner(q, r) == q.status = r.status /\ q.session = r.session

LEMMA SameOwners ==
  ASSUME TypeOK, SessionsInv, session' = session,
         \A b \in Bookings : SameOwner(booking'[b], booking[b])
  PROVE  SessionsInv'
<1>1. ActiveIsOpen'
  BY ActiveTyped DEF SessionsInv, ActiveIsOpen, SameOwner
<1>2. WaitingHasPending'
  BY DEF SessionsInv, WaitingHasPending, SameOwner
<1>3. OneDraft'
  BY DEF SessionsInv, OneDraft, SameOwner
<1> QED BY <1>1, <1>2, <1>3 DEF SessionsInv

LEMMA UpdateFieldSessions ==
  ASSUME TypeOK, EndDerived, SessionsInv, NEW b \in Bookings, NEW f \in Fields,
         UpdateField(b, f)
  PROVE  SessionsInv'
<1>1. PICK r \in Updates(booking[b], f) : booking' = [booking EXCEPT ![b] = r]
  BY DEF UpdateField
<1>2. SameOwner(r, booking[b])
  BY RowFacts, UpdatesRow DEF SameOwner
<1>3. session' = session
  BY DEF UpdateField
<1> QED BY <1>1, <1>2, <1>3, SameOwners DEF SameOwner, TypeOK

LEMMA SubmitSessions ==
  ASSUME TypeOK, EndDerived, SessionsInv, NEW b \in Bookings, SubmitForReview(b)
  PROVE  SessionsInv'
<1> DEFINE r == WithAdvanceDefault(booking[b])
           q == [r EXCEPT !.status = "PENDING_REVIEW"]
           s == booking[b].session
<1>1. /\ r \in Row /\ r.session = s /\ r.status = "DRAFT"
      /\ booking[b].status = "DRAFT" /\ s \in Sessions
  BY RowFacts, AdvanceDefaultRow DEF SubmitForReview, SameSlot
<1>2. CASE booking' = [booking EXCEPT ![b] = r] /\ session' = session
  BY <1>1, <1>2, SameOwners DEF SameOwner, TypeOK
<1>3. CASE /\ booking' = [booking EXCEPT ![b] = q]
           /\ session' = [session EXCEPT ![s].state = "WAITING_REVIEW"]
  <2>1. q.status = "PENDING_REVIEW" /\ q.session = s
    BY <1>1 DEF Row
  <2> HIDE DEF q, r, s
  <2>2. /\ booking'[b] = q
        /\ \A c \in Bookings : c # b => booking'[c] = booking[c]
    BY <1>3 DEF TypeOK
  <2>3. /\ session'[s].active = session[s].active
        /\ \A x \in Sessions : x # s => session'[x] = session[x]
        /\ \A x \in Sessions : session'[x].active = session[x].active
    BY <1>1, <1>3 DEF TypeOK, SessionRow
  <2>4. ActiveIsOpen'
    BY <1>1, <2>1, <2>2, <2>3, ActiveTyped DEF SessionsInv, ActiveIsOpen, s
  <2>5. WaitingHasPending'
    BY <1>1, <2>1, <2>2, <2>3 DEF SessionsInv, WaitingHasPending, s
  <2>6. OneDraft'
    BY <1>1, <2>1, <2>2 DEF SessionsInv, OneDraft, s
  <2> QED BY <2>4, <2>5, <2>6 DEF SessionsInv
<1> QED BY <1>2, <1>3 DEF SubmitForReview

\* A decision: the row leaves DRAFT or PENDING_REVIEW, the session is reset,
\* and no other session has the row as its active booking.
LEMMA DecidedSessions ==
  ASSUME TypeOK, EndDerived, SessionsInv, NEW b \in Bookings, Exists(b),
         NEW r, r.session = booking[b].session,
         r.status \in Terminal \union {"CONFIRMED"}, Decided(b, r)
  PROVE  SessionsInv'
<1> DEFINE s == booking[b].session
<1>1. s \in Sessions
  BY RowFacts DEF Exists
<1>2. /\ booking'[b] = r
      /\ \A c \in Bookings : c # b => booking'[c] = booking[c]
  BY DEF Decided, TypeOK
<1>3. /\ session'[s].state = "IDLE" /\ session'[s].active = None
      /\ \A x \in Sessions : x # s => session'[x] = session[x]
  BY <1>1 DEF Decided, TypeOK
<1>4. r.status \notin {"DRAFT", "PENDING_REVIEW"}
  BY DEF Terminal
<1>5. ActiveIsOpen'
  BY <1>1, <1>2, <1>3, ActiveTyped DEF SessionsInv, ActiveIsOpen
<1>6. WaitingHasPending'
  BY <1>1, <1>2, <1>3 DEF SessionsInv, WaitingHasPending
<1>7. OneDraft'
  BY <1>2, <1>4 DEF SessionsInv, OneDraft
<1> QED BY <1>5, <1>6, <1>7 DEF SessionsInv

\* A new draft of s, linked to s, when s has no draft.
LEMMA NewDraftSessions ==
  ASSUME TypeOK, SessionsInv, NEW s \in Sessions, NEW b \in Bookings,
         DraftsOf(s) = {}, ~Exists(b),
         NEW r, r.status = "DRAFT", r.session = s,
         NEW q, q.active = b, q.state = "WAITING_REVIEW" => session[s].state = "WAITING_REVIEW",
         booking' = [booking EXCEPT ![b] = r], session' = [session EXCEPT ![s] = q]
  PROVE  SessionsInv'
<1>1. /\ booking'[b] = r
      /\ \A c \in Bookings : c # b => booking'[c] = booking[c]
  BY DEF TypeOK
<1>2. /\ session'[s] = q
      /\ \A x \in Sessions : x # s => session'[x] = session[x]
  BY DEF TypeOK
<1>3. booking[b].status = "ABSENT"
  BY DEF Exists
<1>4. ActiveIsOpen'
  BY <1>1, <1>2, <1>3, ActiveTyped DEF SessionsInv, ActiveIsOpen
<1>5. WaitingHasPending'
  BY <1>1, <1>2, <1>3 DEF SessionsInv, WaitingHasPending
<1>6. OneDraft'
  BY <1>1, <1>3 DEF SessionsInv, OneDraft, DraftsOf
<1> QED BY <1>4, <1>5, <1>6 DEF SessionsInv

LEMMA CheckAvailabilitySessions ==
  ASSUME TypeOK, EndDerived, SessionsInv, NEW s \in Sessions, NEW t \in Starts,
         NEW d \in Durations \union {None}, CheckAvailability(s, t, d)
  PROVE  SessionsInv'
<1> DEFINE a == session[s].active
<1>1. a \in Bookings \union {None}
  BY DEF TypeOK, SessionRow
<1>2. \A b \in Bookings : SameOwner(Filled(booking[b], t, d), booking[b])
  BY RowFacts, FilledRow DEF SameOwner
<1>3. CASE a # None /\ booking' = [booking EXCEPT ![a] = Filled(@, t, d)] /\ session' = session
  BY <1>1, <1>2, <1>3, SameOwners DEF SameOwner, TypeOK
<1>4. CASE \E b \in Bookings :
             /\ DraftsOf(s) = {b}
             /\ booking' = [booking EXCEPT ![b] = Filled(@, t, d)]
             /\ session' = [session EXCEPT ![s].active = b]
  <2>1. PICK b \in Bookings :
             /\ DraftsOf(s) = {b}
             /\ booking' = [booking EXCEPT ![b] = Filled(@, t, d)]
             /\ session' = [session EXCEPT ![s].active = b]
    BY <1>4
  <2>2. \A c \in Bookings : SameOwner(booking'[c], booking[c])
    BY <1>2, <2>1 DEF TypeOK, SameOwner
  <2>3. /\ session'[s].active = b
        /\ \A x \in Sessions : x # s => session'[x] = session[x]
        /\ \A x \in Sessions : session'[x].state = session[x].state
    BY <2>1 DEF TypeOK, SessionRow
  <2>4. booking[b].status = "DRAFT" /\ booking[b].session = s
    BY <2>1 DEF DraftsOf
  <2>5. ActiveIsOpen'
    BY <2>2, <2>3, <2>4, ActiveTyped DEF SessionsInv, ActiveIsOpen, SameOwner
  <2>6. WaitingHasPending'
    BY <2>2, <2>3 DEF SessionsInv, WaitingHasPending, SameOwner
  <2>7. OneDraft'
    BY <2>2 DEF SessionsInv, OneDraft, SameOwner
  <2> QED BY <2>5, <2>6, <2>7 DEF SessionsInv
<1>5. CASE /\ DraftsOf(s) = {}
           /\ \E b \in Bookings :
                /\ ~Exists(b)
                /\ booking' = [booking EXCEPT ![b] = Filled(NewDraft(s), t, d)]
                /\ session' = [session EXCEPT ![s] =
                     [state |-> IF @.state = "IDLE" THEN "COLLECTING" ELSE @.state,
                      active |-> b]]
  <2>1. PICK b \in Bookings :
                /\ ~Exists(b)
                /\ booking' = [booking EXCEPT ![b] = Filled(NewDraft(s), t, d)]
                /\ session' = [session EXCEPT ![s] =
                     [state |-> IF @.state = "IDLE" THEN "COLLECTING" ELSE @.state,
                      active |-> b]]
    BY <1>5
  <2> DEFINE q == [state |-> IF session[s].state = "IDLE" THEN "COLLECTING"
                             ELSE session[s].state,
                   active |-> b]
  <2>2. session' = [session EXCEPT ![s] = q]
    BY <2>1
  <2>3. /\ q.active = b
        /\ q.state = "WAITING_REVIEW" => session[s].state = "WAITING_REVIEW"
    OBVIOUS
  <2>4. /\ Filled(NewDraft(s), t, d).status = "DRAFT"
        /\ Filled(NewDraft(s), t, d).session = s
    BY NewDraftRow, FilledRow
  <2> HIDE DEF q
  <2> QED BY <1>5, <2>1, <2>2, <2>3, <2>4, NewDraftSessions
<1> QED BY <1>3, <1>4, <1>5 DEF CheckAvailability

LEMMA FallbackSessions ==
  ASSUME TypeOK, EndDerived, SessionsInv, NEW s \in Sessions, FallbackTurn(s)
  PROVE  SessionsInv'
<1> DEFINE Before(b) == IF DraftsOf(s) = {b} THEN booking[b] ELSE NewDraft(s)
           After(b) == {Before(b)} \union
                         (IF NextField(Before(b)) = None THEN {}
                          ELSE Updates(Before(b), NextField(Before(b))))
           Active(b) == IF DraftsOf(s) = {b} THEN session[s].active ELSE b
           State(b, r) == IF NextField(r) = None /\ Available(b, r)
                          THEN "AWAITING_CLIENT_CONFIRMATION" ELSE "COLLECTING"
           Turn(b, r) ==
             /\ booking' = [booking EXCEPT ![b] = r]
             /\ session' = [session EXCEPT ![s] =
                              [state |-> State(b, r), active |-> Active(b)]]
<1>1. PICK b \in Bookings :
        /\ DraftsOf(s) = {b} \/ (DraftsOf(s) = {} /\ ~Exists(b))
        /\ \E q \in After(b) : Turn(b, q)
  BY DEF FallbackTurn
<1>2. PICK r \in After(b) : Turn(b, r)
  BY <1>1
<1>3. /\ Before(b) \in Row /\ Before(b).status = "DRAFT" /\ Before(b).session = s
  BY RowFacts, NewDraftRow DEF DraftsOf
<1>4. NextField(Before(b)) \in Fields \union {None}
  BY DEF NextField, Fields
<1>5. r.status = "DRAFT" /\ r.session = s
  <2> HIDE DEF Before
  <2> QED BY <1>3, <1>4, UpdatesRow
<1>6. State(b, r) # "WAITING_REVIEW"
  OBVIOUS
<1>7. CASE DraftsOf(s) = {b}
  <2>1. SameOwner(r, booking[b])
    BY <1>3, <1>5, <1>7 DEF SameOwner
  <2> HIDE DEF State, After
  <2>2. \A c \in Bookings : SameOwner(booking'[c], booking[c])
    BY <1>2, <2>1 DEF SameOwner, TypeOK
  <2>3. /\ session'[s].active = session[s].active
        /\ session'[s].state # "WAITING_REVIEW"
        /\ \A x \in Sessions : x # s => session'[x] = session[x]
    BY <1>2, <1>6, <1>7 DEF TypeOK
  <2>4. ActiveIsOpen'
    BY <2>2, <2>3, ActiveTyped DEF SessionsInv, ActiveIsOpen, SameOwner
  <2>5. WaitingHasPending'
    BY <2>2, <2>3 DEF SessionsInv, WaitingHasPending, SameOwner
  <2>6. OneDraft'
    BY <2>2 DEF SessionsInv, OneDraft, SameOwner
  <2> QED BY <2>4, <2>5, <2>6 DEF SessionsInv
<1>8. CASE DraftsOf(s) = {} /\ ~Exists(b)
  <2> DEFINE q == [state |-> State(b, r), active |-> Active(b)]
  <2>1. q.active = b /\ q.state # "WAITING_REVIEW"
    BY <1>6, <1>8
  <2>2. booking' = [booking EXCEPT ![b] = r] /\ session' = [session EXCEPT ![s] = q]
    BY <1>2
  <2> HIDE DEF q, After
  <2> QED BY <1>5, <1>8, <2>1, <2>2, NewDraftSessions
<1> QED BY <1>1, <1>7, <1>8

LEMMA ClearSessionSessions ==
  ASSUME TypeOK, SessionsInv, NEW s \in Sessions, ClearSession(s)
  PROVE  SessionsInv'
<1>1. \A b \in Bookings :
        booking'[b] = IF booking[b].session = s THEN NoRow ELSE booking[b]
  BY DEF ClearSession
<1>2. /\ session'[s].state = "IDLE" /\ session'[s].active = None
      /\ \A x \in Sessions : x # s =>
           /\ session'[x].state = session[x].state
           /\ \/ session'[x].active = None
              \/ /\ session'[x].active = session[x].active
                 /\ session[x].active \in Bookings => booking[session[x].active].session # s
  BY DEF ClearSession, TypeOK, SessionRow
<1>3. NoRow.status = "ABSENT"
  BY DEF NoRow
<1>4. \A x \in Sessions : session[x].active \in Bookings \union {None}
  BY DEF TypeOK, SessionRow
<1>5. ActiveIsOpen'
  BY <1>1, <1>2, <1>4 DEF SessionsInv, ActiveIsOpen
<1>6. WaitingHasPending'
  BY <1>1, <1>2 DEF SessionsInv, WaitingHasPending
<1>7. OneDraft'
  BY <1>1, <1>3 DEF SessionsInv, OneDraft
<1> QED BY <1>5, <1>6, <1>7 DEF SessionsInv

LEMMA SetStatusSessions ==
  ASSUME TypeOK, EndDerived, SessionsInv, NEW b \in Bookings,
         NEW status \in Terminal, SetStatus(b, status)
  PROVE  SessionsInv'
<1> DEFINE r == [booking[b] EXCEPT !.status = status]
<1>1. Exists(b) /\ Decided(b, r)
  BY DEF SetStatus, Exists, AllowedTransitions
<1>2. r.session = booking[b].session /\ r.status = status
  BY RowFacts DEF Row
<1> HIDE DEF r
<1> QED BY <1>1, <1>2, DecidedSessions

LEMMA ConfirmSessions ==
  ASSUME TypeOK, EndDerived, SessionsInv, NEW b \in Bookings, Confirm(b)
  PROVE  SessionsInv'
<1> DEFINE r == [booking[b] EXCEPT !.status = "CONFIRMED",
                                   !.advanceReceived = @ \/ ReceiptSeen(b)]
<1>1. Exists(b) /\ Decided(b, r)
  BY DEF Confirm, Exists, AllowedTransitions
<1>2. r.session = booking[b].session /\ r.status = "CONFIRMED"
  BY RowFacts DEF Row
<1> HIDE DEF r
<1> QED BY <1>1, <1>2, DecidedSessions

LEMMA SessionsStep ==
  ASSUME TypeOK, EndDerived, SessionsInv, [Next]_vars
  PROVE  SessionsInv'
<1>1. ASSUME NEW s \in Sessions, RuntimeNext(s)
      PROVE  SessionsInv'
  <2>1. CASE \E t \in Starts, d \in Durations \union {None} : CheckAvailability(s, t, d)
    BY <2>1, CheckAvailabilitySessions
  <2>2. CASE \E f \in Fields : AgentUpdate(s, f)
    BY <2>2, ToolTargetTyped, UpdateFieldSessions DEF AgentUpdate
  <2>3. CASE AgentSubmit
    BY <2>3, ToolTargetTyped, SubmitSessions DEF AgentSubmit
  <2>4. CASE AwaitConfirmation(s)
    <3>1. /\ booking' = booking /\ session'[s].state # "WAITING_REVIEW"
          /\ \A x \in Sessions : session'[x].active = session[x].active
          /\ \A x \in Sessions : x # s => session'[x] = session[x]
      BY <2>4 DEF AwaitConfirmation, TypeOK, SessionRow
    <3> QED BY <3>1 DEF SessionsInv, ActiveIsOpen, WaitingHasPending, OneDraft
  <2>5. CASE FallbackTurn(s)
    BY <2>5, FallbackSessions
  <2> QED BY <1>1, <2>1, <2>2, <2>3, <2>4, <2>5 DEF RuntimeNext
<1>2. ASSUME NEW b \in Bookings, StaffNext(b)
      PROVE  SessionsInv'
  <2>1. CASE Confirm(b)
    BY <2>1, ConfirmSessions
  <2>2. CASE Reject(b) \/ Cancel(b) \/ CompleteEarly(b)
    BY <2>2, SetStatusSessions DEF Reject, Cancel, CompleteEarly, Terminal
  <2>3. CASE MarkIncallAddressSent(b)
    <3>1. session' = session /\ booking' = [booking EXCEPT ![b].addressSent = TRUE]
      BY <2>3 DEF MarkIncallAddressSent
    <3>2. \A c \in Bookings : SameOwner(booking'[c], booking[c])
      BY <3>1 DEF SameOwner, TypeOK, Row
    <3> QED BY <3>1, <3>2, SameOwners
  <2>4. CASE \E f \in Fields : AdminEdit(b, f)
    BY <2>4, UpdateFieldSessions DEF AdminEdit
  <2> QED BY <1>2, <2>1, <2>2, <2>3, <2>4 DEF StaffNext
<1>3. CASE \E w \in Workers : FreeNow(w)
  BY <1>3, SetStatusSessions DEF FreeNow, CompleteEarly, Terminal
<1>4. CASE /\ booking' = booking /\ session' = session
  BY <1>4 DEF SessionsInv, ActiveIsOpen, WaitingHasPending, OneDraft
<1>5. CASE \E s \in Sessions : ClearSession(s)
  BY <1>5, ClearSessionSessions
<1>6. CASE PauseAgent \/ ResumeAgent
  <2>1. /\ booking' = booking
        /\ \A s \in Sessions :
             /\ session'[s].active = session[s].active
             /\ session'[s].state = "WAITING_REVIEW" => session[s].state = "WAITING_REVIEW"
    BY <1>6 DEF PauseAgent, ResumeAgent, TypeOK, SessionRow
  <2> QED BY <2>1 DEF SessionsInv, ActiveIsOpen, WaitingHasPending, OneDraft
<1> QED BY <1>1, <1>2, <1>3, <1>4, <1>5, <1>6
        DEF Next, vars, AttachMedia, MarkReceipt, Tick

LEMMA InitSessions == Init => SessionsInv
BY DEF Init, SessionsInv, ActiveIsOpen, WaitingHasPending, OneDraft, NoRow

LEMMA SessionsInvariant == Spec => []SessionsInv
<1>1. TypeOK /\ EndDerived /\ SessionsInv /\ [Next]_vars => SessionsInv'
  BY SessionsStep
<1> QED BY <1>1, InitSessions, TypeCorrect, EndIsDerived, PTL DEF Spec

\* No session ever points at a booking that is over or is not its own.
THEOREM ActiveStaysOpen == Spec => []ActiveIsOpen
<1>1. SessionsInv => ActiveIsOpen
  BY DEF SessionsInv
<1> QED BY <1>1, SessionsInvariant, PTL

\* A client is told to wait for a review only while there is one to come.
THEOREM WaitingIsForReview == Spec => []WaitingHasPending
<1>1. SessionsInv => WaitingHasPending
  BY DEF SessionsInv
<1> QED BY <1>1, SessionsInvariant, PTL

\* Requests that run one at a time never give a session two drafts.
THEOREM DraftIsUnique == Spec => []OneDraft
<1>1. SessionsInv => OneDraft
  BY DEF SessionsInv
<1> QED BY <1>1, SessionsInvariant, PTL

-----------------------------------------------------------------------------
(* The review *)

\* What a review that nobody amended has established of a row.
RowReviewed(r) ==
  /\ Complete(r)
  /\ r.type = "outcall" => r.address /\ (r.status = "CONFIRMED" => r.advanceReceived)

\* ConfirmedAsReviewed is not inductive: the confirmation relies on what the
\* submission established for the row under review.  No later write empties
\* the schedule, which the calendar relies on.
ReviewedInv ==
  \A b \in Bookings :
    booking[b].status \in Occupying =>
      Scheduled(booking[b]) /\ (b \notin amended => RowReviewed(booking[b]))

\* A row that is complete has a start and a duration.
LEMMA CompleteScheduled ==
  ASSUME NEW r, Complete(r)
  PROVE  Scheduled(r)
BY ConstantsAssumption DEF Complete, NextField, Fields, Scheduled

\* Rescheduling a reviewed row leaves it reviewed.
LEMMA RescheduleReviewed ==
  ASSUME NEW r \in Row, RowReviewed(r), NEW f \in ScheduleFields,
         NEW q \in Updates(r, f)
  PROVE  RowReviewed(q)
<1>1. r.start # None /\ r.duration # None
  BY CompleteScheduled DEF RowReviewed, Scheduled
<1>2. /\ q.start # None /\ q.duration # None
      /\ q.type = r.type /\ q.address = r.address /\ q.screening = r.screening
      /\ q.status = r.status /\ q.advanceReceived = r.advanceReceived
  <2>1. CASE f = "start"
    <3>1. PICK t \in Starts : q = SetStart(r, t)
      BY <2>1 DEF Updates
    <3> QED BY <1>1, <3>1, ConstantsAssumption DEF SetStart, Row
  <2>2. CASE f = "duration"
    <3>1. PICK d \in Durations : q = SetDuration(r, d)
      BY <2>2 DEF Updates
    <3> QED BY <1>1, <3>1, ConstantsAssumption DEF SetDuration, Row
  <2> QED BY <2>1, <2>2 DEF ScheduleFields
<1> QED BY <1>1, <1>2 DEF RowReviewed, Complete, NextField

\* A step that writes one row.
LEMMA WriteReviewed ==
  ASSUME TypeOK, ReviewedInv, NEW b \in Bookings, NEW r,
         booking' = [booking EXCEPT ![b] = r],
         r.status \in Occupying =>
           Scheduled(r) /\ (b \notin amended' => RowReviewed(r)),
         amended \ {b} \subseteq amended'
  PROVE  ReviewedInv'
<1>1. /\ booking'[b] = r
      /\ \A c \in Bookings : c # b => booking'[c] = booking[c]
  BY DEF TypeOK
<1> QED BY <1>1 DEF ReviewedInv

LEMMA UpdateFieldReviewed ==
  ASSUME TypeOK, EndDerived, ReviewedInv, NEW b \in Bookings, NEW f \in Fields,
         UpdateField(b, f)
  PROVE  ReviewedInv'
<1>1. PICK r \in Updates(booking[b], f) : booking' = [booking EXCEPT ![b] = r]
  BY DEF UpdateField
<1>2. booking[b] \in Row /\ r.status = booking[b].status
  BY RowFacts, UpdatesRow
<1>3. amended \subseteq amended'
  BY DEF UpdateField
<1>4. r.status \in Occupying =>
        Scheduled(r) /\ (b \notin amended' => RowReviewed(r))
  BY <1>2, UpdatesRow, RescheduleReviewed DEF UpdateField, ReviewedInv
<1> QED BY <1>1, <1>3, <1>4, WriteReviewed

LEMMA SubmitReviewed ==
  ASSUME TypeOK, EndDerived, ReviewedInv, NEW b \in Bookings, SubmitForReview(b)
  PROVE  ReviewedInv'
<1> DEFINE r == WithAdvanceDefault(booking[b])
           q == [r EXCEPT !.status = "PENDING_REVIEW"]
<1>1. /\ r \in Row /\ r.status = "DRAFT" /\ Complete(r)
      /\ amended \ {b} \subseteq amended'
  BY RowFacts, AdvanceDefaultRow DEF SubmitForReview, SameSlot
<1>2. CASE booking' = [booking EXCEPT ![b] = r]
  BY <1>1, <1>2, WriteReviewed DEF Occupying
<1>3. CASE OutcallRequirementsMet(r) /\ booking' = [booking EXCEPT ![b] = q]
  <2>1. /\ q.status = "PENDING_REVIEW" /\ q.type = r.type /\ q.address = r.address
        /\ q.start = r.start /\ q.duration = r.duration /\ q.screening = r.screening
    BY <1>1 DEF Row
  <2> HIDE DEF q, r
  <2>2. Scheduled(q) /\ RowReviewed(q)
    BY <1>1, <1>3, <2>1, CompleteScheduled
       DEF RowReviewed, Complete, NextField, OutcallRequirementsMet, Scheduled
  <2> QED BY <1>1, <1>3, <2>2, WriteReviewed
<1> QED BY <1>2, <1>3 DEF SubmitForReview

LEMMA ConfirmReviewed ==
  ASSUME TypeOK, EndDerived, ReviewedInv, NEW b \in Bookings, Confirm(b)
  PROVE  ReviewedInv'
<1> DEFINE advance == booking[b].advanceReceived \/ ReceiptSeen(b)
           r == [booking[b] EXCEPT !.status = "CONFIRMED", !.advanceReceived = advance]
<1>1. /\ booking' = [booking EXCEPT ![b] = r] /\ amended' = amended
      /\ booking[b].status = "PENDING_REVIEW" /\ AdvanceSettled(b)
  BY DEF Confirm, Decided, AllowedTransitions
<1>2. booking[b].type = "outcall" => advance
  BY <1>1 DEF AdvanceSettled, ReceiptSeen
<1>3. booking[b] \in Row
  BY RowFacts
<1>4. /\ r.type = booking[b].type /\ r.address = booking[b].address
      /\ r.start = booking[b].start /\ r.duration = booking[b].duration
      /\ r.screening = booking[b].screening /\ r.advanceReceived = advance
  BY <1>3 DEF Row
<1> HIDE DEF advance, r
<1>5. Scheduled(r) /\ (b \notin amended => RowReviewed(r))
  BY <1>1, <1>2, <1>4
     DEF ReviewedInv, RowReviewed, Complete, NextField, Occupying, Scheduled
<1> QED BY <1>1, <1>5, WriteReviewed

LEMMA SetStatusReviewed ==
  ASSUME TypeOK, EndDerived, ReviewedInv, NEW b \in Bookings,
         NEW status \in Terminal, SetStatus(b, status)
  PROVE  ReviewedInv'
<1> DEFINE r == [booking[b] EXCEPT !.status = status]
<1>1. booking' = [booking EXCEPT ![b] = r] /\ amended' = amended
  BY DEF SetStatus, Decided
<1>2. r.status \notin Occupying
  BY RowFacts DEF Row, Terminal, Occupying
<1> HIDE DEF r
<1> QED BY <1>1, <1>2, WriteReviewed

LEMMA RuntimeReviewed ==
  ASSUME TypeOK, EndDerived, ReviewedInv, NEW s \in Sessions, RuntimeNext(s)
  PROVE  ReviewedInv'
<1>1. session[s].active \in Bookings \union {None}
  BY ActiveTyped
<1>2. ASSUME NEW t \in Starts, NEW d \in Durations \union {None},
             CheckAvailability(s, t, d)
      PROVE  ReviewedInv'
  <2>1. amended' = amended
    BY <1>2 DEF CheckAvailability
  <2>2. ASSUME NEW b \in Bookings, booking' = [booking EXCEPT ![b] = Filled(@, t, d)]
        PROVE  ReviewedInv'
    <3> DEFINE q == Filled(booking[b], t, d)
    <3>1. booking[b] \in Row /\ q.status = booking[b].status
      BY RowFacts, FilledRow
    <3>2. Scheduled(booking[b]) => q = booking[b]
      BY DEF Scheduled, Filled
    <3>3. booking' = [booking EXCEPT ![b] = q]
      BY <2>2
    <3> HIDE DEF q
    <3>4. q.status \in Occupying =>
            Scheduled(q) /\ (b \notin amended' => RowReviewed(q))
      BY <2>1, <3>1, <3>2 DEF ReviewedInv
    <3> QED BY <2>1, <3>3, <3>4, WriteReviewed
  <2>3. ASSUME NEW b \in Bookings,
               booking' = [booking EXCEPT ![b] = Filled(NewDraft(s), t, d)]
        PROVE  ReviewedInv'
    <3>1. Filled(NewDraft(s), t, d).status \notin Occupying
      BY NewDraftRow, FilledRow DEF Occupying
    <3> QED BY <2>1, <2>3, <3>1, WriteReviewed
  <2> QED BY <1>1, <1>2, <2>2, <2>3 DEF CheckAvailability
<1>3. CASE \E f \in Fields : AgentUpdate(s, f)
  BY <1>3, ToolTargetTyped, UpdateFieldReviewed DEF AgentUpdate
<1>4. CASE AgentSubmit
  BY <1>4, ToolTargetTyped, SubmitReviewed DEF AgentSubmit
<1>5. CASE AwaitConfirmation(s)
  BY <1>5 DEF AwaitConfirmation, ReviewedInv
<1>6. CASE FallbackTurn(s)
  <2> DEFINE Before(b) == IF DraftsOf(s) = {b} THEN booking[b] ELSE NewDraft(s)
             After(b) == {Before(b)} \union
                           (IF NextField(Before(b)) = None THEN {}
                            ELSE Updates(Before(b), NextField(Before(b))))
  <2>1. PICK b \in Bookings : \E q \in After(b) : booking' = [booking EXCEPT ![b] = q]
    BY <1>6 DEF FallbackTurn
  <2>2. PICK r \in After(b) : booking' = [booking EXCEPT ![b] = r]
    BY <2>1
  <2>3. Before(b) \in Row /\ Before(b).status = "DRAFT"
    BY RowFacts, NewDraftRow DEF DraftsOf
  <2>4. NextField(Before(b)) \in Fields \union {None}
    BY DEF NextField, Fields
  <2>5. r.status = "DRAFT"
    <3> HIDE DEF Before
    <3> QED BY <2>3, <2>4, UpdatesRow
  <2>6. amended' = amended
    BY <1>6 DEF FallbackTurn
  <2> HIDE DEF After
  <2> QED BY <2>2, <2>5, <2>6, WriteReviewed DEF Occupying
<1> QED BY <1>2, <1>3, <1>4, <1>5, <1>6 DEF RuntimeNext

LEMMA ReviewedStep ==
  ASSUME TypeOK, EndDerived, ReviewedInv, [Next]_vars
  PROVE  ReviewedInv'
<1>1. ASSUME NEW b \in Bookings, StaffNext(b)
      PROVE  ReviewedInv'
  <2>1. CASE Confirm(b)
    BY <2>1, ConfirmReviewed
  <2>2. CASE Reject(b) \/ Cancel(b) \/ CompleteEarly(b)
    BY <2>2, SetStatusReviewed DEF Reject, Cancel, CompleteEarly, Terminal
  <2>3. CASE MarkIncallAddressSent(b)
    <3> DEFINE r == [booking[b] EXCEPT !.addressSent = TRUE]
    <3>1. booking' = [booking EXCEPT ![b] = r] /\ amended' = amended
      BY <2>3 DEF MarkIncallAddressSent
    <3>2. /\ RowReviewed(booking[b]) => RowReviewed(r)
          /\ Scheduled(booking[b]) => Scheduled(r)
      BY RowFacts DEF RowReviewed, Complete, NextField, Row, Scheduled
    <3>3. r.status = booking[b].status
      BY RowFacts DEF Row
    <3> HIDE DEF r
    <3> QED BY <3>1, <3>2, <3>3, WriteReviewed DEF ReviewedInv
  <2>4. CASE \E f \in Fields : AdminEdit(b, f)
    BY <2>4, UpdateFieldReviewed DEF AdminEdit
  <2> QED BY <1>1, <2>1, <2>2, <2>3, <2>4 DEF StaffNext
<1>2. CASE \E w \in Workers : FreeNow(w)
  BY <1>2, SetStatusReviewed DEF FreeNow, CompleteEarly, Terminal
<1>3. CASE booking' = booking /\ amended' = amended
  BY <1>3 DEF ReviewedInv
<1>4. ASSUME NEW s \in Sessions, ClearSession(s)
      PROVE  ReviewedInv'
  <2>1. \A b \in Bookings :
          \/ booking'[b].status \notin Occupying
          \/ booking'[b] = booking[b] /\ (b \notin amended' => b \notin amended)
    BY <1>4 DEF ClearSession, NoRow, Occupying
  <2> QED BY <2>1 DEF ReviewedInv
<1> QED BY <1>1, <1>2, <1>3, <1>4, RuntimeReviewed
        DEF Next, vars, AttachMedia, MarkReceipt, PauseAgent, ResumeAgent, Tick

LEMMA ReviewedInvariant == Spec => []ReviewedInv
<1>1. Init => ReviewedInv
  BY DEF Init, ReviewedInv, NoRow, Occupying
<1>2. TypeOK /\ EndDerived /\ ReviewedInv /\ [Next]_vars => ReviewedInv'
  BY ReviewedStep
<1> QED BY <1>1, <1>2, TypeCorrect, EndIsDerived, PTL DEF Spec

\* A confirmed booking nobody amended is one the whole review has passed: its
\* screening, and for an outcall its address and its advance.
THEOREM ReviewStands == Spec => []ConfirmedAsReviewed
<1>1. ReviewedInv => ConfirmedAsReviewed
  BY DEF ReviewedInv, ConfirmedAsReviewed, RowReviewed, Occupying
<1> QED BY <1>1, ReviewedInvariant, PTL

-----------------------------------------------------------------------------
(* The calendar *)

CalendarSlot == [b \in Bookings |-> SlotHeld(b)]

\* What the slot of a booking is made of.
LEMMA SlotFacts ==
  ASSUME TypeOK, EndDerived, NEW b \in Bookings
  PROVE  /\ SlotHeld(b) # None <=> HoldsSlot(b)
         /\ HoldsSlot(b) =>
              /\ SlotHeld(b) \in Calendar!Slots
              /\ SlotHeld(b).worker = WorkerOf[booking[b].session]
              /\ SlotHeld(b).start = booking[b].start
              /\ SlotHeld(b).end = booking[b].end
<1>1. CASE HoldsSlot(b)
  <2>1. /\ booking[b].session \in Sessions
        /\ booking[b].start \in Nat /\ booking[b].end \in Nat
    BY <1>1, RowFacts DEF HoldsSlot, Occupying, Row, EndFits
  <2>2. SlotHeld(b) = [worker |-> WorkerOf[booking[b].session],
                       start |-> booking[b].start, end |-> booking[b].end]
    BY <1>1 DEF SlotHeld
  <2> QED BY <1>1, <2>1, <2>2, ConstantsAssumption DEF Calendar!Slots
<1>2. CASE ~HoldsSlot(b)
  BY <1>2 DEF SlotHeld
<1> QED BY <1>1, <1>2

\* A step after which every booking has its slot or none only releases slots.
LEMMA OnlyReleases ==
  ASSUME \A b \in Bookings : SlotHeld(b)' = SlotHeld(b) \/ SlotHeld(b)' = None
  PROVE  Calendar!Next
<1> DEFINE S == {b \in Bookings : SlotHeld(b)' = None}
<1>1. CalendarSlot' = [b \in Bookings |-> IF b \in S THEN None ELSE CalendarSlot[b]]
  BY DEF CalendarSlot
<1>2. Calendar!Release(S)
  BY <1>1 DEF Calendar!Release, CalendarSlot
<1> QED BY <1>2 DEF Calendar!Next

\* A booking whose row and staleness a step leaves alone keeps its slot.
LEMMA SameRowSameSlot ==
  ASSUME NEW b \in Bookings, SameSlot(booking'[b], booking[b]),
         b \in stale => b \in stale'
  PROVE  SlotHeld(b)' = SlotHeld(b) \/ SlotHeld(b)' = None
BY DEF SameSlot, SlotHeld, HoldsSlot

\* The availability check is what SlotCalendar asks of a reservation: a row
\* that found no overlap is apart from every slot held.
LEMMA AvailableIsFar ==
  ASSUME TypeOK, EndDerived, NEW b \in Bookings, NEW c \in Bookings \ {b},
         NEW r \in Row, Available(b, r), r.session = booking[b].session,
         Scheduled(r), HoldsSlot(c),
         NEW x \in Calendar!Slots, x.worker = WorkerOf[r.session],
         x.start = r.start, x.end = r.start + r.duration
  PROVE  Calendar!FarFrom(SlotHeld(c), x)
<1>1. /\ SlotHeld(c).worker = WorkerOf[booking[c].session]
      /\ SlotHeld(c).start = booking[c].start /\ SlotHeld(c).end = booking[c].end
  BY SlotFacts
<1>2. /\ booking[c].start \in Nat /\ booking[c].end \in Nat
      /\ booking[c].start # None /\ booking[c].end # None
      /\ booking[c].status \in Occupying
  BY RowFacts DEF HoldsSlot, EndFits, Row
<1>3. r.start \in Nat /\ r.duration \in Nat /\ Buffer \in Nat
  BY ConstantsAssumption DEF Row, Scheduled
<1>4. ~Overlaps(booking[c], r)
  BY DEF Available
<1>5. WorkerOf[booking[c].session] = WorkerOf[r.session] =>
        booking[c].end + Buffer <= r.start
          \/ r.start + r.duration + Buffer <= booking[c].start
  BY <1>2, <1>3, <1>4 DEF Overlaps
<1> QED BY <1>1, <1>5 DEF Calendar!FarFrom

\* A checked booking that enters the calendar reserves its slot, keeps the one
\* it has, or stays out of it for want of an end.
LEMMA CheckedReserves ==
  ASSUME TypeOK, EndDerived, TypeOK', EndDerived', NEW b \in Bookings, NEW r \in Row,
         Available(b, r), r.session = booking[b].session, EndFits(r),
         Scheduled(r),
         SameSlot([booking'[b] EXCEPT !.status = r.status], r),
         SlotHeld(b) # None => SameSlot([r EXCEPT !.status = booking[b].status], booking[b]),
         \A c \in Bookings \ {b} : booking'[c] = booking[c],
         stale' = stale \ {b}
  PROVE  [Calendar!Next]_CalendarSlot
<1>1. \A c \in Bookings \ {b} : SlotHeld(c)' = SlotHeld(c)
  BY DEF SlotHeld, HoldsSlot
<1>2. /\ booking'[b].session = r.session /\ booking'[b].start = r.start
      /\ booking'[b].duration = r.duration /\ booking'[b].end = r.end
  BY DEF SameSlot, TypeOK, Row
<1>3. CASE SlotHeld(b) # None
  <2>1. HoldsSlot(b) /\ booking[b] \in Row
    BY <1>3, SlotFacts, RowFacts
  <2>2. /\ r.start = booking[b].start /\ r.end = booking[b].end
    BY <1>3 DEF SameSlot, Row
  <2>3. SlotHeld(b)' = SlotHeld(b) \/ SlotHeld(b)' = None
    BY <1>2, <2>1, <2>2 DEF SlotHeld
  <2> QED BY <1>1, <2>3, OnlyReleases
<1>4. CASE SlotHeld(b)' = None
  BY <1>1, <1>4, OnlyReleases
<1>5. CASE SlotHeld(b) = None /\ SlotHeld(b)' # None
  <2> DEFINE x == SlotHeld(b)'
  <2>1. /\ HoldsSlot(b)' /\ x \in Calendar!Slots
        /\ x.worker = WorkerOf[booking'[b].session]
        /\ x.start = booking'[b].start /\ x.end = booking'[b].end
    <3>1. HoldsSlot(b)'
      BY <1>5 DEF SlotHeld
    <3>2. x = [worker |-> WorkerOf[booking'[b].session],
               start |-> booking'[b].start, end |-> booking'[b].end]
      BY <3>1 DEF SlotHeld
    <3>3. /\ booking'[b].session \in Sessions
          /\ booking'[b].start \in Nat /\ booking'[b].end \in Nat
      BY <3>1 DEF HoldsSlot, Occupying, TypeOK, EndDerived, Exists, Row
    <3> QED BY <3>1, <3>2, <3>3, ConstantsAssumption DEF Calendar!Slots
  <2>2. x.worker = WorkerOf[r.session] /\ x.start = r.start /\ x.end = r.start + r.duration
    BY <1>2, <2>1 DEF HoldsSlot, EndFits
  <2> HIDE DEF x
  <2>3. \A c \in Bookings \ {b} : SlotHeld(c) # None => Calendar!FarFrom(SlotHeld(c), x)
    BY <2>1, <2>2, SlotFacts, AvailableIsFar
  <2>4. CalendarSlot' = [CalendarSlot EXCEPT ![b] = x]
    BY <1>1 DEF CalendarSlot, x
  <2>5. Calendar!Reserve(b)
    BY <1>5, <2>1, <2>3, <2>4 DEF Calendar!Reserve, CalendarSlot, x
  <2> QED BY <2>5 DEF Calendar!Next
<1> QED BY <1>3, <1>4, <1>5

LEMMA UpdateFieldSlots ==
  ASSUME TypeOK, EndDerived, NEW b \in Bookings, NEW f \in Fields, UpdateField(b, f)
  PROVE  [Calendar!Next]_CalendarSlot
<1>1. PICK r \in Updates(booking[b], f) : booking' = [booking EXCEPT ![b] = r]
  BY DEF UpdateField
<1>2. /\ booking[b] \in Row /\ r \in Row /\ r.status = booking[b].status
      /\ f \notin ScheduleFields => SameSlot(r, booking[b])
  BY RowFacts, UpdatesRow
<1>3. /\ booking'[b] = r /\ stale \subseteq stale'
      /\ \A c \in Bookings : c # b => booking'[c] = booking[c]
      /\ f \in ScheduleFields /\ booking[b].status \in Occupying => b \in stale'
  BY <1>1 DEF UpdateField, TypeOK
<1>4. SlotHeld(b)' = SlotHeld(b) \/ SlotHeld(b)' = None
  <2>1. CASE f \in ScheduleFields
    BY <1>2, <1>3, <2>1 DEF SlotHeld, HoldsSlot
  <2>2. CASE f \notin ScheduleFields
    BY <1>2, <1>3, <2>2, SameRowSameSlot
  <2> QED BY <2>1, <2>2
<1>5. \A c \in Bookings : c # b => SlotHeld(c)' = SlotHeld(c) \/ SlotHeld(c)' = None
  BY <1>3, SameRowSameSlot DEF SameSlot
<1> QED BY <1>4, <1>5, OnlyReleases

LEMMA SubmitSlots ==
  ASSUME TypeOK, EndDerived, TypeOK', EndDerived', NEW b \in Bookings, SubmitForReview(b)
  PROVE  [Calendar!Next]_CalendarSlot
<1> DEFINE r == WithAdvanceDefault(booking[b])
           q == [r EXCEPT !.status = "PENDING_REVIEW"]
<1>1. /\ r \in Row /\ SameSlot(r, booking[b]) /\ EndFits(r)
      /\ booking[b].status = "DRAFT" /\ Complete(r)
  BY RowFacts, AdvanceDefaultRow DEF SubmitForReview
<1>2. Scheduled(r)
  BY <1>1, CompleteScheduled
<1>3. ~HoldsSlot(b) /\ SlotHeld(b) = None
  BY <1>1 DEF HoldsSlot, SlotHeld, Occupying
<1>4. CASE booking' = [booking EXCEPT ![b] = r] /\ stale' = stale
  <2>1. \A c \in Bookings : SameSlot(booking'[c], booking[c])
    BY <1>1, <1>4 DEF TypeOK, SameSlot
  <2> QED BY <1>4, <2>1, SameRowSameSlot, OnlyReleases
<1>5. CASE /\ Available(b, r) /\ booking' = [booking EXCEPT ![b] = q]
           /\ stale' = stale \ {b}
  <2>1. SameSlot([q EXCEPT !.status = r.status], r)
    BY <1>1 DEF SameSlot, Row
  <2> HIDE DEF q, r
  <2>2. /\ booking'[b] = q
        /\ \A c \in Bookings \ {b} : booking'[c] = booking[c]
    BY <1>5 DEF TypeOK
  <2>3. r.session = booking[b].session
    BY <1>1 DEF SameSlot
  <2> QED BY <1>1, <1>2, <1>3, <1>5, <2>1, <2>2, <2>3, CheckedReserves
<1> QED BY <1>4, <1>5 DEF SubmitForReview

LEMMA ConfirmSlots ==
  ASSUME TypeOK, EndDerived, TypeOK', EndDerived', NEW b \in Bookings, Confirm(b)
  PROVE  [Calendar!Next]_CalendarSlot
<1> DEFINE r == booking[b]
           q == [booking[b] EXCEPT !.status = "CONFIRMED",
                                   !.advanceReceived = @ \/ ReceiptSeen(b)]
<1>1. /\ r \in Row /\ EndFits(r) /\ Scheduled(r)
      /\ Available(b, r) /\ stale' = stale \ {b}
      /\ booking' = [booking EXCEPT ![b] = q]
  BY RowFacts DEF Confirm, Decided, Scheduled
<1>2. SameSlot([q EXCEPT !.status = r.status], r)
  BY <1>1 DEF SameSlot, Row
<1>3. SameSlot([r EXCEPT !.status = booking[b].status], booking[b])
  BY <1>1 DEF SameSlot, Row
<1> HIDE DEF q
<1>4. /\ booking'[b] = q
      /\ \A c \in Bookings \ {b} : booking'[c] = booking[c]
  BY <1>1 DEF TypeOK
<1> QED BY <1>1, <1>2, <1>3, <1>4, CheckedReserves

LEMMA SetStatusSlots ==
  ASSUME TypeOK, EndDerived, NEW b \in Bookings, NEW status \in Terminal,
         SetStatus(b, status)
  PROVE  [Calendar!Next]_CalendarSlot
<1>1. booking' = [booking EXCEPT ![b] = [booking[b] EXCEPT !.status = status]]
      /\ stale' = stale
  BY DEF SetStatus, Decided
<1>2. SlotHeld(b)' = None
  <2>1. booking'[b].status = status
    BY <1>1, RowFacts DEF TypeOK, Row
  <2> QED BY <2>1 DEF SlotHeld, HoldsSlot, Occupying, Terminal
<1>3. \A c \in Bookings : c # b => SlotHeld(c)' = SlotHeld(c) \/ SlotHeld(c)' = None
  BY <1>1, SameRowSameSlot DEF SameSlot, TypeOK
<1> QED BY <1>2, <1>3, OnlyReleases

\* A step that writes one row which is not in the calendar afterwards, or is
\* exactly as it was.
LEMMA WriteOutside ==
  ASSUME TypeOK, NEW b \in Bookings, NEW r, booking' = [booking EXCEPT ![b] = r],
         r.status \notin Occupying \/ SameSlot(r, booking[b]), stale' = stale
  PROVE  [Calendar!Next]_CalendarSlot
<1>1. /\ booking'[b] = r
      /\ \A c \in Bookings : c # b => booking'[c] = booking[c]
  BY DEF TypeOK
<1>2. SlotHeld(b)' = SlotHeld(b) \/ SlotHeld(b)' = None
  <2>1. CASE r.status \notin Occupying
    BY <1>1, <2>1 DEF SlotHeld, HoldsSlot
  <2>2. CASE SameSlot(r, booking[b])
    BY <1>1, <2>2, SameRowSameSlot
  <2> QED BY <2>1, <2>2
<1>3. \A c \in Bookings : c # b => SlotHeld(c)' = SlotHeld(c) \/ SlotHeld(c)' = None
  BY <1>1, SameRowSameSlot DEF SameSlot
<1> QED BY <1>2, <1>3, OnlyReleases

LEMMA RuntimeSlots ==
  ASSUME TypeOK, EndDerived, ReviewedInv, TypeOK', EndDerived',
         NEW s \in Sessions, RuntimeNext(s)
  PROVE  [Calendar!Next]_CalendarSlot
<1>1. session[s].active \in Bookings \union {None}
  BY ActiveTyped
<1>2. ASSUME NEW t \in Starts, NEW d \in Durations \union {None},
             CheckAvailability(s, t, d)
      PROVE  [Calendar!Next]_CalendarSlot
  <2>1. stale' = stale
    BY <1>2 DEF CheckAvailability
  <2>2. ASSUME NEW b \in Bookings, booking' = [booking EXCEPT ![b] = Filled(@, t, d)]
        PROVE  [Calendar!Next]_CalendarSlot
    <3> DEFINE q == Filled(booking[b], t, d)
    <3>1. booking[b] \in Row /\ q.status = booking[b].status
      BY RowFacts, FilledRow
    <3>2. Scheduled(booking[b]) => q = booking[b]
      BY DEF Scheduled, Filled
    <3>3. booking' = [booking EXCEPT ![b] = q]
      BY <2>2
    <3> HIDE DEF q
    <3>4. q.status \notin Occupying \/ SameSlot(q, booking[b])
      BY <3>1, <3>2 DEF ReviewedInv, SameSlot
    <3> QED BY <2>1, <3>3, <3>4, WriteOutside
  <2>3. ASSUME NEW b \in Bookings,
               booking' = [booking EXCEPT ![b] = Filled(NewDraft(s), t, d)]
        PROVE  [Calendar!Next]_CalendarSlot
    <3>1. Filled(NewDraft(s), t, d).status \notin Occupying
      BY NewDraftRow, FilledRow DEF Occupying
    <3> QED BY <2>1, <2>3, <3>1, WriteOutside
  <2> QED BY <1>1, <1>2, <2>2, <2>3 DEF CheckAvailability
<1>3. CASE \E f \in Fields : AgentUpdate(s, f)
  BY <1>3, ToolTargetTyped, UpdateFieldSlots DEF AgentUpdate
<1>4. CASE AgentSubmit
  BY <1>4, ToolTargetTyped, SubmitSlots DEF AgentSubmit
<1>5. CASE AwaitConfirmation(s)
  <2>1. booking' = booking /\ stale' = stale
    BY <1>5 DEF AwaitConfirmation
  <2> QED BY <2>1, SameRowSameSlot, OnlyReleases DEF SameSlot
<1>6. CASE FallbackTurn(s)
  <2> DEFINE Before(b) == IF DraftsOf(s) = {b} THEN booking[b] ELSE NewDraft(s)
             After(b) == {Before(b)} \union
                           (IF NextField(Before(b)) = None THEN {}
                            ELSE Updates(Before(b), NextField(Before(b))))
  <2>1. PICK b \in Bookings : \E q \in After(b) : booking' = [booking EXCEPT ![b] = q]
    BY <1>6 DEF FallbackTurn
  <2>2. PICK r \in After(b) : booking' = [booking EXCEPT ![b] = r]
    BY <2>1
  <2>3. Before(b) \in Row /\ Before(b).status = "DRAFT"
    BY RowFacts, NewDraftRow DEF DraftsOf
  <2>4. NextField(Before(b)) \in Fields \union {None}
    BY DEF NextField, Fields
  <2>5. r.status = "DRAFT"
    <3> HIDE DEF Before
    <3> QED BY <2>3, <2>4, UpdatesRow
  <2>6. stale' = stale
    BY <1>6 DEF FallbackTurn
  <2> HIDE DEF After
  <2> QED BY <2>2, <2>5, <2>6, WriteOutside DEF Occupying
<1> QED BY <1>2, <1>3, <1>4, <1>5, <1>6 DEF RuntimeNext

LEMMA CalendarStep ==
  ASSUME TypeOK, EndDerived, ReviewedInv, TypeOK', EndDerived', [Next]_vars
  PROVE  [Calendar!Next]_CalendarSlot
<1>1. ASSUME NEW b \in Bookings, StaffNext(b)
      PROVE  [Calendar!Next]_CalendarSlot
  <2>1. CASE Confirm(b)
    BY <2>1, ConfirmSlots
  <2>2. CASE Reject(b) \/ Cancel(b) \/ CompleteEarly(b)
    BY <2>2, SetStatusSlots DEF Reject, Cancel, CompleteEarly, Terminal
  <2>3. CASE MarkIncallAddressSent(b)
    <3> DEFINE r == [booking[b] EXCEPT !.addressSent = TRUE]
    <3>1. booking' = [booking EXCEPT ![b] = r] /\ stale' = stale
      BY <2>3 DEF MarkIncallAddressSent
    <3>2. SameSlot(r, booking[b])
      BY RowFacts DEF SameSlot, Row
    <3> HIDE DEF r
    <3> QED BY <3>1, <3>2, WriteOutside
  <2>4. CASE \E f \in Fields : AdminEdit(b, f)
    BY <2>4, UpdateFieldSlots DEF AdminEdit
  <2> QED BY <1>1, <2>1, <2>2, <2>3, <2>4 DEF StaffNext
<1>2. CASE \E w \in Workers : FreeNow(w)
  BY <1>2, SetStatusSlots DEF FreeNow, CompleteEarly, Terminal
<1>3. CASE booking' = booking /\ stale' = stale
  BY <1>3, SameRowSameSlot, OnlyReleases DEF SameSlot
<1>4. ASSUME NEW s \in Sessions, ClearSession(s)
      PROVE  [Calendar!Next]_CalendarSlot
  <2>1. \A b \in Bookings :
          \/ booking'[b].status \notin Occupying
          \/ booking'[b] = booking[b] /\ (b \in stale => b \in stale')
    BY <1>4 DEF ClearSession, NoRow, Occupying
  <2>2. \A b \in Bookings : SlotHeld(b)' = SlotHeld(b) \/ SlotHeld(b)' = None
    BY <2>1, SameRowSameSlot DEF SlotHeld, HoldsSlot, SameSlot
  <2> QED BY <2>2, OnlyReleases
<1> QED BY <1>1, <1>2, <1>3, <1>4, RuntimeSlots
        DEF Next, vars, AttachMedia, MarkReceipt, PauseAgent, ResumeAgent, Tick

LEMMA CalendarInit == Init => Calendar!Init
BY DEF Init, Calendar!Init, SlotHeld, HoldsSlot, NoRow, Occupying

\* The booking tables implement the calendar: whatever the requests, slots are
\* granted away from those held, move only by being released first, and are
\* released only by the request that ends, edits or deletes their booking.
THEOREM ImplementsCalendar == Spec => KeepsCalendar
<1>1. TypeOK /\ EndDerived /\ ReviewedInv /\ TypeOK' /\ EndDerived' /\ [Next]_vars
        => [Calendar!Next]_CalendarSlot
  BY CalendarStep
<1>2. CalendarSlot = [b \in Bookings |-> SlotHeld(b)]
  BY DEF CalendarSlot
<1> QED BY <1>1, CalendarInit, TypeCorrect, EndIsDerived, ReviewedInvariant, PTL
        DEF Spec, KeepsCalendar, Calendar!Spec, CalendarSlot

\* The calendar's own invariant, by its steps.
LEMMA NoConflictStep ==
  ASSUME Calendar!NoConflict, [Calendar!Next]_CalendarSlot
  PROVE  Calendar!NoConflict'
<1> USE DEF CalendarSlot
<1>1. ASSUME NEW b \in Bookings, Calendar!Reserve(b)
      PROVE  Calendar!NoConflict'
  <2>1. \A c \in Bookings \ {b} : SlotHeld(c)' = SlotHeld(c)
    BY <1>1 DEF Calendar!Reserve
  <2>2. \A c \in Bookings \ {b} :
          SlotHeld(c) # None => Calendar!FarFrom(SlotHeld(c), SlotHeld(b)')
    BY <1>1 DEF Calendar!Reserve
  <2> QED BY <2>1, <2>2 DEF Calendar!NoConflict, Calendar!FarFrom
<1>2. CASE \E S \in SUBSET Bookings : Calendar!Release(S)
  BY <1>2 DEF Calendar!Release, Calendar!NoConflict, Calendar!FarFrom
<1>3. CASE UNCHANGED CalendarSlot
  BY <1>3 DEF Calendar!NoConflict, Calendar!FarFrom
<1> QED BY <1>1, <1>2, <1>3 DEF Calendar!Next

\* The checks at submission and at confirmation keep every two slots of one
\* worker a buffer apart, for every number of bookings and every buffer.
THEOREM SlotsStayApart == Spec => []SlotsApart
<1>1. Init => Calendar!NoConflict
  BY CalendarInit DEF Calendar!Init, Calendar!NoConflict
<1>2. TypeOK /\ EndDerived /\ ReviewedInv /\ TypeOK' /\ EndDerived' /\ [Next]_vars
        => (Calendar!NoConflict => Calendar!NoConflict')
  BY CalendarStep, NoConflictStep
<1>3. TypeOK /\ EndDerived /\ Calendar!NoConflict => SlotsApart
  BY SlotFacts DEF Calendar!NoConflict, Calendar!FarFrom, SlotsApart, SameWorker, Apart
<1> QED BY <1>1, <1>2, <1>3, TypeCorrect, EndIsDerived, ReviewedInvariant, PTL DEF Spec

=============================================================================
