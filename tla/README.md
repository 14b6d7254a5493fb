# A TLA+ model of the booking assistant

This directory holds a formal model of the backend in `src/backend/app`: an
assistant that chats with clients over SMS and WhatsApp, collects a booking,
has it reviewed by staff and keeps a worker's calendar. The modules are checked
with TLC on small instances; the main invariants are proved with TLAPS for
every value of the constants. `PROJECT.json` relates every definition to the
lines of code it models.

Contents: [the system](#1-the-system) · [the modules](#2-the-modules) ·
[runs and bounds](#3-runs-and-bounds) · [proofs](#4-proofs) ·
[where code and documents disagree](#5-where-code-and-documents-disagree) ·
[what is not modelled](#6-what-is-not-modelled) · [plan](#7-plan)

## 1. The system

A FastAPI process, a PostgreSQL database and a Next.js panel. Every HTTP request
(a Twilio webhook, a call of the panel, a trigger of the notification
dispatcher) runs in one database transaction that commits when the handler
returns and rolls back on any exception (`db/engine.py:27-36`). The isolation
is READ COMMITTED, nothing takes explicit row locks, and the ORM's UPDATE names
only the columns that changed. Requests of all kinds run concurrently.

| component | state | operations | talks to |
|---|---|---|---|
| **Booking service** `services/booking_service.py` | `bookings` rows | update a field, submit for review, set status (confirm, reject, cancel, complete), send the incall address, default the advance | availability check, media service, sessions, notifications, events |
| **Availability check** `services/availability_service.py`, `repositories/booking_repo.py` | none (reads `bookings`) | is a buffered window free, suggest alternatives | booking service, client runtime |
| **Client runtime** `services/client_runtime_service.py` | session state, active booking, drafts | one turn: the model's tools under guards, the client's YES, the deterministic turn when there is no model | tool runner, booking service |
| **Tool runner** `tools/tool_runner.py` | none of its own | runs a named tool | the services |
| **Conversation sessions** `models/conversation_session.py`, `repositories/session_repo.py` | `state`, `active_booking_id`, `last_inbound_at` of each client and worker | get or create, relink, reset, clear, pause, resume | everything |
| **Media and receipts** `services/media_service.py` | `booking_media` rows | attach, mark as receipt, look a receipt up | booking service |
| **Inbound pipeline** `services/conversation_orchestrator.py`, `repositories/idempotency_repo.py` | `inbound_idempotency` rows, messages | claim, load, compare order, answer, send, commit; a message typed by staff | runtime, Twilio gateway, notifications |
| **Twilio gateway** `services/twilio_gateway.py` | none | send a text, validate a signature | the provider |
| **Worker commands** `services/worker_service.py` | none of its own | "free now", status queries, relays | booking service |
| **Notifications and reminders** `services/notification_service.py` | `notifications` rows | create, dispatch what is due, mark sent or failed, back off, dead-letter, create reminders | gateway |
| **Admin event stream** `services/event_stream.py`, `routers/events.py` | a bounded history and subscriber queues in memory | publish, replay, subscribe | all services, the panel |
| **Authentication** `services/auth_service.py`, `frontend/src/lib/api.ts` | one refresh token id per user; the browser's tokens | login, refresh, logout | |
| **Section permissions** `services/permission_service.py` | a row per worker and section | toggle, check | |
| **API routers** `api/routers/` | none | bind requests to services; field edits, decisions, clearing, pause and resume | |

What is hard here, and hard to test:

- *Checks against a calendar that moves.* A booking is checked at submission and
  again at confirmation, each time against the calendar of the moment. Between
  a query and the commit it justifies nothing is locked.
- *Decisions on loaded copies.* A status is validated on the row a request
  loaded and written without a comparison; two requests merge column by column.
- *One session, many bookings.* Drafts are created, relinked, submitted,
  decided and deleted along a dozen paths, each of which adjusts the session's
  state and active booking by hand. The draft lookup raises if there are two.
- *Redelivery and overlap.* A webhook can be delivered again while its first
  delivery runs; the reply is sent before the commit; the order check reads the
  session before the session is locked.
- *Side effects outside the transaction.* Sent texts and published events are
  not undone by a rollback.

`PROJECT.json` lists these and the others as hazards, each at its line of code.
What makes each component correct:

- *Booking service and availability check*: bookings in one calendar stay a
  buffer apart; a status follows the table of transitions; a confirmed booking
  is what was reviewed; the stored end fits start and duration.
- *Client runtime, tools, sessions*: a session has one draft at most, an active
  booking that is its own and open, and waits for review only while there is
  something to review.
- *Media*: a receipt counts wherever it was linked, and never stands in the way.
- *Inbound pipeline, gateway*: one turn for each message, a second reply only
  after a lost turn, a message dropped only for a newer one, none left pending.
- *Notifications*: a client gets a notification once, it is given up only when
  the retries are spent, everything due ends as sent or given up, and every
  confirmed booking has its reminders once and not early.
- *Event stream*: a panel is sent every event once and in order, or missed it for
  a known reason, and a worker's panel comes to show its sections as they are
  stored.
- *Authentication*: the browser that logged in stays logged in until it logs out,
  and then nothing keeps it in.
- *Permissions*: a toggle is not lost.

## 2. The modules

| module | models | checked by | proved in |
|---|---|---|---|
| `SlotCalendar` | what the booking service promises: slots are granted a buffer apart, and released | refined by `BookingLifecycle` (slots held) and `BookingTransactions` (slots confirmed) | both proof modules |
| `ReplyLedger` | what the pipeline promises for a message: one turn, a second reply only after a failed one, a reply owed | refined by `InboundPipeline` | `InboundPipelineProofs` |
| `DeliveryLedger` | what the outbox promises for a notification: attempts one by one, each with its conclusion, given up with the budget spent | refined by `NotificationOutbox` | `NotificationOutboxProofs` |
| `BookingLifecycle` | booking service, availability check, client runtime, tools, media, sessions: every operation, one at a time | `BookingCalendar`, `BookingOutcall` | `BookingLifecycleProofs` |
| `BookingTransactions` | the same rows under concurrent READ COMMITTED requests; extends `BookingLifecycle` | `BookingRaces` | `BookingTransactionsProofs` |
| `InboundPipeline` | webhook deliveries, claims, order, replies, commits, aborts, messages of staff | `InboundMessages` | `InboundPipelineProofs` |
| `NotificationOutbox` | the notifications table under overlapping dispatch runs, reminders, retries, reports by hand | `NotificationOutbox` | `NotificationOutboxProofs` |
| `EventStream` | publication before the commit, bounded history, replay and subscription, reconnecting worker's panels, what they load again on an event and what not | `EventStream`, `WorkerBookings` | `EventStreamProofs` |
| `RefreshRotation` | the refresh token of a user between its row and the tabs of several browsers | `RefreshRotation` | `RefreshRotationProofs` |
| `MC*` | the values TLC gives the constants | | |

### BookingLifecycle

`booking`, `session`, `media` are the three tables and `now` the clock. A step
is one service call of one request, with every write it makes: `SubmitForReview`
includes the advance default and the session's state, `Confirm` the receipt
synchronisation and the session reset, `CheckAvailability` the draft that is
created, relinked or filled. Guards are the code's early returns. A call that
is refused and rolls back changes nothing and is no step; a submission that is
refused keeps the advance default it has already set, as the code does, because
the runtime answers the client and commits.

Two auxiliary variables record what the code does not: `stale` has the bookings
in the calendar whose start or duration was edited since a check last passed for
them, `amended` those of which another column was edited. The properties that
hold only for bookings nobody edited are stated with them; the code checks
nothing on such an edit (`routers/admin.py:316`, and a tool call that gives the
booking's id), so a reader sees exactly what the edit gives up.

Data is abstracted to what the branches tell apart. The four screening columns
are one column that is absent, passed or failed: they are asked for one after
the other and validated together, and nothing else reads them. An address is
present or not and an advance positive or not. The text of a message, the model's
choice of a tool and the values extracted from a text are inputs: any tool, any
value of a small set, in any order, which includes whatever a model may do. A
tool call acts on any booking (`ToolTarget`): an id that is no UUID stands for the
session's active booking or its draft, but a UUID is taken as it is given
(`client_runtime_service.py:772-793`).

### BookingTransactions

A request loads a booking and decides on the copy (`LoadSubmit`, `LoadConfirm`,
`LoadClose`, `LoadEdit`), queries the calendar as committed at that moment
(`Check`) and writes the columns that differ from its copy (`Commit`, with
`Merged`), or ends without a trace (`Rollback`). The session row is the one lock
that matters: a client's turn updates it first, so a decision on the same
session waits for the turn (`TurnHolds`). `raced` records the pairs of bookings
whose checks were in flight together, `contested` the bookings written from a
copy another commit had overtaken. The properties say that these two, and an
edit, are the *only* ways into an inconsistent calendar.

The guards, the row functions and the overlap query are `BookingLifecycle`'s own
definitions. The bookings start as complete incall drafts, one for each session:
collection is not where the requests meet.

### InboundPipeline

A slot of `turn` is a request in flight. A delivery goes `Deliver`, `Claim` (the
insert into `inbound_idempotency` waits for an open insert of the same key and
fails if that commits), `Load` or `Create` (the client row, with its own unique
key), `Switch` if the message comes on another channel than the session's last
one (`get_or_create` writes the channel and so takes the row's lock), the order
comparison (`Compared`, with the time loaded before any lock), `Enter` (the
session write, which waits for the row's lock if it has not got it), `Reply`
(text generated, gateway called; sent or failed) and `Commit`. `Abort` ends it
anywhere, with its claim, and without un-sending what was sent. A message typed
by staff is `SendMessage`, `Enter`, `Reply`, `Spoken`.

`sends`, `lost`, `commits` and `spoken` are auxiliary counts the properties
speak about; no guard reads them. With what the tables hold they are the
variables of `ReplyLedger`.

A request waits in three places: for the open insert of a claim of its message,
for the open insert of a client of the same number, and for the session's row.
`WaitsFor` says who waits for whom, and `Granted` is the guard of the three steps.

Nothing in the code compares the provider's clock with the server's. `Ahead` is how
far the first may run before the second: a message may carry a time later than
the one at which it is delivered.

Two facts of the code are worth knowing when reading it. The pipeline
takes a lock on the session only if the channel or the stamp it writes differs
from the one it loaded, because the ORM issues no UPDATE otherwise (`Writes`,
`switched`). And
`last_inbound_at` is stamped by `SessionRepository.get_or_create` itself, by
default with the present time, so messages that staff send move it as well;
decision messages and relays go around it. The notification service's
`send_client_message` has no caller and the tool of that name is a stub, so
neither is a step.

### NotificationOutbox

A slot of `job` is a transaction in flight. One kind schedules reminders:
`BeginConfirm` loads the booking, `WriteConfirm` takes its row lock and looks for
reminders, `CommitSchedule` stores both; `BeginRemind` is the administrator's
call for one booking, with the minutes of its body (`Minutes`; a confirmation uses
the setting, `Before`). The other kind takes up rows: `ListDue` reads what is due
in one query, `Send` hands a row to the gateway and flushes its new status,
`CommitRun` ends the run; `Report` and `MarkReported` are the outcome an
administrator posts for one row. Every outcome is computed from the copy that
was listed (`Marked`), the flush of a row locks it (`Blocked`), and `RolledBack`
undoes the statuses and not the sends. `Reschedule`, `Close` and `Clear` are
what other components do to a booking; none of them touches its reminders but
`Clear`, which deletes them.

Times are countdowns: `Tick` lowers the time left to each `send_at` and to each
start. Rows for admin and worker have no address the dispatcher knows; a run
marks them sent without asking anyone. They matter once: their update is not
preceded by a read, so a run that listed one that was deleted since fails as a
whole (`lost`).

`excused`, `moved` and `raced` are auxiliary. `excused` has the rows that two
transactions had listed at once, that a rolled back run had sent, or that an
administrator reported as failed; the counters `sends` and `tries` stop for
them. `Delivery` reads a row of `DeliveryLedger` off a row, its counters and
`excused`: a row whose attempts are one more than its retries is between an
attempt and the commit that concludes it. `moved` has the bookings rescheduled
after their reminders were timed, `raced` those two transactions scheduled at
once, and `lead` how long before the start each reminder was asked for.

### EventStream

`log` holds the events of the server's present life; a subject stands for the
row an event is about (one section of one worker user, a booking; a transaction
locks its row until it ends) and `stored` counts its committed changes. The
clients are workers' panels. `Change` writes and publishes inside a transaction, `Commit`
or `Rollback` ends it: between the two the event is out and the change is not
stored. A panel goes through `Connect` (the history after `Last-Event-ID`, taken
as a list), `Subscribe` (only when that list has been sent), `Receive` (the id
is remembered; an event about a section has the panel load its sections again, no
other event does anything, `Refetches`), `Answer` (the server reads what is committed)
and `Show` (answers arrive in any order). `Loaded` is what such a refetch loads:
the sections. Bookings are loaded by `Reload`, when the page is opened or the
worker acts. `Break` is a lost connection, with or
without the requests in flight; `Restart` the end of the process, after which ids
start from 1 again and the queues are gone.

`gap` records the events a client is excused from, each where the code gives it
up: published between the reading of the history and the subscription, dropped
from the history, or hidden by an id of an earlier life (`old`). `late` records
the subjects whose screen is excused: a refetch answered before the commit, two
answers that overtook each other, a refetch that failed, a restart.

### RefreshRotation

`jti` is `users.current_refresh_jti`, `store` what each browser's localStorage
holds, and tokens are numbered in the order of issue. The server's side of a
call is `Load` (the comparison of the token), `Flush` (the row lock, the new id,
the response), `Commit` or `Abort`. The client's side is `apiFetch` and
`AuthContext`: `Ask` is a page's request that was answered 401, `Refresh` and
`Refreshed` the refresh with whatever token is stored by then, `Proceed` the one
retry, `Reload` the bootstrap of a page, `Login`, `Logout` and `LogoutAgain` the
forms. `ThrowOut` clears the tokens of the browser, all its tabs included, and
shows the form. `Expire` makes the access token stale, `Lose` is a network error
under any request.

`owner` is the browser that logged in last, until it logs out; `reasons` what
has happened since that excuses the loss of its session: two calls about tokens
that overlapped, a fault, or the login itself until its tokens are stored.

## 3. Runs and bounds

| run | question | properties |
|---|---|---|
| `BookingCalendar` | do checks at different moments add up to one consistent calendar, and do sessions and bookings stay consistent along every path? | `TypeOK`, `EndDerived`, `SlotsApart`, `ActiveIsOpen`, `WaitingHasPending`, `OneDraft`, `KeepsCalendar` |
| `BookingOutcall` | is every confirmed outcall screened, addressed and paid for? | `ConfirmedAsReviewed` |
| `BookingRaces` | what can two requests do to the calendar, or to one row? | `TxTypeOK`, `EndFitsAlone`, `ConfirmedApart`, `KeepsConfirmed`, `ConflictsRaced`, `TransitionsFollowed` |
| `InboundMessages` | is every message answered once, in order, and in the end? | `TypeOK`, `KeepsLedger`, `IgnoredForReason`, `OrderKeptUnlessOverlapped`, `WaitsEnd`, `EventuallySettled` |
| `NotificationOutbox` | does a client get what was queued once, in time, and in the end? | `TypeOK`, `KeepsDeliveries`, `RemindedOnce`, `ConfirmedReminded`, `NotEarly`, `EventuallyOver` |
| `EventStream` | does a panel come to show what is stored? | `TypeOK`, `NothingLost`, `NoRepeat`, `ScreenRight`, `InOrder`, `EventuallyShown` |
| `RefreshRotation` | who is thrown out, and who stays in after a logout? | `TypeOK`, `SessionKept`, `ThrownOutForReason` |
| five more runs, which end in a violation | section 5 | one each |

**Bounds.** A conflict involves two bookings, so two bookings and one calendar
suffice for it. `BookingCalendar` gives them starts 1 and 3, durations 1 and 2 and
a buffer of 1: slots [1,2] and [3,4] are exactly a buffer apart, [1,3] and [3,4]
are adjacent without the buffer, and equal starts overlap, so every side of the
strict comparisons is met. Its clock stands still, because a check reads the
clock only to refuse a past start; `BookingOutcall`, `BookingTwoReceipts` and
`BookingBufferHole` have one that moves past the starts. Both bookings may be of
one session: one that is over or under review, and a draft beside it. The proofs
of section 4 hold for any number. `BookingOutcall` has one booking and two
receipts, since two are what the receipt lookup cannot handle, and edits in
every status. `BookingRaces` has two requests: each property is about a pair of
rows or of requests, and both may work on one row.

`InboundMessages` has three messages of one client, two with provider timestamps
and one without, two requests and one abort at any point. The timestamps are 0
and 2, the server's clock runs from 0 to 1 and the provider's is one step ahead
of it at most, so the later message comes from the server's future. This gives a
redelivery, an overtaking and a third message that arrives after both. Two
requests wait for each other in any of the three places; longer chains of waits
need more requests and are left to `WaitsAreFinite`.

`NotificationOutbox` has one booking, two rows and two transactions at a time: a
reminder and the retry of a reply, or two reminders inserted at once. The
reminder of a confirmation is due at the start (`Before` is 0), that of an
administrator's run one step earlier (`Minutes`), which is what tells the two
leads apart; the booking starts in one step, so a reminder has a wait. One retry is
in the budget, and one thing goes wrong or is done by hand (`MaxUpsets`). Starts
further off, where a reported failure makes a reminder due before its time, and
other minutes are left to `NotEarlyProof`.

`EventStream` has the panel of one worker with a section and a booking, and a
row of another worker, which it is not shown, a history of one event, two events
in a life of the server and two breaks: an event can fall out of the history, be
published during the replay, and be hidden by an id from before a restart.
Panels do not interact, so one will do.

`RefreshRotation` has two tabs of one browser and a second browser, each tab with
one call at a time (calls of one tab and calls of two tabs meet in the same
storage), and up to three tokens and faults, one of them a fault at most: a login,
a refresh by each of two tabs, or a login in either browser and what remains of the
first. The tabs of the first browser are symmetric.

`MaxTime`, `MaxAborts`, `MaxUpsets`, `MaxEvents`, `MaxBreaks`, `MaxFaults` and
`EditStatuses` are the bounds in guards; the code has none of them. So is `Room` of
`NotificationOutbox`: a transaction that will insert finds a free identifier.
Sessions, bookings, media and requests are symmetric where a cfg says so;
messages and rows of the outbox are not, and no run with a liveness property uses
symmetry.

**Deadlock** is not checked: nobody need ask for anything, a bounded clock stops,
and a system in which every booking is decided or every message settled has
nothing left to do. That requests do not wait on each other for ever is
`EventuallySettled` and `EventuallyOver`.

**Fairness** is assumed in three runs, and only of the program.

- `InboundMessages`: a request that has begun is run by the server to its end, and
  PostgreSQL grants a row lock in the order of the waiters, so a request cannot be
  overtaken at a lock for ever: strong fairness on `Work(q)`. The provider delivers a
  message again until a request for it is answered: strong fairness on `Deliver`,
  an assumption about Twilio and the network, not about the code. Time passes:
  weak fairness on `Tick`. Aborts and messages of staff are never forced.
- `NotificationOutbox`: strong fairness on `Work(q)` for the same reason, and weak on
  `Tick`. Someone keeps triggering dispatch runs: strong fairness on `ListDue`. The
  panel's button does that (`adminApi.ts:122-124`), or a scheduler outside the
  repository; no timer of the code does.
- `EventStream`: a transaction ends, weak fairness on `End(s)`; an open page goes on,
  weak fairness on `Panel(c)`: the client reconnects without limit
  (`realtime.ts:55-127`). Breaks, restarts and `Reload` are never forced.

`EventuallyOver` uses that the database hands the row of a deadlock's victim to
the other run (`Victim`). With more rows, two runs that list in different orders
may deadlock again and again, which this instance does not settle; `Victim` ends
cycles of two runs, and longer ones need more runs than it has.

**What the runs say.**

- `SlotsApart` and `KeepsCalendar`: bookings whose slot passed its check are a
  buffer apart, although submission and confirmation check different calendars,
  drafts for one slot pile up, and rows are cancelled and cleared in between.
  Exempt are a schedule edited after its check and a row without a stored end.
- `ConfirmedApart`: of two conflicting pending bookings at most one is confirmed,
  *even* when two requests confirm them at once, because each is already visible
  to the other's check. `KeepsConfirmed` adds that a confirmed slot stays where it
  is until it is released, edited or overwritten. `ConflictsRaced`: two pending bookings can conflict, and
  only by checks in flight together.
- `KeepsLedger`: a message changes the bookings once, and is answered or ignored
  for good. It can be replied to twice only when the first turn died after it
  had sent; if its reply was not sent, a retry is queued.
- `OrderKeptUnlessOverlapped`: the session's time goes back only if a turn
  commits that had loaded the session before another one wrote it, or by the
  difference of the clocks when a message with a provider's time is followed by one
  with the server's. Both do happen in the code; the property says that there is no
  third way.
- `WaitsEnd`, `EventuallySettled`: the claim, the client row and the session row are
  waited for in one order, so no wait is circular, and an aborted turn blocks
  nobody.
- `EndFitsAlone`, `TransitionsFollowed`: what a single request checks of a row holds
  after its commit, unless the row was written since it was loaded.
- `KeepsDeliveries`: a notification comes once, and is given up only after every
  attempt of its budget. One that went wrong did so for one of three reasons: two runs had it listed at once, the run that sent it
  rolled back, or someone reported it failed. None of the three is prevented by the code.
- `ConfirmedReminded`: every confirmed booking has its reminders, also when its
  confirmation crosses a clearing, because the confirmation takes the row's lock
  before it looks for them. It is also why the window query of the reminder
  run never finds a booking. `RemindedOnce` needs that no two look at once.
- `NotEarly`: a client is reminded no longer before the start than the setting
  says, or the minutes an administrator gave; only a booking moved after its
  reminders were timed, or a failure reported by hand, makes it earlier.
- `NothingLost`, `NoRepeat`, `InOrder`: Last-Event-ID never repeats or reorders
  events. It can skip some: those published during the replay, those that left
  the history, and after a restart those with a smaller id.
- `ScreenRight`, `EventuallyShown`: the sections of a panel are wrong for good only
  for a named reason, and one of these needs no fault at all: the event is heard before
  the change is committed, and the refetch reads the old state.
- `SessionKept`, `ThrownOutForReason`: one call about tokens at a time keeps the
  session. Two tabs that refresh at once, a lost answer or a lost commit
  can end it, and a logout that overlaps can leave it open.

Each property is sensitive to the code: `PROJECT.json` gives for each a plausible
mistake (half a buffer, a claim without its key, a decision that keeps the active
booking, a claim that outlives its transaction) that makes TLC refute it.

## 4. Proofs

TLAPS proves the following as theorems of the specifications, for any numbers of
bookings, sessions, media, messages, requests, rows, panels, tabs and browsers,
any buffer, budget and history, and any bounds. Each module has one inductive
invariant; its parts are named for what they are about.

`BookingLifecycleProofs`, from `ConstantsAssumption` (types of the constants;
NULL is no value; durations are positive):

| theorem | property | argument |
|---|---|---|
| `TypeCorrect` | `TypeOK` | inductive together with `EndDerived`; lemmas on what each row function returns |
| `EndIsDerived` | `EndDerived` | the same induction: whichever of start and duration is written last, by whatever path |
| `ActiveStaysOpen`, `WaitingIsForReview`, `DraftIsUnique` | `ActiveIsOpen`, `WaitingHasPending`, `OneDraft` | their conjunction `SessionsInv` is inductive. None is on its own: a new draft is unique because an active booking is found first, and a session in review has its booking pending because a decision resets exactly the owner's session |
| `ReviewStands` | `ConfirmedAsReviewed` | `ReviewedInv`: every booking in the calendar is scheduled, and unless amended its row has passed review; the confirmation adds the advance |
| `ImplementsCalendar` | `KeepsCalendar` | refinement: the mapping reads the held slots off the tables, every action reserves one slot that is far from all others, releases a set, or stutters. The overlap query's strict bounds and the buffer on one side only give `FarFrom` in both directions |
| `SlotsStayApart` | `SlotsApart` | `NoConflict` is inductive in `SlotCalendar`, and the refinement carries it to the tables |

`InboundPipelineProofs`, from `PipelineAssumption` and `RecordsAssumption`
(a record is not NULL):

| theorem | property | argument |
|---|---|---|
| `TypeCorrect` | `TypeOK` | `TypesInv` adds what a request knows at each step: its message, its stamp, the gateway's answer |
| `ImplementsLedger` | `KeepsLedger` | refinement: `Reply` is the ledger's reply or nothing, `Commit` its answer or refusal, `Abort` its failure when the turn had sent, all others leave the ledger alone. `ClaimsInv` (a claim held in a transaction excludes a committed one and a second one) and `RepliesInv` (a reply stands while and only while the one turn that sent it lives) give the ledger's guards |
| `LedgerIsBalanced` | `Ledger!Balanced`, in no run | the account of a message, kept by every step of the ledger, carried to the pipeline by the refinement |
| `IgnoredWithReason` | `IgnoredForReason` | `OrderInv`: every value of `last_inbound_at`, stored or loaded by a request, is the stamp of an answered message or of one typed by staff, and stays so however requests overlap |
| `OrderKept` | `OrderKeptUnlessOverlapped` | `ForwardInv`: no stored time is later than `Ahead` from now, and a request past the comparison has a stamp no earlier than the time it loaded, or the server's and earlier by `Ahead` at most |
| `WaitsAreFinite` | `WaitsEnd` | each wait is for a request further on (`WaitsForLater`): for one with a claim, for one past the comparison (`HoldsInv`: who has inserted the client, or written the channel, is there), for one that has written the session, and that one waits for nothing |

`BookingTransactionsProofs`, from `ConstantsAssumption`:

| theorem | property | argument |
|---|---|---|
| `TxTypeCorrect` | `TxTypeOK` | `TypeInv`; a row merged from three rows is a row |
| `EndFitsAloneProof` | `EndFitsAlone` | `LoadInv`: until another commit overtakes it, the copy a transaction loaded is the stored row, so what it writes is what it made of the copy (`CommitsNew`) |
| `TransitionsFollowedProof` | `TransitionsFollowed` | `LoadInv` again: the new status was allowed for the copy |
| `ConflictsRacedProof` | `ConflictsRaced` | `CheckedInv`: what a check has found apart stays apart of every booking of the calendar until the commit, except of those that were checked at the same time, and a pair of these is in `raced` |
| `ConfirmedApartProof` | `ConfirmedApart` | `RivalsInv`: of two confirmations in flight the one that checks later sees the other booking under review; `ConfirmingInv` carries that over the other's commit |
| `ImplementsConfirmed` | `KeepsConfirmed` | refinement: the commit of a confirmation is a reservation (`CommitReserves`; its copy was under review, so it held no slot, and `ConfirmedApart` keeps the new slot far from the others); every other commit releases a slot or changes none |

`NotificationOutboxProofs`, from `OutboxAssumption`, `NoneAssumption` (a copy of a
row or an outcome is not NULL) and `BackoffAssumption` (the backoffs are
numbers, for which the provers have no rule: they know no powers):

| theorem | property | argument |
|---|---|---|
| `TypeCorrect` | `TypeOK` | `TypeInv`: what each kind of transaction has in hand |
| `ImplementsDeliveries` | `KeepsDeliveries` | refinement, row by row (`LedgerMove`), from `DeliveryInv`: a row that is not excused is listed by one transaction at most, whose copy has the stored status and retry count; attempts and retries differ only while that transaction has its outcome in hand. `LedgerSend` is the attempt, `LedgerCommit` the conclusion or the report, `LedgerQueue` the posting |
| `DeliveriesAreAccounted` | `Deliveries!Accounted`, in no run | inductive in the ledger (`AccountStep`), carried to the rows by the refinement |
| `OneDeliveryProof` | `OneDelivery`, in no run | from `DeliveryInv`; it speaks of deleted rows as well, which the ledger has no account of |
| `RemindedOnceProof`, `ConfirmedRemindedProof` | `RemindedOnce`, `ConfirmedReminded` | `RemindInv`: a confirmation that holds its booking has the reminders stored or in hand, and none can be deleted before it commits |
| `NotEarlyProof` | `NotEarly` | `TimeInv`: the countdowns of a reminder and of its booking, stored and in hand, differ by at most the reminder's `lead` unless the booking was moved |

`EventStreamProofs`, from `StreamAssumption`:

| theorem | property | argument |
|---|---|---|
| `TypeCorrect` | `TypeOK` | part of `StreamInv` |
| `NothingLostProof`, `NoRepeatProof`, `InOrderProof` | `NothingLost`, `NoRepeat`, `InOrder` | `StreamInv`: in the present life `last` is the latest id heard, all that is pending is later, and everything up to it was heard or is in `gap` |
| `ScreenRightProof` | `ScreenRight` | `ShownInv`: for each section that is not excused, the screen, an answer on its way, or a refetch that will be answered accounts for the committed changes |

`RefreshRotationProofs`, from `RotationAssumption`:

| theorem | property | argument |
|---|---|---|
| `TypeCorrect` | `TypeOK` | with `FormInv`, which says what a call can be waiting for at each of its steps |
| `SessionKeptProof`, `ThrownOutProof` | `SessionKept`, `ThrownOutForReason` | `SafeInv`: while there is no reason, at most one call is about tokens, and whether it runs, has flushed, has been answered or is over, the browser of `owner` holds or is about to be given the token of the row (`RunInv`, `LoginInv`, `OwnerInv`; after a logout `EndedInv`) |

The four refinements are safety refinements: the abstract specifications have no
fairness. Each mapping is a definition of the detailed module, and the theorem
says that its initial states and steps are those of the abstract specification.

**Only model-checked**: the three liveness properties `EventuallySettled`,
`EventuallyOver` and `EventuallyShown`, which are outside what the prover handles.
The safety half of the first, that requests cannot block each other for good, is
`WaitsAreFinite`.

## 5. Where code and documents disagree

Five runs check a sentence of the repository's documents or comments and end in
a trace that refutes it; `PROJECT.json` quotes the sentences.

| run | the sentence | what happens |
|---|---|---|
| `BookingDoubleBooking` | conflicts are checked transactionally | two submissions check, then both commit: two pending bookings of one slot |
| `BookingOverturned` | the transition is validated | a rejection committed between another request's load and write is overwritten |
| `BookingBufferHole` | the buffer holds around all pending and confirmed bookings | a start filled after the duration leaves the end NULL, and the conflict query skips the row |
| `BookingTwoReceipts` | a receipt never leaves an admin blocked | two receipts make the lookup raise; the confirmation fails |
| `WorkerBookings` | the streams keep booking, notification and permissions in sync, live | a worker's panel hears of a booking's new status and goes on showing the old one |

An admin's unchecked edit of start or duration refutes the buffer sentence as
well; `BookingBufferHole` allows edits of drafts only, so that its trace shows
the other cause.

A client's message can be dropped as out of order because staff wrote to the
client between its sending and its delivery. No document says that only messages
older than another *inbound* one are dropped, so this is part of
`IgnoredForReason` and not a run of its own.

Read, not checked by a run: `docs/STATE_MACHINE.md` says that resuming goes from
`PAUSED` to the previous state and that `IDLE` means no active collection (lines
62 and 11). The resume switch sends every paused session to `IDLE`, also one
with an active draft (`routers/admin.py:512`); `ResumeAgent` does so.

## 6. What is not modelled

- **The first toggle of a section**: two of them insert one row each and one fails
  with a duplicate key (`worker_permission_repo.py:42`); it is pressed again. Apart
  from that a section is the example of a subject of `EventStream`.
- **Notifications for admin and worker**: their rows reach nobody and are in
  `NotificationOutbox` only as what can fail a run. Decision messages and relays
  are sent without a row and are in no module.
- **Reminders of a cancelled booking**: sent like any other, since nothing withdraws
  them. No document says otherwise, so no run says that they are not.
- **Refresh tokens**: their expiry after days, the seed script that resets the
  stored id, and several users in one browser.
- **The session columns a turn has loaded**: a turn writes state and active
  booking from a copy. `BookingTransactions` has the lock, not the copy.
- **Deletions and outcalls under concurrency**: in `BookingLifecycle` only.
- **Database deadlocks**: the abort of a victim is `Rollback`; the cycle of row
  locks is not represented.
- **Text**: prompts, the model's output, extraction of values, wording.
  Whatever they produce is an input of the modelled guards.
- **Pure reads and I/O**: listings, metrics, the audit trail, media download,
  signature validation, the worker's chat, the pages of the panel. The admin's pages
  hear every event and refetch by filters of their own
  (`useAdminRealtimeRefresh.ts:12-22`); `EventStream` has workers' panels only.
- **Migrations and seeds**: one-off scripts.

## 7. Plan

Done, in this order:

1. `BookingLifecycle` with `SlotCalendar`, and their proofs.
2. `BookingTransactions`, `InboundPipeline` and the proofs of the latter; the
   findings of section 5.
3. `NotificationOutbox`, `EventStream` and `RefreshRotation`, each with its proofs.
4. The proofs of `BookingTransactions`.
5. The ledgers `ReplyLedger` and `DeliveryLedger` with the proofs that pipeline and
   outbox implement them; `SlotCalendar` for the confirmed bookings of concurrent
   requests; the order of messages and the absence of circular waits.

Left:

1. Session copies: the session columns a turn has loaded, added to
   `BookingTransactions`, against decisions and clearings committed meanwhile.
   What is at stake is the booking a turn takes for the active one.
2. Abstract specifications of the event stream (a feed with named gaps) and of the
   token rotation (a session and its end), to be refined like the others.
3. The database's deadlocks between a decision and a turn (booking, then
   session, against session, then booking): the cycle itself, not its victim.
4. The first toggle of a section.

## Running it

    tlc -workers 2 -config BookingCalendar.cfg    MCBookingLifecycle.tla
    tlc -workers 2 -config BookingOutcall.cfg     MCBookingLifecycle.tla
    tlc -workers 2 -config BookingRaces.cfg       MCBookingTransactions.tla
    tlc -workers 2 -config InboundMessages.cfg    MCInboundPipeline.tla
    tlc -workers 2 -config NotificationOutbox.cfg MCNotificationOutbox.tla
    tlc -workers 2 -config EventStream.cfg        MCEventStream.tla
    tlc -workers 2 -config RefreshRotation.cfg    MCRefreshRotation.tla
    tlapm BookingLifecycleProofs.tla

and `tlapm` likewise for the other five modules named `*Proofs`.
