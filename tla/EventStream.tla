----------------------------- MODULE EventStream -----------------------------
(***************************************************************************)
(* The event stream between the transactions that change what a worker's   *)
(* panel shows and the panel: AdminEventStream in the server's memory, the *)
(* worker's endpoint of routers/events.py, the reconnecting client of      *)
(* lib/realtime.ts, the sections an event makes the panel load again       *)
(* (AuthContext.tsx), and its bookings, which no event does (worker/       *)
(* page.tsx).                                                              *)
(*                                                                         *)
(* An event is published inside the transaction, so it can be heard before *)
(* the change is stored, and though the transaction is rolled back.        *)
(*                                                                         *)
(* Abstractions of data.  A subject is a row that events are about:        *)
(* whether one section is shown to one worker user                         *)
(* (worker.permissions.updated), or a booking (booking.status_changed);    *)
(* every other event counts as one about a row that panels do not load.    *)
(* A row's state is the number of changes made to it.  The ids of a        *)
(* server's life count from 1, so log[i] is the subject of the event i,    *)
(* and what is ordered by id is kept as a set of ids.                      *)
(***************************************************************************)
EXTENDS Integers, Sequences, FiniteSets

CONSTANTS
  Clients,      \* workers' panels: pages with a stream each
  Subjects,
  Sections,     \* the subjects that are sections of a worker user
  Follows,      \* the subjects whose events a client is shown
  HistorySize,  \* history_size: events kept for clients that reconnect
  MaxEvents,    \* bound on the events published in a life of the server
  MaxBreaks,    \* bound on restarts and lost connections
  None

ASSUME StreamAssumption ==
  /\ Sections \subseteq Subjects
  /\ Follows \in [Clients -> SUBSET Subjects]
  /\ HistorySize \in Nat /\ MaxEvents \in Nat /\ MaxBreaks \in Nat
  /\ None \notin Int

VARIABLES
  stored,    \* changes of each subject that are committed
  open,      \* subjects changed by a transaction that has published and not ended
  log,       \* the subjects of the events of this life of the server
  phase,     \* of each client's stream
  pending,   \* events on their way: left to replay, or in the subscriber's queue
  last,      \* lastEventId of each client
  screen,    \* what each client shows of each subject
  asked,     \* refetches of each client that the server has not answered
  answers,   \* answers on their way to each client, in any order
  breaks,    \* restarts and lost connections so far
  heard,     \* auxiliary: events of this life each client has been sent
  gap,       \* auxiliary: events of this life excused until the client hears them
  old,       \* auxiliary: clients whose lastEventId is from an earlier life
  late       \* auxiliary: subjects excused until each client's screen is right

server == <<stored, open, log>>
stream == <<phase, pending, last>>
page == <<screen, asked, answers>>
aux == <<heard, gap, old, late>>
vars == <<server, stream, page, breaks, aux>>

Ids == 1..Len(log)
View == [Subjects -> Nat]

\* What a panel asks for when an event says that it changed: its sections.
Loaded(c) == Follows[c] \intersect Sections

\* Events a client should be shown.
Meant(c) == {i \in Ids : log[i] \in Follows[c]}

\* Lists and queues are in the order of publication.
Oldest_Newest(S, i) == \A j \in S : j <= i
Oldest(S, i) == \A j \in S : i <= j

\* The deque keeps the latest events.
Kept == {i \in Ids : i > Len(log) - HistorySize}

HistorySince_Inclusive(id) == {i \in Kept : id = None \/ i >= id}
HistorySince_Skipping(id) == {i \in Kept : id = None \/ i > id + 1}
HistorySince(id) == {i \in Kept : id = None \/ i > id}

\* is_worker_event_visible.
Visible_Any(c, s) == TRUE
Visible(c, s) == s \in Follows[c]

-----------------------------------------------------------------------------
(* Changes *)

\* A client that is replaying has its list already and is not subscribed yet.
Subscribed_Bounded(c) == phase[c] = "live" /\ pending[c] = {}
Subscribed(c) == phase[c] = "live"

\* set_worker_permissions and the other publishers: the row is written and
\* stays locked until the transaction ends, so that no other transaction has
\* written it too; the event is published and the transaction is still open.
Change(s) ==
  LET i == Len(log) + 1
      shown == {c \in Clients : Visible(c, s)}
  IN /\ s \notin open /\ Len(log) < MaxEvents
     /\ open' = open \union {s}
     /\ log' = Append(log, s)
     /\ pending' = [c \in Clients |->
          IF c \in shown /\ Subscribed(c) THEN pending[c] \union {i} ELSE pending[c]]
     /\ gap' = [c \in Clients |->
          IF s \in Follows[c] /\ phase[c] = "replay" THEN gap[c] \union {i} ELSE gap[c]]
     /\ UNCHANGED <<stored, phase, last, page, breaks, heard, old, late>>

\* get_db commits once the response has been sent.
Commit(s) ==
  /\ s \in open
  /\ open' = open \ {s}
  /\ stored' = [stored EXCEPT ![s] = @ + 1]
  /\ UNCHANGED <<log, stream, page, breaks, aux>>

\* The commit fails, or something after the publication raises; what was
\* published is not taken back.
Rollback(s) ==
  /\ s \in open
  /\ open' = open \ {s}
  /\ UNCHANGED <<stored, log, stream, page, breaks, aux>>

-----------------------------------------------------------------------------
(* Streams *)

\* The generator takes the history after Last-Event-ID as one list.  Events no
\* longer kept, or hidden by an id of an earlier life, are excused.
Connect(c) ==
  LET since == HistorySince(last[c])
      hidden == {i \in Meant(c) \ heard[c] :
                  i \notin Kept \/ (c \in old /\ i <= last[c])}
      replay == {i \in since : Visible(c, log[i])}
  IN /\ phase[c] = "off"
     /\ phase' = [phase EXCEPT ![c] = "replay"]
     /\ pending' = [pending EXCEPT ![c] = replay]
     /\ gap' = [gap EXCEPT ![c] = @ \union hidden]
     /\ UNCHANGED <<server, last, page, breaks, heard, old, late>>

\* Only when the list has been sent does the endpoint subscribe.
Subscribe(c) ==
  /\ phase[c] = "replay" /\ pending[c] = {}
  /\ phase' = [phase EXCEPT ![c] = "live"]
  /\ UNCHANGED <<server, pending, last, page, breaks, aux>>

\* onEvent: refreshSections, on worker.permissions.updated only.
Refetches_Never(c, s) == asked[c]
Refetches(c, s) == IF s \in Sections THEN asked[c] + 1 ELSE asked[c]

\* parseAndEmit: the id is remembered and the event handed to the panel.
Receive(c, i) ==
  /\ i \in pending[c] /\ Oldest(pending[c], i)
  /\ pending' = [pending EXCEPT ![c] = @ \ {i}]
  /\ last' = [last EXCEPT ![c] = i]
  /\ asked' = [asked EXCEPT ![c] = Refetches(c, log[i])]
  /\ heard' = [heard EXCEPT ![c] = @ \union {i}]
  /\ gap' = [gap EXCEPT ![c] = @ \ {i}]
  /\ old' = old \ {c}
  /\ UNCHANGED <<server, phase, screen, answers, breaks, late>>

\* Refetches that fail leave the screen as it is.
Unanswered(c) == IF asked[c] > 0 THEN Loaded(c) ELSE {}

\* The stream ends or breaks, or with it the client's network (all); the client
\* reconnects after a while, also when it has to refresh its token first.  The
\* server notices later that the subscriber is gone, which changes nothing.
Break(c, all) ==
  /\ phase[c] # "off" /\ breaks < MaxBreaks
  /\ breaks' = breaks + 1
  /\ phase' = [phase EXCEPT ![c] = "off"]
  /\ pending' = [pending EXCEPT ![c] = {}]
  /\ asked' = IF all THEN [asked EXCEPT ![c] = 0] ELSE asked
  /\ late' = IF all THEN [late EXCEPT ![c] = @ \union Unanswered(c)] ELSE late
  /\ UNCHANGED <<server, last, screen, answers, heard, gap, old>>

Queues_Survive == pending
Queues == [c \in Clients |-> {}]

\* Stream, history and open transactions live in the process.
Restart ==
  /\ breaks < MaxBreaks
  /\ breaks' = breaks + 1
  /\ log' = <<>> /\ open' = {}
  /\ phase' = [c \in Clients |-> "off"]
  /\ pending' = Queues
  /\ asked' = [c \in Clients |-> 0]
  /\ heard' = [c \in Clients |-> {}]
  /\ gap' = [c \in Clients |-> {}]
  /\ old' = {c \in Clients : last[c] # None}
  /\ late' = [c \in Clients |->
       late[c] \union Unanswered(c)
         \union ({log[i] : i \in Meant(c) \ heard[c]} \intersect Sections)]
  /\ UNCHANGED <<stored, last, screen, answers>>

-----------------------------------------------------------------------------
(* Loading *)

Seen(c) == [s \in Subjects |-> IF s \in Loaded(c) THEN stored[s] ELSE 0]

\* A request reads what is committed; a change that is published and still
\* open is not seen, and nothing will announce it again.
Answer(c) ==
  /\ asked[c] > 0
  /\ asked' = [asked EXCEPT ![c] = @ - 1]
  /\ answers' = [answers EXCEPT ![c] = @ \union {Seen(c)}]
  /\ late' = [late EXCEPT ![c] = @ \union (open \intersect Loaded(c))]
  /\ UNCHANGED <<server, stream, screen, breaks, heard, gap, old>>

\* setState with the answer that arrives, which may be older than the one shown.
Show(c, view) ==
  LET overtaken == {s \in Loaded(c) : view[s] < screen[c][s]}
      right == {s \in Loaded(c) \ open : view[s] = stored[s]}
  IN
  /\ view \in answers[c]
  /\ answers' = [answers EXCEPT ![c] = @ \ {view}]
  /\ screen' = [screen EXCEPT ![c] =
       [s \in Subjects |-> IF s \in Loaded(c) THEN view[s] ELSE screen[c][s]]]
  /\ late' = [late EXCEPT ![c] = (@ \union overtaken) \ right]
  /\ UNCHANGED <<server, stream, asked, breaks, heard, gap, old>>

\* loadBookings: when the page is opened or comes to show the bookings, after an
\* action of the worker's own and on the button, never because a booking's
\* status changed.  Taken as one step: no property is about bookings asked for
\* and not yet shown.
Reload(c) ==
  /\ Follows[c] # Loaded(c)
  /\ screen' = [screen EXCEPT ![c] =
       [s \in Subjects |-> IF s \in Follows[c] \ Loaded(c) THEN stored[s]
                                                         ELSE screen[c][s]]]
  /\ UNCHANGED <<server, stream, asked, answers, breaks, aux>>

-----------------------------------------------------------------------------
\* The pages are loaded, then the streams are opened.
Init ==
  /\ stored = [s \in Subjects |-> 0] /\ open = {} /\ log = <<>>
  /\ phase = [c \in Clients |-> "off"]
  /\ pending = [c \in Clients |-> {}]
  /\ last = [c \in Clients |-> None]
  /\ screen = [c \in Clients |-> stored]
  /\ asked = [c \in Clients |-> 0]
  /\ answers = [c \in Clients |-> {}]
  /\ breaks = 0
  /\ heard = [c \in Clients |-> {}] /\ gap = [c \in Clients |-> {}]
  /\ old = {} /\ late = [c \in Clients |-> {}]

End(s) == Commit(s) \/ Rollback(s)

Panel(c) ==
  \/ Connect(c)
  \/ Subscribe(c)
  \/ \E i \in pending[c] : Receive(c, i)
  \/ Answer(c)
  \/ \E view \in answers[c] : Show(c, view)

Next ==
  \/ \E s \in Subjects : Change(s) \/ End(s)
  \/ \E c \in Clients : Panel(c) \/ Reload(c) \/ \E all \in BOOLEAN : Break(c, all)
  \/ Restart

\* Transactions end, and a page that is open goes on: it reconnects without
\* limit, its requests are answered and the answers arrive.  Nothing makes the
\* worker load the bookings again.
Fairness ==
  /\ \A s \in Subjects : WF_vars(End(s))
  /\ \A c \in Clients : WF_vars(Panel(c))

Spec == Init /\ [][Next]_vars
FairSpec == Spec /\ Fairness

-----------------------------------------------------------------------------
(* Properties *)

\* Every variable keeps its type, and what is on its way was published.
TypeOK ==
  /\ stored \in View /\ open \subseteq Subjects /\ log \in Seq(Subjects)
  /\ phase \in [Clients -> {"off", "replay", "live"}]
  /\ pending \in [Clients -> SUBSET Ids]
  /\ last \in [Clients -> Nat \union {None}]
  /\ screen \in [Clients -> View]
  /\ asked \in [Clients -> Nat] /\ answers \in [Clients -> SUBSET View]
  /\ breaks \in Nat
  /\ heard \in [Clients -> SUBSET Ids] /\ gap \in [Clients -> SUBSET Ids]
  /\ old \subseteq Clients /\ late \in [Clients -> SUBSET Subjects]

\* While its stream is open, whatever a client has not been sent is on its way,
\* through all reconnections, unless it was published while the client was
\* being sent the history, had left the history, or has an id that
\* Last-Event-ID of an earlier life of the server hides.
NothingLost ==
  \A c \in Clients : phase[c] # "off" =>
    Meant(c) \subseteq heard[c] \union pending[c] \union gap[c]

\* Reconnecting never repeats an event, and a client is sent only what it may
\* see ("worker-targeted chat/operation events and worker-owned booking status
\* updates", IMPLEMENTAION_PLAN.md:16).
NoRepeat ==
  \A c \in Clients : pending[c] \subseteq Meant(c) \ heard[c]

\* Events of one life of the server are heard in the order of publication, also
\* across reconnections.
InOrder ==
  [][\A c \in Clients :
       heard'[c] # heard[c] /\ c \notin old /\ last[c] # None /\ log' = log
       => last'[c] > last[c]]_vars

Settled(c) ==
  phase[c] = "live" /\ pending[c] = {} /\ asked[c] = 0 /\ answers[c] = {}
Excused(c, s) == s \in late[c] \/ \E i \in gap[c] : log[i] = s

\* A panel that has nothing on its way shows its sections as they are stored
\* ("Permission changes propagate immediately", IMPLEMENTAION_PLAN.md:166),
\* unless a request was answered before the change it was for was committed,
\* answers overtook each other, a request failed, or an event was lost in one
\* of the ways above.
ScreenRight ==
  \A c \in Clients : Settled(c) =>
    \A s \in Loaded(c) :
      screen[c][s] = stored[s] \/ Excused(c, s)

\* Every committed change of its sections is shown in the end, with the same
\* exceptions, however the stream breaks and the server restarts.
EventuallyShown ==
  \A c \in Clients : \A s \in Loaded(c) :
    screen[c][s] < stored[s] ~> screen[c][s] >= stored[s] \/ Excused(c, s)

-----------------------------------------------------------------------------
(* What the documents say and the code does not keep *)

\* "Realtime SSE: Admin and worker event streams for live booking, notification,
\* and permission-update sync" (README.md:81): a panel that has nothing on its
\* way shows all that its stream tells it of, its bookings too.
BookingsLive ==
  \A c \in Clients : Settled(c) =>
    \A s \in Follows[c] :
      screen[c][s] = stored[s] \/ s \in open \/ Excused(c, s)

=============================================================================
