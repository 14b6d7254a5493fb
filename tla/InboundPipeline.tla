--------------------------- MODULE InboundPipeline ---------------------------
(***************************************************************************)
(* ConversationOrchestrator: what happens to a client's message between    *)
(* the webhook and the reply.  Each delivery is a request with a           *)
(* transaction of its own: it claims the message in inbound_idempotency,   *)
(* loads the session, writes the session's channel if that has changed,    *)
(* drops the message if it is older than the session's last_inbound_at,    *)
(* else stamps the session, has a reply generated, hands the reply to the  *)
(* gateway and commits.  The gateway's send is not undone by a rollback.   *)
(* Whether a message comes on another channel than the one stored is left  *)
(* open.                                                                   *)
(*                                                                         *)
(* A message typed by staff (/agent/send-message) is a request as well: it *)
(* stamps the session, sends and commits.  Decision messages and relayed   *)
(* texts stamp nothing and are left out.                                   *)
(*                                                                         *)
(* What a turn does to the bookings is BookingLifecycle's; the retries of  *)
(* a failed send are the notification service's.  The provider, who        *)
(* delivers a message again until a request for it is answered, and        *)
(* perhaps once more, is external.                                         *)
(***************************************************************************)
EXTENDS Integers

CONSTANTS
  Messages,     \* inbound messages, by the provider's message id
  Sessions,
  SessionOf,    \* the session of each message
  EventTime,    \* the provider's timestamp of a message; None if it gives none
  Turns,        \* requests that may be in flight together
  Ahead,        \* how far the provider's clock may be ahead of the server's
  MaxTime,      \* bound on the server's clock
  MaxAborts,    \* bound on the requests that fail or crash
  None

ASSUME PipelineAssumption ==
  /\ SessionOf \in [Messages -> Sessions]
  /\ EventTime \in [Messages -> Nat \union {None}]
  /\ Ahead \in Nat /\ MaxTime \in Nat /\ MaxAborts \in Nat
  /\ None \notin Nat \union Messages \union BOOLEAN \union {"answered", "ignored"}

VARIABLES
  claimed,   \* committed rows of inbound_idempotency
  settled,   \* what was committed for each message, and with which stamp
  known,     \* sessions whose client and session row are committed
  lastIn,    \* last_inbound_at of each session
  retries,   \* messages whose reply failed to send and was queued for retry
  turn,      \* the request each slot is running; None when it runs none
  now,
  aborts,    \* requests that failed so far
  sends,     \* auxiliary: replies to each message that reached the client
  lost,      \* auxiliary: of these, the ones whose turn did not commit
  commits,   \* auxiliary: turns committed for each message
  spoken     \* auxiliary: the stamps messages of staff gave each session

vars == <<claimed, settled, known, lastIn, retries, turn, now, aborts,
          sends, lost, commits, spoken>>

Steps == {"received", "claimed", "creating", "switching", "ordered", "stale",
          "entered", "replied"}

\* msg: the message being answered, None for one typed by staff; made: the request
\* inserted the session; switched: it wrote the session's channel; seen:
\* last_inbound_at as loaded; stamp: the value to write; ok: what the gateway
\* answered.
Turn == [msg : Messages \union {None}, to : Sessions, at : Steps,
         made : BOOLEAN, switched : BOOLEAN, seen : Nat \union {None}, stamp : Nat \union {None},
         ok : BOOLEAN \union {None}]
Settled == [as : {"answered", "ignored"}, stamp : Nat]

ASSUME RecordsAssumption == None \notin Turn \union Settled

Running(q) == turn[q] # None
At(q, step) == Running(q) /\ turn[q].at = step
Session(q) == turn[q].to
Answers(q, m) == Running(q) /\ turn[q].msg = m

HasClaim(q) == turn[q].msg # None /\ turn[q].at # "received"

\* The ORM issues the UPDATE, and so takes the row's lock, only for a value
\* that differs from the loaded one: for the channel before the order check, for
\* the stamp after it.
Writes(q) == turn[q].stamp # turn[q].seen
HoldsRow_FromLoad(q) ==
  Running(q) /\ (turn[q].switched \/ (turn[q].at \in {"ordered", "entered", "replied"} /\ Writes(q)))
HoldsRow(q) ==
  Running(q) /\ (turn[q].switched \/ (turn[q].at \in {"entered", "replied"} /\ Writes(q)))

\* A request stopped until another one ends: by the open insert of a claim of
\* the same message, or of a client of the same phone number, or by the session
\* row's lock.
WaitsFor(q, p) ==
  \/ At(q, "received") /\ Answers(p, turn[q].msg) /\ HasClaim(p)
  \/ At(q, "creating") /\ Running(p) /\ Session(p) = Session(q) /\ turn[p].made
  \/ /\ At(q, "switching") \/ (At(q, "ordered") /\ Writes(q) /\ ~turn[q].switched)
     /\ HoldsRow(p) /\ Session(p) = Session(q)
Granted(q) == \A p \in Turns \ {q} : ~WaitsFor(q, p)

Keep(q, r) == turn' = [turn EXCEPT ![q] = r]
Drop(q) == turn' = [turn EXCEPT ![q] = None]
Stored == <<claimed, settled, known, lastIn, retries>>
Counted == <<aborts, sends, lost, commits, spoken>>

-----------------------------------------------------------------------------
(* A delivery of a message that was sent, at most Ahead before the time the *)
(* provider gives it; one whose claim is committed is answered from the     *)
(* stored reply and changes nothing.                                        *)
Deliver(q, m) ==
  /\ ~Running(q) /\ m \notin claimed
  /\ EventTime[m] # None => EventTime[m] <= now + Ahead
  /\ Keep(q, [msg |-> m, to |-> SessionOf[m], at |-> "received",
              made |-> FALSE, switched |-> FALSE,
              seen |-> None, stamp |-> None, ok |-> None])
  /\ UNCHANGED <<Stored, Counted, now>>

\* Inserting the claim waits for any open insert of the same key, and fails
\* if the key is committed by then: the request ends as a duplicate.
Claim_Unkeyed(q) ==
  /\ At(q, "received")
  /\ Keep(q, [turn[q] EXCEPT !.at = "claimed"])
  /\ UNCHANGED <<Stored, Counted, now>>
Claim(q) ==
  /\ At(q, "received") /\ Granted(q)
  /\ IF turn[q].msg \in claimed THEN Drop(q)
     ELSE Keep(q, [turn[q] EXCEPT !.at = "claimed"])
  /\ UNCHANGED <<Stored, Counted, now>>

\* The comparison with the loaded session, and the stamp of this message.
OutOfOrder_Never(m, seen) == FALSE
OutOfOrder_Inclusive(m, seen) ==
  EventTime[m] # None /\ seen # None /\ EventTime[m] <= seen
OutOfOrder(m, seen) ==
  EventTime[m] # None /\ seen # None /\ EventTime[m] < seen

Stamp_EventOnly(m) == EventTime[m]
Stamp(m) == IF EventTime[m] = None THEN now ELSE EventTime[m]

Compared(q, seen, made, switched) ==
  LET m == turn[q].msg IN
  Keep(q, [turn[q] EXCEPT
             !.at = IF OutOfOrder(m, seen) THEN "stale" ELSE "ordered",
             !.made = made, !.switched = switched, !.seen = seen, !.stamp = Stamp(m)])

\* Loading the session of a client, or seeing that there is none yet.
Load(q) ==
  LET seen == lastIn[Session(q)] IN
  /\ At(q, "claimed")
  /\ IF known[Session(q)]
     THEN \/ Compared(q, seen, FALSE, FALSE)
          \/ Keep(q, [turn[q] EXCEPT !.at = "switching", !.seen = seen])
     ELSE Keep(q, [turn[q] EXCEPT !.at = "creating"])
  /\ UNCHANGED <<Stored, Counted, now>>

\* get_or_create writes the channel of this message, which waits for the session
\* row; last_inbound_at is not loaded again.
Switch(q) ==
  /\ At(q, "switching") /\ Granted(q)
  /\ Compared(q, turn[q].seen, FALSE, TRUE)
  /\ UNCHANGED <<Stored, Counted, now>>

\* The insert of the client row waits for an open one of the same phone
\* number, and raises if that one has been committed.
Create(q) ==
  LET s == Session(q) IN
  /\ At(q, "creating") /\ Granted(q)
  /\ IF known[s] THEN Drop(q) ELSE Compared(q, None, TRUE, FALSE)
  /\ UNCHANGED <<Stored, Counted, now>>

\* Saving the message and the session: waits for the session row, unless it has
\* that already.
Enter(q) ==
  /\ At(q, "ordered") /\ Granted(q)
  /\ Keep(q, [turn[q] EXCEPT !.at = "entered"])
  /\ UNCHANGED <<Stored, Counted, now>>

\* generate_reply always has a text; the gateway sends it or fails.
Sent(m, ok) == IF ok THEN [sends EXCEPT ![m] = @ + 1] ELSE sends
Reply(q, ok) ==
  /\ At(q, "entered")
  /\ Keep(q, [turn[q] EXCEPT !.at = "replied", !.ok = ok])
  /\ sends' = IF turn[q].msg = None THEN sends ELSE Sent(turn[q].msg, ok)
  /\ UNCHANGED <<Stored, now, aborts, lost, commits, spoken>>

Stamped(q) == [lastIn EXCEPT ![Session(q)] = IF Writes(q) THEN turn[q].stamp ELSE @]

\* A reply that could not be sent is queued for retry in the same transaction.
Queued(q) == IF turn[q].ok = FALSE THEN retries \union {turn[q].msg} ELSE retries
Answered(q) ==
  /\ At(q, "replied") /\ turn[q].msg # None
  /\ lastIn' = Stamped(q)
  /\ retries' = Queued(q)
  /\ settled' = [settled EXCEPT ![turn[q].msg] = [as |-> "answered", stamp |-> turn[q].stamp]]
Ignored(q) ==
  /\ At(q, "stale")
  /\ settled' = [settled EXCEPT ![turn[q].msg] = [as |-> "ignored", stamp |-> turn[q].stamp]]
  /\ UNCHANGED <<lastIn, retries>>
Commit(q) ==
  /\ Answered(q) \/ Ignored(q)
  /\ claimed' = claimed \union {turn[q].msg}
  /\ known' = [known EXCEPT ![Session(q)] = TRUE]
  /\ commits' = [commits EXCEPT ![turn[q].msg] = @ + 1]
  /\ Drop(q)
  /\ UNCHANGED <<now, aborts, sends, lost, spoken>>

\* An exception, a crash or a broken connection before the commit.
Abort_KeepsClaim(q) ==
  /\ Running(q) /\ aborts < MaxAborts
  /\ aborts' = aborts + 1
  /\ claimed' = IF HasClaim(q) THEN claimed \union {turn[q].msg} ELSE claimed
  /\ lost' = [m \in Messages |->
       IF Answers(q, m) /\ turn[q].ok = TRUE THEN lost[m] + 1 ELSE lost[m]]
  /\ Drop(q)
  /\ UNCHANGED <<settled, known, lastIn, retries, now, sends, commits, spoken>>
Abort(q) ==
  /\ Running(q) /\ aborts < MaxAborts
  /\ aborts' = aborts + 1
  /\ lost' = [m \in Messages |->
       IF Answers(q, m) /\ turn[q].ok = TRUE THEN lost[m] + 1 ELSE lost[m]]
  /\ Drop(q)
  /\ UNCHANGED <<Stored, now, sends, commits, spoken>>

\* Staff write to a known client: get_or_create stamps the session
\* with the present time before anything is sent, whatever it held.
SendMessage(q, s) ==
  /\ ~Running(q) /\ known[s]
  /\ Keep(q, [msg |-> None, to |-> s, at |-> "ordered",
              made |-> FALSE, switched |-> FALSE,
              seen |-> lastIn[s], stamp |-> now, ok |-> None])
  /\ UNCHANGED <<Stored, Counted, now>>

\* Its end: a failed send is answered with an error, which rolls back the stamp
\* and the retry that was queued for it.
Spoken(q) ==
  /\ At(q, "replied") /\ turn[q].msg = None
  /\ IF turn[q].ok
     THEN /\ lastIn' = Stamped(q)
          /\ spoken' = [spoken EXCEPT ![Session(q)] = @ \union {turn[q].stamp}]
     ELSE UNCHANGED <<lastIn, spoken>>
  /\ Drop(q)
  /\ UNCHANGED <<claimed, settled, known, retries, now, aborts, sends, lost, commits>>

Tick ==
  /\ now < MaxTime
  /\ now' = now + 1
  /\ UNCHANGED <<Stored, Counted, turn>>

-----------------------------------------------------------------------------
Init ==
  /\ claimed = {} /\ retries = {}
  /\ settled = [m \in Messages |-> None]
  /\ known = [s \in Sessions |-> FALSE]
  /\ lastIn = [s \in Sessions |-> None]
  /\ turn = [q \in Turns |-> None]
  /\ now = 0 /\ aborts = 0
  /\ sends = [m \in Messages |-> 0]
  /\ lost = [m \in Messages |-> 0]
  /\ commits = [m \in Messages |-> 0]
  /\ spoken = [s \in Sessions |-> {}]

\* What a request does by itself, once started.
Work(q) ==
  \/ Claim(q)
  \/ Load(q)
  \/ Switch(q)
  \/ Create(q)
  \/ Enter(q)
  \/ \E ok \in BOOLEAN : Reply(q, ok)
  \/ Commit(q)
  \/ Spoken(q)

Next ==
  \/ \E q \in Turns, m \in Messages : Deliver(q, m)
  \/ \E q \in Turns : Work(q)
  \/ \E q \in Turns : Abort(q)
  \/ \E q \in Turns, s \in Sessions : SendMessage(q, s)
  \/ Tick

\* A request in flight makes progress, also when the row it waits for is taken
\* again and again (the database grants a lock in the order of the waiters); the
\* provider keeps delivering a message until a request for it commits; time passes.
Fairness ==
  /\ \A q \in Turns : SF_vars(Work(q))
  /\ \A m \in Messages : SF_vars(\E q \in Turns : Deliver(q, m))
  /\ WF_vars(Tick)

Spec == Init /\ [][Next]_vars
FairSpec == Spec /\ Fairness

-----------------------------------------------------------------------------
(* Properties *)

\* Every variable keeps its type, and a request past the order check has the
\* stamp it is going to write.
TypeOK ==
  /\ claimed \subseteq Messages /\ retries \subseteq Messages
  /\ settled \in [Messages -> Settled \union {None}]
  /\ known \in [Sessions -> BOOLEAN]
  /\ lastIn \in [Sessions -> Nat \union {None}]
  /\ turn \in [Turns -> Turn \union {None}]
  /\ now \in 0..MaxTime /\ aborts \in 0..MaxAborts
  /\ sends \in [Messages -> Nat] /\ lost \in [Messages -> Nat]
  /\ commits \in [Messages -> Nat]
  /\ spoken \in [Sessions -> SUBSET Nat]

\* For each message the pipeline implements the ledger that ReplyLedger promises,
\* however often and however concurrently it is delivered: one set of booking
\* changes, one inbound row, and a reply that is sent twice only by turns lost.
Ledger == INSTANCE ReplyLedger WITH
  outcome <- [m \in Messages |-> IF settled[m] = None THEN None ELSE settled[m].as],
  turns <- commits, replies <- sends, failed <- lost, owed <- retries
KeepsLedger == Ledger!Spec

\* A message is ignored only if a newer one of its session was answered, or
\* if staff wrote to the client after it.
IgnoredForReason ==
  \A m \in Messages :
    settled[m] # None /\ settled[m].as = "ignored" =>
      \/ \E t \in spoken[SessionOf[m]] : t > EventTime[m]
      \/ \E n \in Messages :
           /\ SessionOf[n] = SessionOf[m]
           /\ settled[n] # None /\ settled[n].as = "answered"
           /\ settled[n].stamp > EventTime[m]

\* The stamp of a request is the server's time, not the provider's.
StampedHere(q) == turn[q].msg = None \/ EventTime[turn[q].msg] = None

\* last_inbound_at goes back only when a turn commits that had loaded the
\* session before another request wrote it; a turn that saw the present value
\* moves it back only with the server's time, and no further than the
\* provider's clock is ahead.
OrderKeptUnlessOverlapped ==
  [][\A s \in Sessions :
       lastIn[s] # None =>
         \/ lastIn'[s] >= lastIn[s]
         \/ \E q \in Turns :
              /\ Running(q) /\ turn'[q] = None /\ Session(q) = s
              /\ \/ turn[q].seen # lastIn[s]
                 \/ StampedHere(q) /\ lastIn'[s] + Ahead >= lastIn[s]]_vars

\* The waits for the claim, the client row and the session row are never
\* circular, however many requests wait: each of them waits for one that can go
\* on, or for one that waits for such a one, over three waits at most.
GoesOn(q) == Running(q) /\ Granted(q)
WaitsEnd ==
  \A q \in Turns : Running(q) =>
    \/ GoesOn(q)
    \/ \E p \in Turns : WaitsFor(q, p) /\
         \/ GoesOn(p)
         \/ \E r \in Turns : WaitsFor(p, r) /\
              \/ GoesOn(r)
              \/ \E o \in Turns : WaitsFor(r, o) /\ GoesOn(o)

\* Every message is answered or ignored in the end, however its deliveries
\* overlap: no request waits for ever, and an aborted turn leaves nothing behind
\* that blocks the next delivery.
EventuallySettled == \A m \in Messages : <>(settled[m] # None)

=============================================================================
