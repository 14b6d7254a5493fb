----------------------- MODULE NotificationOutboxProofs -----------------------
(***************************************************************************)
(* The safety properties of NotificationOutbox, for any bookings, rows,    *)
(* transactions in flight, retry budget, starting times and bounds.        *)
(***************************************************************************)
EXTENDS NotificationOutbox, TLAPS

-----------------------------------------------------------------------------
(* Types *)

\* A run takes up what it listed and flushes what is stored.
RunOK(q) ==
  IsRun(q) => \A n \in Notes :
    /\ n \in job[q].todo => job[q].copy[n] # None /\ job[q].did[n] = None
    /\ job[q].did[n] # None => job[q].copy[n] # None /\ Stored(n)

\* The row of an insert in flight is nobody else's.
NewRow(q, n) ==
  /\ ~Stored(n)
  /\ \A p \in Jobs : ~Listed(p, n) /\ (p # q /\ IsSchedule(p) => job[p].row # n)

RowOK(q) ==
  IsSchedule(q) =>
    /\ ~job[q].ready => job[q].kind = "confirm" /\ job[q].row = None
    /\ job[q].row # None => NewRow(q, job[q].row)

JobsOK == \A q \in Jobs : RunOK(q) /\ RowOK(q)
TypeInv == TypeOK /\ JobsOK

LEMMA JobTyped ==
  ASSUME TypeOK, NEW q \in Jobs
  PROVE  /\ IsRun(q) => job[q] \in Run
         /\ IsSchedule(q) => job[q] \in Schedule
         /\ ~(IsRun(q) /\ IsSchedule(q))
         /\ Idle(q) => ~IsRun(q) /\ ~IsSchedule(q)
BY DEF TypeOK, IsRun, IsSchedule, Idle, Run, Schedule, NoJob

\* Countdowns.
LEMMA Max0Typed ==
  ASSUME NEW x \in Int
  PROVE  Max0(x) \in Nat /\ Max0(x) >= x
BY DEF Max0

LEMMA DelayTyped ==
  ASSUME NEW k \in Nat, NEW outcome, outcome = "retry" => k < MaxRetries
  PROVE  Delay(k, outcome) \in Nat
BY OutboxAssumption, BackoffAssumption DEF Delay

LEMMA SendInTyped ==
  ASSUME NEW start \in Nat, NEW minutes \in Int
  PROVE  SendIn(start, minutes) \in Nat /\ start <= SendIn(start, minutes) + Max0(minutes)
BY DEF SendIn, Max0

\* A failure is retried only within the budget.
LEMMA FailedTyped ==
  ASSUME NEW k \in Nat
  PROVE  /\ Failed(k) \in Outcomes /\ Failed(k) # "sent"
         /\ Failed(k) = "retry" => k < MaxRetries
         /\ Failed(k) = "dead" => k >= MaxRetries
BY OutboxAssumption DEF Failed, Outcomes

\* What a run has marked: everything but the row it takes is as it was.
LEMMA MarkingIs ==
  ASSUME TypeOK, NEW r \in Run, NEW n \in Notes, NEW outcome \in Outcomes,
         r.copy[n] # None, outcome = "retry" => r.copy[n].retries < MaxRetries
  PROVE  /\ Marking(r, n, outcome) \in Run
         /\ Marking(r, n, outcome).kind = r.kind
         /\ Marking(r, n, outcome).copy = r.copy
         /\ Marking(r, n, outcome).lost = r.lost
         /\ Marking(r, n, outcome).said = r.said
         /\ Marking(r, n, outcome).todo = r.todo \ {n}
         /\ Marking(r, n, outcome).did =
              [r.did EXCEPT ![n] = IF Stored(n) THEN outcome ELSE @]
<1> DEFINE rest == [r EXCEPT !.todo = @ \ {n}]
           d == Delay(r.copy[n].retries, outcome)
           full == [rest EXCEPT !.did[n] = outcome, !.wait[n] = d]
<1>1. r.copy[n] \in Copy BY DEF Run
<1>2. d \in Nat BY <1>1, DelayTyped DEF Copy
<1> HIDE DEF d
<1>3. rest \in Run /\ rest.kind = r.kind /\ rest.copy = r.copy /\ rest.lost = r.lost
      /\ rest.said = r.said /\ rest.todo = r.todo \ {n} /\ rest.did = r.did
  BY DEF Run
<1>4. full \in Run /\ full.kind = r.kind /\ full.copy = r.copy /\ full.lost = r.lost
      /\ full.said = r.said /\ full.todo = r.todo \ {n}
      /\ full.did = [r.did EXCEPT ![n] = outcome]
  BY <1>2 DEF Run
<1>5. CASE Stored(n)
  <2>1. Marking(r, n, outcome) = full BY <1>5 DEF Marking, d
  <2> QED BY <1>4, <1>5, <2>1
<1>6. CASE ~Stored(n)
  <2>1. Marking(r, n, outcome) = rest BY <1>6 DEF Marking
  <2>2. r.did = [r.did EXCEPT ![n] = @] BY DEF Run
  <2> QED BY <1>3, <1>6, <2>1, <2>2
<1> QED BY <1>5, <1>6

\* Marked or not, a run is a run.
LEMMA MarkingRun ==
  ASSUME NEW r \in Run, NEW n \in Notes, NEW outcome
  PROVE  Marking(r, n, outcome).kind = "run"
<1> DEFINE rest == [r EXCEPT !.todo = @ \ {n}]
<1>1. rest.kind = "run" /\ DOMAIN rest = DOMAIN r BY DEF Run
<1>2. CASE Stored(n) BY <1>1, <1>2 DEF Marking, Run
<1>3. CASE ~Stored(n)
  <2>1. Marking(r, n, outcome) = rest BY <1>3 DEF Marking
  <2> QED BY <1>1, <2>1
<1> QED BY <1>2, <1>3

LEMMA NewRunIs ==
  ASSUME TypeOK, NEW N \in SUBSET Notes, NEW said \in {"sent", "failed", "dead", None},
         \A n \in N : Stored(n)
  PROVE  /\ NewRun(N, said) \in Run
         /\ NewRun(N, said).kind = "run" /\ NewRun(N, said).todo = N
         /\ NewRun(N, said).said = said
         /\ \A n \in Notes :
              /\ NewRun(N, said).did[n] = None
              /\ n \in N => /\ NewRun(N, said).copy[n] \in Copy
                            /\ NewRun(N, said).copy[n].status = note[n].status
                            /\ NewRun(N, said).copy[n].retries = note[n].retries
                            /\ NewRun(N, said).copy[n] # None
              /\ n \notin N => NewRun(N, said).copy[n] = None
<1> DEFINE r == NewRun(N, said)
<1>1. ASSUME NEW n \in N
      PROVE  /\ [status |-> note[n].status, retries |-> note[n].retries] \in Copy
             /\ [status |-> note[n].status, retries |-> note[n].retries] # None
  <2>1. note[n].status \in {"SENT", "DEAD_LETTER"} \union Due /\ note[n].retries \in Nat
    BY DEF TypeOK, Note, Stored
  <2>2. [status |-> note[n].status, retries |-> note[n].retries] \in Copy
    BY <2>1 DEF Copy
  <2> QED BY <2>2, NoneAssumption
<1>2. r.copy \in [Notes -> Copy \union {None}]
  BY <1>1 DEF NewRun
<1>3. r \in Run
  BY <1>2 DEF NewRun, Run
<1> QED BY <1>1, <1>3 DEF NewRun

-----------------------------------------------------------------------------
(* Jobs *)

JobType == [Jobs -> Schedule \union Run \union {NoJob}]

\* A run that lists rows which are stored or were on its list, and flushes only
\* those that are stored.
LEMMA SetRun ==
  ASSUME TypeInv, NEW q \in Jobs, NEW r \in Run, Set(q, r), note' = note,
         ~IsSchedule(q),
         \A n \in Notes :
           /\ n \in r.todo => r.copy[n] # None /\ r.did[n] = None
           /\ r.did[n] # None => r.copy[n] # None /\ Stored(n)
           /\ r.copy[n] # None => Stored(n) \/ Listed(q, n)
  PROVE  job' \in JobType /\ JobsOK'
<1>1. job \in JobType BY DEF TypeInv, TypeOK, JobType
<1>2. job' \in JobType BY <1>1 DEF Set, JobType
<1>3. /\ job'[q] = r
      /\ \A p \in Jobs \ {q} : job'[p] = job[p]
  BY <1>1 DEF Set, JobType
<1>4. IsRun(q)' /\ ~IsSchedule(q)'
  BY <1>3 DEF IsRun, IsSchedule, Run
<1>5. \A n : Stored(n)' <=> Stored(n) BY DEF Stored
<1>6. \A p \in Jobs \ {q} : /\ IsRun(p)' <=> IsRun(p)
                            /\ IsSchedule(p)' <=> IsSchedule(p)
  BY <1>3 DEF IsRun, IsSchedule
<1>7. ASSUME NEW p \in Jobs PROVE RunOK(p)'
  <2>1. CASE p = q
    BY <1>3, <1>5, <2>1 DEF RunOK
  <2>2. CASE p # q
    <3>1. RunOK(p) BY DEF TypeInv, JobsOK
    <3> QED BY <1>3, <1>5, <1>6, <2>2, <3>1 DEF RunOK
  <2> QED BY <2>1, <2>2
<1>8. ASSUME NEW p \in Jobs, IsSchedule(p)' PROVE RowOK(p)'
  <2>1. p # q /\ IsSchedule(p) /\ job'[p] = job[p] /\ RowOK(p) /\ job[p] \in Schedule
    BY <1>3, <1>4, <1>6, <1>8, JobTyped DEF TypeInv, JobsOK
  <2>2. ASSUME NEW n \in Notes, n = job[p].row PROVE NewRow(p, n)'
    <3>1. NewRow(p, n) BY <2>1, <2>2, OutboxAssumption DEF RowOK
    <3>2. ~Listed(q, n)' BY <1>3, <3>1 DEF Listed, NewRow
    <3>3. \A o \in Jobs \ {q} : ~Listed(o, n)'
      BY <1>3, <1>6, <3>1 DEF Listed, NewRow
    <3>4. \A o \in Jobs \ {p} : IsSchedule(o)' => job'[o].row # n
      BY <1>3, <1>4, <1>6, <3>1 DEF NewRow
    <3> QED BY <1>5, <3>1, <3>2, <3>3, <3>4 DEF NewRow
  <2> QED BY <2>1, <2>2 DEF RowOK, Schedule
<1> QED BY <1>2, <1>7, <1>8 DEF JobsOK, RowOK

\* A transaction that schedules reminders, with a row of its own if it has one.
LEMMA SetSchedule ==
  ASSUME TypeInv, NEW q \in Jobs, NEW r \in Schedule, Set(q, r), note' = note,
         ~IsRun(q),
         ~r.ready => r.kind = "confirm" /\ r.row = None,
         r.row # None =>
           /\ ~Stored(r.row)
           /\ \A p \in Jobs : ~Listed(p, r.row)
                              /\ (p # q /\ IsSchedule(p) => job[p].row # r.row)
  PROVE  job' \in JobType /\ JobsOK'
<1>1. job \in JobType BY DEF TypeInv, TypeOK, JobType
<1>2. job' \in JobType BY <1>1 DEF Set, JobType
<1>3. /\ job'[q] = r
      /\ \A p \in Jobs \ {q} : job'[p] = job[p]
  BY <1>1 DEF Set, JobType
<1>4. ~IsRun(q)' /\ IsSchedule(q)'
  BY <1>3 DEF IsRun, IsSchedule, Schedule
<1>5. \A n : Stored(n)' <=> Stored(n) BY DEF Stored
<1>6. \A p \in Jobs \ {q} : /\ IsRun(p)' <=> IsRun(p)
                            /\ IsSchedule(p)' <=> IsSchedule(p)
  BY <1>3 DEF IsRun, IsSchedule
<1>7. \A p \in Jobs : \A n : Listed(p, n)' => Listed(p, n)
  BY <1>3, <1>4, <1>6 DEF Listed
<1>8. ASSUME NEW p \in Jobs PROVE RunOK(p)'
  <2>1. RunOK(p) BY DEF TypeInv, JobsOK
  <2> QED BY <1>3, <1>4, <1>5, <1>6, <2>1 DEF RunOK
<1>9. ASSUME NEW p \in Jobs, IsSchedule(p)' PROVE RowOK(p)'
  <2>1. CASE p = q
    BY <1>3, <1>5, <1>6, <1>7, <2>1 DEF RowOK, NewRow
  <2>2. CASE p # q
    <3>1. IsSchedule(p) /\ job'[p] = job[p] /\ RowOK(p) /\ job[p] \in Schedule
      BY <1>3, <1>6, <1>9, <2>2, JobTyped DEF TypeInv, JobsOK
    <3>2. ASSUME NEW n \in Notes, n = job[p].row PROVE NewRow(p, n)'
      <4>1. NewRow(p, n) BY <3>1, <3>2, OutboxAssumption DEF RowOK
      <4>2. r.row # n
        BY <2>2, <3>1, <3>2, OutboxAssumption
      <4>3. \A o \in Jobs \ {p} : IsSchedule(o)' => job'[o].row # n
        BY <1>3, <1>6, <4>1, <4>2 DEF NewRow
      <4> QED BY <1>5, <1>7, <4>1, <4>3 DEF NewRow
    <3> QED BY <3>1, <3>2 DEF RowOK, Schedule
  <2> QED BY <2>1, <2>2
<1> QED BY <1>2, <1>8, <1>9 DEF JobsOK, RowOK

\* A transaction that ends, and with it rows that are stored now and were not.
LEMMA DropJob ==
  ASSUME TypeInv, NEW q \in Jobs, Drop(q),
         \A n \in Notes : Stored(n) => Stored(n)',
         \A n \in Notes : Stored(n)' => Stored(n) \/ (IsSchedule(q) /\ job[q].row = n)
  PROVE  job' \in JobType /\ JobsOK'
<1>1. job \in JobType BY DEF TypeInv, TypeOK, JobType
<1>2. job' \in JobType BY <1>1 DEF Drop, Set, JobType
<1>3. /\ job'[q] = NoJob
      /\ \A p \in Jobs \ {q} : job'[p] = job[p]
  BY <1>1 DEF Drop, Set, JobType
<1>4. ~IsRun(q)' /\ ~IsSchedule(q)'
  BY <1>3 DEF IsRun, IsSchedule, NoJob
<1>5. \A p \in Jobs \ {q} : /\ IsRun(p)' <=> IsRun(p)
                            /\ IsSchedule(p)' <=> IsSchedule(p)
  BY <1>3 DEF IsRun, IsSchedule
<1>6. ASSUME NEW p \in Jobs PROVE RunOK(p)'
  <2>1. RunOK(p) BY DEF TypeInv, JobsOK
  <2> QED BY <1>3, <1>4, <1>5, <2>1 DEF RunOK
<1>7. ASSUME NEW p \in Jobs, IsSchedule(p)' PROVE RowOK(p)'
  <2>1. p # q /\ IsSchedule(p) /\ job'[p] = job[p] /\ RowOK(p) /\ job[p] \in Schedule
    BY <1>3, <1>4, <1>5, <1>7, JobTyped DEF TypeInv, JobsOK
  <2>2. ASSUME NEW n \in Notes, n = job[p].row PROVE NewRow(p, n)'
    <3>1. NewRow(p, n) BY <2>1, <2>2, OutboxAssumption DEF RowOK
    <3>2. ~Stored(n)' BY <2>1, <3>1 DEF NewRow
    <3> QED BY <1>3, <1>4, <1>5, <3>1, <3>2 DEF NewRow, Listed
  <2> QED BY <2>1, <2>2 DEF RowOK, Schedule
<1> QED BY <1>2, <1>6, <1>7 DEF JobsOK, RowOK


\* A row taken by its run.
LEMMA MarkJobs ==
  ASSUME TypeInv, NEW q \in Jobs, NEW n \in Notes, NEW outcome \in Outcomes,
         IsRun(q), n \in job[q].todo,
         outcome = "retry" => job[q].copy[n].retries < MaxRetries,
         Set(q, Marking(job[q], n, outcome)), note' = note
  PROVE  job' \in JobType /\ JobsOK'
<1> DEFINE r == Marking(job[q], n, outcome)
<1>1. job[q] \in Run /\ ~IsSchedule(q) /\ RunOK(q) /\ TypeOK
  BY JobTyped DEF TypeInv, JobsOK
<1>2. job[q].copy[n] # None BY <1>1 DEF RunOK
<1>3. /\ r \in Run /\ r.copy = job[q].copy /\ r.todo = job[q].todo \ {n}
      /\ r.did = [job[q].did EXCEPT ![n] = IF Stored(n) THEN outcome ELSE @]
  BY <1>1, <1>2, MarkingIs
<1>4. Set(q, r) OBVIOUS
<1> HIDE DEF r
<1>5. \A m \in Notes : m # n => r.did[m] = job[q].did[m]
  BY <1>1, <1>3 DEF Run
<1>6. r.did[n] = IF Stored(n) THEN outcome ELSE job[q].did[n]
  BY <1>1, <1>3 DEF Run
<1>7. ASSUME NEW m \in Notes
      PROVE  /\ m \in r.todo => r.copy[m] # None /\ r.did[m] = None
             /\ r.did[m] # None => r.copy[m] # None /\ Stored(m)
             /\ r.copy[m] # None => Stored(m) \/ Listed(q, m)
  BY <1>1, <1>2, <1>3, <1>5, <1>6 DEF RunOK, Listed
<1> QED BY <1>1, <1>3, <1>4, <1>7, SetRun

\* The outcomes a run and a report write.
LEMMA SendOutcomeTyped ==
  ASSUME TypeInv, NEW q \in Jobs, NEW n \in Notes, NEW ok \in BOOLEAN,
         IsRun(q), n \in job[q].todo
  PROVE  /\ job[q].copy[n] \in Copy /\ job[q].did[n] = None
         /\ SendOutcome(q, n, ok) \in Outcomes
         /\ SendOutcome(q, n, ok) = "retry" => job[q].copy[n].retries < MaxRetries
<1>1. job[q] \in Run /\ RunOK(q) BY JobTyped DEF TypeInv, JobsOK
<1>2. job[q].copy[n] \in Copy /\ job[q].did[n] = None BY <1>1 DEF RunOK, Run
<1>3. job[q].copy[n].retries \in Nat BY <1>2 DEF Copy
<1> QED BY <1>2, <1>3, FailedTyped DEF SendOutcome, Outcomes

LEMMA ReportedTyped ==
  ASSUME NEW r \in Run, NEW n \in Notes, r.copy[n] # None, r.said # None
  PROVE  /\ Reported(r, n) \in Outcomes
         /\ Reported(r, n) = "retry" => r.copy[n].retries < MaxRetries
         /\ r.said = "sent" <=> Reported(r, n) = "sent"
<1>1. r.copy[n].retries \in Nat /\ r.said \in {"sent", "failed", "dead"}
  BY DEF Run, Copy
<1> QED BY <1>1, FailedTyped DEF Reported, Outcomes

LEMMA MarkedTyped ==
  ASSUME NEW row \in Note, NEW copy \in Copy, NEW outcome \in Outcomes, NEW wait \in Nat,
         row.status # "ABSENT"
  PROVE  /\ Marked(row, copy, outcome, wait) \in Note
         /\ Marked(row, copy, outcome, wait).status # "ABSENT"
         /\ Marked(row, copy, outcome, wait).booking = row.booking
         /\ Marked(row, copy, outcome, wait).status =
              IF NewStatus(outcome) = copy.status THEN row.status ELSE NewStatus(outcome)
         /\ Marked(row, copy, outcome, wait).retries =
              IF outcome = "retry" THEN copy.retries + 1 ELSE row.retries
         /\ Marked(row, copy, outcome, wait).wait =
              IF outcome = "retry" THEN wait ELSE row.wait
<1>1. NewStatus(outcome) \in {"SENT", "DEAD_LETTER", "RETRY_PENDING"}
  BY DEF NewStatus, Outcomes
<1> DEFINE marked == IF NewStatus(outcome) = copy.status THEN row
                     ELSE [row EXCEPT !.status = NewStatus(outcome)]
<1>2. /\ marked \in Note /\ marked.status # "ABSENT" /\ marked.booking = row.booking
      /\ marked.retries = row.retries /\ marked.wait = row.wait
      /\ marked.status = IF NewStatus(outcome) = copy.status THEN row.status
                         ELSE NewStatus(outcome)
  BY <1>1 DEF Note, Due
<1> HIDE DEF marked
<1>3. copy.retries + 1 \in Nat BY DEF Copy
<1>4. Marked(row, copy, outcome, wait) =
        IF outcome = "retry"
        THEN [marked EXCEPT !.retries = copy.retries + 1, !.wait = wait] ELSE marked
  BY DEF Marked, marked
<1> QED BY <1>2, <1>3, <1>4 DEF Note

LEMMA TickJobTyped ==
  ASSUME TypeOK, NEW q \in Jobs
  PROVE  /\ TickJob(job[q]) \in Schedule \union Run \union {NoJob}
         /\ TickJob(job[q]).kind = job[q].kind
         /\ IsRun(q) =>
              /\ TickJob(job[q]).copy = job[q].copy /\ TickJob(job[q]).did = job[q].did
              /\ TickJob(job[q]).todo = job[q].todo /\ TickJob(job[q]).said = job[q].said
         /\ IsSchedule(q) =>
              /\ TickJob(job[q]).booking = job[q].booking
              /\ TickJob(job[q]).row = job[q].row /\ TickJob(job[q]).ready = job[q].ready
              /\ TickJob(job[q]).wait = Max0(job[q].wait - 1)
              /\ TickJob(job[q]).start = Max0(job[q].start - 1)
<1>1. CASE IsRun(q)
  <2>1. job[q] \in Run /\ job[q].kind = "run" BY <1>1, JobTyped DEF IsRun
  <2>2. \A n \in Notes : Max0(job[q].wait[n] - 1) \in Nat
    BY <2>1, Max0Typed DEF Run
  <2>3. [n \in Notes |-> Max0(job[q].wait[n] - 1)] \in [Notes -> Nat]
    BY <2>2
  <2>4. TickJob(job[q]) =
          [job[q] EXCEPT !.wait = [n \in Notes |-> Max0(job[q].wait[n] - 1)]]
    BY <2>1 DEF TickJob
  <2> HIDE DEF TickJob
  <2> QED BY <1>1, <2>1, <2>3, <2>4, JobTyped DEF Run
<1>2. CASE IsSchedule(q)
  <2>1. job[q] \in Schedule /\ job[q].kind \in {"confirm", "remind"} /\ ~IsRun(q)
    BY <1>2, JobTyped DEF IsSchedule
  <2>2. Max0(job[q].wait - 1) \in Nat /\ Max0(job[q].start - 1) \in Nat
    BY <2>1, Max0Typed DEF Schedule
  <2>3. TickJob(job[q]) =
          [job[q] EXCEPT !.wait = Max0(@ - 1), !.start = Max0(@ - 1)]
    BY <2>1 DEF TickJob
  <2> QED BY <2>1, <2>2, <2>3 DEF Schedule
<1>3. CASE job[q] = NoJob
  BY <1>3 DEF TickJob, NoJob, IsRun, IsSchedule
<1>4. IsRun(q) \/ IsSchedule(q) \/ job[q] = NoJob
  BY DEF TypeOK, IsRun, IsSchedule, Run, Schedule
<1> QED BY <1>1, <1>2, <1>3, <1>4


-----------------------------------------------------------------------------
(* The actions keep the types *)

LEMMA UnusedIs ==
  ASSUME TypeOK, NEW n \in Unused
  PROVE  n \in Notes /\ ~Stored(n)
         /\ \A q \in Jobs : ~Listed(q, n) /\ (IsSchedule(q) => job[q].row # n)
BY DEF Unused

LEMMA ExcuseTyped ==
  ASSUME TypeOK, NEW N \in SUBSET Notes, Excuse(N)
  PROVE  sends' \in [Notes -> Nat] /\ tries' \in [Notes -> Nat] /\ excused' \subseteq Notes
BY DEF Excuse, TypeOK

LEMMA QueueTyped ==
  ASSUME TypeOK, NEW n \in Notes, NEW row \in Note, NEW tried \in Nat, Queue(n, row, tried)
  PROVE  /\ note' \in [Notes -> Note]
         /\ sends' \in [Notes -> Nat] /\ tries' \in [Notes -> Nat] /\ excused' \subseteq Notes
BY DEF Queue, TypeOK

\* A run of the reminders of a booking, whatever the minutes given.
Reminds(q, b) == \E minutes \in Minutes : BeginRemind(q, b, minutes)

\* An insert in flight, as scheduled or as written.
LEMMA InsertingTypes ==
  ASSUME TypeInv, NEW q \in Jobs, NEW kind \in {"confirm", "remind"}, NEW b \in Bookings,
         NEW start \in Nat, NEW minutes \in Int, Inserting(q, kind, b, start, minutes),
         note' = note, ~IsRun(q)
  PROVE  job' \in JobType /\ JobsOK' /\ raced' \subseteq Bookings /\ lead' \in [Notes -> Nat]
<1>1. PICK n \in (IF Reminded(b) THEN {None} ELSE Unused) :
         /\ Set(q, [kind |-> kind, booking |-> b, ready |-> TRUE, row |-> n, start |-> 0,
                    wait |-> IF n = None THEN 0 ELSE SendIn(start, minutes)])
         /\ raced' = raced \/ raced' = raced \union {b}
         /\ lead' = lead \/ lead' = [lead EXCEPT ![n] = Max0(minutes)]
  BY DEF Inserting
<1> DEFINE r == [kind |-> kind, booking |-> b, ready |-> TRUE, row |-> n, start |-> 0,
                 wait |-> IF n = None THEN 0 ELSE SendIn(start, minutes)]
<1>2. n = None \/ n \in Unused BY <1>1
<1>3. n \in Notes \union {None} BY <1>2, UnusedIs DEF TypeInv
<1>4. r \in Schedule BY <1>3, SendInTyped DEF Schedule
<1>5. r.ready /\ r.row = n /\ Set(q, r) BY <1>1
<1> HIDE DEF r
<1>6. job' \in JobType /\ JobsOK'
  BY <1>2, <1>4, <1>5, SetSchedule, UnusedIs DEF TypeInv
<1>7. lead' \in [Notes -> Nat] BY <1>1, Max0Typed DEF TypeInv, TypeOK
<1> QED BY <1>1, <1>6, <1>7 DEF TypeInv, TypeOK

LEMMA BookingTypes ==
  ASSUME TypeInv, NEW b \in Bookings, BookingNext(b)
  PROVE  TypeInv'
<1> USE DEF TypeInv
<1>1. ASSUME NEW t \in Starts, Reschedule(b, t) PROVE TypeInv'
  <2>1. t \in Nat BY OutboxAssumption
  <2>2. booking' \in [Bookings -> BookingRow]
    BY <1>1, <2>1 DEF Reschedule, TypeOK, BookingRow
  <2>3. upsets' \in Nat /\ moved' \subseteq Bookings
    BY <1>1 DEF Reschedule, Upset, TypeOK
  <2>4. JobsOK' BY <1>1 DEF Reschedule, JobsOK, RunOK, RowOK, NewRow, IsRun, IsSchedule,
                            Stored, Listed
  <2> QED BY <1>1, <2>2, <2>3, <2>4 DEF Reschedule, TypeOK
<1>2. ASSUME Close(b) PROVE TypeInv'
  <2>1. booking' \in [Bookings -> BookingRow]
    BY <1>2 DEF Close, TypeOK, BookingRow
  <2>2. upsets' \in Nat BY <1>2 DEF Close, Upset, TypeOK
  <2>3. JobsOK' BY <1>2 DEF Close, JobsOK, RunOK, RowOK, NewRow, IsRun, IsSchedule,
                            Stored, Listed
  <2> QED BY <1>2, <2>1, <2>2, <2>3 DEF Close, TypeOK
<1>3. ASSUME Clear(b) PROVE TypeInv'
  <2>1. PICK lost \in SUBSET {q \in Jobs : IsRun(q) /\ job[q].said = None} :
          job' = [q \in Jobs |-> IF q \in lost THEN [job[q] EXCEPT !.lost = TRUE]
                                 ELSE job[q]]
    BY <1>3 DEF Clear
  <2>2. ASSUME NEW q \in Jobs
        PROVE  /\ job'[q] \in Schedule \union Run \union {NoJob}
               /\ IsRun(q)' <=> IsRun(q)
               /\ IsSchedule(q)' <=> IsSchedule(q)
               /\ IsSchedule(q) => job'[q] = job[q]
               /\ IsRun(q) => job'[q].todo = job[q].todo /\ job'[q].copy = job[q].copy
                              /\ job'[q].did = job[q].did
    <3>1. CASE q \in lost
      <4>1. job[q] \in Run /\ IsRun(q) /\ ~IsSchedule(q) BY <3>1, JobTyped
      <4>2. job'[q] = [job[q] EXCEPT !.lost = TRUE] BY <2>1, <3>1
      <4> QED BY <4>1, <4>2 DEF Run, IsRun, IsSchedule
    <3>2. CASE q \notin lost
      <4>1. job'[q] = job[q] BY <2>1, <3>2
      <4> QED BY <4>1 DEF TypeOK, IsRun, IsSchedule
    <3> QED BY <3>1, <3>2
  <2>3. job' \in JobType BY <2>1, <2>2 DEF JobType
  <2>4. note' = [n \in Notes |-> IF note[n].booking = b THEN NoNote ELSE note[n]]
    BY <1>3 DEF Clear
  <2>5. /\ note' \in [Notes -> Note]
        /\ \A n \in Notes : Stored(n)' <=> Stored(n) /\ note[n].booking # b
    BY <2>4 DEF TypeOK, Note, NoNote, Stored
  <2>6. \A q \in Jobs, n \in Notes : Listed(q, n)' <=> Listed(q, n)
    BY <2>2 DEF Listed
  <2>7. ASSUME NEW q \in Jobs PROVE RunOK(q)'
    <3> SUFFICES ASSUME IsRun(q), NEW n \in Notes
                 PROVE  /\ n \in job'[q].todo => job'[q].copy[n] # None /\ job'[q].did[n] = None
                        /\ job'[q].did[n] # None => job'[q].copy[n] # None /\ Stored(n)'
      BY <2>2 DEF RunOK
    <3>1. RunOK(q) BY DEF JobsOK
    <3>2. Locks(q, n) => ~ReminderOf(n, b) BY <1>3 DEF Clear
    <3> QED BY <2>2, <2>5, <3>1, <3>2 DEF RunOK, Locks, ReminderOf
  <2>8. ASSUME NEW q \in Jobs, IsSchedule(q) PROVE RowOK(q)'
    <3>1. RowOK(q) /\ job'[q] = job[q] /\ job[q] \in Schedule
      BY <2>2, <2>8, JobTyped DEF JobsOK
    <3>2. ASSUME NEW n \in Notes, NewRow(q, n) PROVE NewRow(q, n)'
      BY <2>2, <2>5, <2>6, <3>2 DEF NewRow
    <3> QED BY <2>8, <3>1, <3>2 DEF RowOK, Schedule
  <2>9. JobsOK' BY <2>2, <2>7, <2>8 DEF JobsOK, RowOK
  <2>10. booking' \in [Bookings -> BookingRow]
    BY <1>3 DEF Clear, TypeOK, BookingRow
  <2>11. /\ upsets' \in Nat /\ moved' \subseteq Bookings /\ raced' \subseteq Bookings
         /\ lead' \in [Notes -> Nat]
    BY <1>3 DEF Clear, Upset, TypeOK
  <2> QED BY <1>3, <2>3, <2>5, <2>9, <2>10, <2>11 DEF Clear, TypeOK, JobType
<1> QED BY <1>1, <1>2, <1>3 DEF BookingNext

LEMMA ScheduleTypes ==
  ASSUME TypeInv, NEW q \in Jobs, NEW b \in Bookings,
         BeginConfirm(q, b) \/ Reminds(q, b) \/ WriteConfirm(q)
  PROVE  TypeInv'
<1> USE DEF TypeInv
<1>1. CASE BeginConfirm(q, b)
  <2> DEFINE r == [kind |-> "confirm", booking |-> b, ready |-> FALSE, row |-> None,
                   start |-> booking[b].start, wait |-> 0]
  <2>1. r \in Schedule BY DEF Schedule, TypeOK, BookingRow
  <2>2. Set(q, r) /\ r.row = None /\ r.kind = "confirm" /\ note' = note /\ ~IsRun(q)
    BY <1>1, JobTyped DEF BeginConfirm
  <2> HIDE DEF r
  <2>3. job' \in JobType /\ JobsOK' BY <2>1, <2>2, SetSchedule
  <2> QED BY <1>1, <2>3 DEF BeginConfirm, Counted, TypeOK, JobType
<1>2. ASSUME NEW minutes \in Minutes, BeginRemind(q, b, minutes) PROVE TypeInv'
  <2>1. booking[b].start \in Nat /\ minutes \in Int
    BY OutboxAssumption DEF TypeOK, BookingRow
  <2>2. job' \in JobType /\ JobsOK' /\ raced' \subseteq Bookings /\ lead' \in [Notes -> Nat]
    BY <1>2, <2>1, InsertingTypes, JobTyped DEF BeginRemind
  <2> QED BY <1>2, <2>2 DEF BeginRemind, TypeOK, JobType
<1>3. CASE WriteConfirm(q)
  <2>1. IsSchedule(q) /\ ~IsRun(q) /\ job[q] \in Schedule /\ note' = note
    BY <1>3, JobTyped DEF WriteConfirm, IsSchedule
  <2>2. job' \in JobType /\ JobsOK' /\ raced' \subseteq Bookings /\ lead' \in [Notes -> Nat]
    <3>1. CASE Inserting(q, "confirm", job[q].booking, job[q].start, Before)
      BY <2>1, <3>1, InsertingTypes, OutboxAssumption DEF Schedule
    <3>2. CASE Drop(q) /\ UNCHANGED <<raced, lead>>
      <4>1. \A n : Stored(n)' <=> Stored(n) BY <2>1 DEF Stored
      <4> QED BY <3>2, <4>1, DropJob DEF TypeOK
    <3> QED BY <1>3, <3>1, <3>2 DEF WriteConfirm
  <2> QED BY <1>3, <2>2 DEF WriteConfirm, TypeOK, JobType
<1> QED BY <1>1, <1>2, <1>3 DEF Reminds


\* A confirmation or a run of reminders that commits.
LEMMA CommitScheduleTypes ==
  ASSUME TypeInv, NEW q \in Jobs, CommitSchedule(q)
  PROVE  TypeInv'
<1> USE DEF TypeInv
<1> DEFINE b == job[q].booking
           n == job[q].row
<1>1. job[q] \in Schedule /\ IsSchedule(q) /\ Drop(q) /\ RowOK(q)
  BY JobTyped DEF CommitSchedule, JobsOK
<1>2. b \in Bookings /\ n \in Notes \union {None} /\ job[q].wait \in Nat
  BY <1>1 DEF Schedule
<1>3. booking' \in [Bookings -> BookingRow]
  BY <1>1, <1>2 DEF CommitSchedule, TypeOK, BookingRow
<1>4. CASE n = None
  <2>1. UNCHANGED <<note, sends, tries, excused>> BY <1>4 DEF CommitSchedule
  <2>2. \A m : Stored(m)' <=> Stored(m) BY <2>1 DEF Stored
  <2>3. job' \in JobType /\ JobsOK' BY <1>1, <2>2, DropJob
  <2> QED BY <1>3, <2>1, <2>3 DEF CommitSchedule, TypeOK, JobType
<1>5. CASE n # None
  <2> DEFINE row == [status |-> "QUEUED", booking |-> b, retries |-> 0, wait |-> job[q].wait]
  <2>1. Queue(n, row, 0) BY <1>5 DEF CommitSchedule
  <2>2. row \in Note /\ row.status = "QUEUED" BY <1>2 DEF Note, Due
  <2> HIDE DEF row
  <2>3. n \in Notes BY <1>2, <1>5
  <2>4. /\ note' \in [Notes -> Note] /\ sends' \in [Notes -> Nat]
        /\ tries' \in [Notes -> Nat] /\ excused' \subseteq Notes
    BY <2>1, <2>2, <2>3, QueueTyped
  <2>5. \A m \in Notes : Stored(m)' <=> Stored(m) \/ m = n
    BY <2>1, <2>2, <2>3 DEF Queue, Stored, TypeOK
  <2>6. job' \in JobType /\ JobsOK' BY <1>1, <2>5, DropJob
  <2> QED BY <1>3, <2>4, <2>6 DEF CommitSchedule, TypeOK, JobType
<1> QED BY <1>4, <1>5

LEMMA QueueRetryTypes ==
  ASSUME TypeInv, NEW n \in Notes, QueueRetry(n)
  PROVE  TypeInv'
<1> USE DEF TypeInv
<1> DEFINE row == [status |-> IF Failed(0) = "retry" THEN "RETRY_PENDING" ELSE "DEAD_LETTER",
                   booking |-> None, retries |-> IF Failed(0) = "retry" THEN 1 ELSE 0,
                   wait |-> Delay(0, Failed(0))]
<1>1. Delay(0, Failed(0)) \in Nat BY DelayTyped, FailedTyped
<1>2. row \in Note /\ row.status # "ABSENT" BY <1>1 DEF Note, Due
<1>3. Queue(n, row, 1) /\ n \in Unused BY DEF QueueRetry
<1> HIDE DEF row
<1>4. /\ note' \in [Notes -> Note] /\ sends' \in [Notes -> Nat]
      /\ tries' \in [Notes -> Nat] /\ excused' \subseteq Notes
  BY <1>2, <1>3, QueueTyped
<1>5. \A m \in Notes : Stored(m)' <=> Stored(m) \/ m = n
  BY <1>2, <1>3 DEF Queue, Stored, TypeOK
<1>6. job' = job BY DEF QueueRetry
<1>7. ASSUME NEW q \in Jobs PROVE RunOK(q)'
  BY <1>5, <1>6 DEF JobsOK, RunOK, IsRun
<1>8. ASSUME NEW q \in Jobs, IsSchedule(q) PROVE RowOK(q)'
  <2>1. RowOK(q) /\ job[q] \in Schedule BY <1>8, JobTyped DEF JobsOK
  <2>2. job[q].row # n BY <1>3, <1>8, UnusedIs
  <2>3. ASSUME NEW m \in Notes, m # n, NewRow(q, m) PROVE NewRow(q, m)'
    BY <1>5, <1>6, <2>3 DEF NewRow, Listed, IsRun, IsSchedule
  <2> QED BY <1>6, <2>1, <2>2, <2>3 DEF RowOK, Schedule, IsSchedule
<1>9. JobsOK' BY <1>6, <1>7, <1>8 DEF JobsOK, RowOK, IsSchedule
<1> QED BY <1>4, <1>6, <1>9 DEF QueueRetry, TypeOK

LEMMA RowsTyped ==
  ASSUME TypeOK
  PROVE  /\ \A n \in Notes : IsDue(n) => Stored(n)
         /\ \A N : Overlapped(N) \subseteq N
         /\ \A q \in Jobs : Touched(q) \subseteq Notes
BY DEF IsDue, Stored, Due, Overlapped, Touched

LEMMA ListDueTypes ==
  ASSUME TypeInv, NEW q \in Jobs, ListDue(q)
  PROVE  TypeInv'
<1> USE DEF TypeInv
<1> DEFINE due == {n \in Notes : IsDue(n)}
           r == NewRun(due, None)
<1>1. /\ Set(q, r) /\ note' = note /\ ~IsSchedule(q)
      /\ Excuse(Overlapped(due)) /\ UNCHANGED <<booking, upsets, moved, raced, lead>>
  BY JobTyped DEF ListDue
<1>2. due \in SUBSET Notes /\ \A n \in due : Stored(n) BY RowsTyped
<1> HIDE DEF due
<1>3. r \in Run /\ r.todo = due
      /\ \A n \in Notes : /\ r.did[n] = None
                          /\ n \in due => r.copy[n] # None
                          /\ n \notin due => r.copy[n] = None
  BY <1>2, NewRunIs
<1> HIDE DEF r
<1>4. job' \in JobType /\ JobsOK' BY <1>1, <1>2, <1>3, SetRun
<1>5. sends' \in [Notes -> Nat] /\ tries' \in [Notes -> Nat] /\ excused' \subseteq Notes
  BY <1>1, <1>2, ExcuseTyped, RowsTyped
<1> QED BY <1>1, <1>4, <1>5 DEF TypeOK, JobType

LEMMA ReportTypes ==
  ASSUME TypeInv, NEW q \in Jobs, NEW n \in Notes, NEW said \in {"sent", "failed", "dead"},
         Report(q, n, said)
  PROVE  TypeInv'
<1> USE DEF TypeInv
<1> DEFINE r == NewRun({n}, said)
           marked == Marking(r, n, Reported(r, n))
<1>1. /\ (Set(q, r) \/ Set(q, marked)) /\ note' = note /\ ~IsSchedule(q) /\ Stored(n)
      /\ Excuse(Overlapped({n}) \union (IF said = "sent" THEN {} ELSE {n}))
      /\ UNCHANGED <<booking, moved, raced, lead>> /\ upsets' \in Nat
  BY JobTyped DEF Report, Upset, TypeOK
<1>2. r \in Run /\ r.todo = {n} /\ r.said = said
      /\ \A m \in Notes : /\ r.did[m] = None
                          /\ m = n => r.copy[m] # None
                          /\ m # n => r.copy[m] = None
  <2>1. {n} \in SUBSET Notes /\ \A m \in {n} : Stored(m) BY <1>1
  <2> QED BY <2>1, NewRunIs
<1> HIDE DEF r
<1>3. Reported(r, n) \in Outcomes /\
      (Reported(r, n) = "retry" => r.copy[n].retries < MaxRetries)
  BY <1>2, ReportedTyped, NoneAssumption DEF Outcomes
<1>4. /\ marked \in Run /\ marked.copy = r.copy /\ marked.todo = r.todo \ {n}
      /\ marked.did = [r.did EXCEPT ![n] = IF Stored(n) THEN Reported(r, n) ELSE @]
  BY <1>2, <1>3, MarkingIs
<1> HIDE DEF marked
<1>5. \A m \in Notes \ {n} : marked.did[m] = None
  BY <1>2, <1>4 DEF Run
<1>6. job' \in JobType /\ JobsOK'
  <2>1. CASE Set(q, r) BY <1>1, <1>2, <2>1, SetRun
  <2>2. CASE Set(q, marked)
    <3>1. \A m \in Notes :
            /\ m \in marked.todo => marked.copy[m] # None /\ marked.did[m] = None
            /\ marked.did[m] # None => marked.copy[m] # None /\ Stored(m)
            /\ marked.copy[m] # None => Stored(m) \/ Listed(q, m)
      BY <1>1, <1>2, <1>4, <1>5
    <3> QED BY <1>1, <1>4, <2>2, <3>1, SetRun
  <2> QED BY <1>1, <2>1, <2>2
<1>7. sends' \in [Notes -> Nat] /\ tries' \in [Notes -> Nat] /\ excused' \subseteq Notes
  BY <1>1, ExcuseTyped, RowsTyped
<1> QED BY <1>1, <1>6, <1>7 DEF TypeOK, JobType

LEMMA MarkTypes ==
  ASSUME TypeInv, NEW q \in Jobs, NEW n \in Notes,
         MarkReported(q, n) \/ \E ok \in BOOLEAN : Send(q, n, ok)
  PROVE  TypeInv'
<1> USE DEF TypeInv
<1>1. CASE MarkReported(q, n)
  <2>1. /\ IsRun(q) /\ n \in job[q].todo /\ job[q].said # None
        /\ Set(q, Marking(job[q], n, Reported(job[q], n)))
        /\ UNCHANGED <<booking, note, upsets, excused, moved, raced, lead, sends, tries>>
    BY <1>1 DEF MarkReported, Mark
  <2>2. job[q] \in Run /\ job[q].copy[n] # None
    BY <2>1, JobTyped DEF JobsOK, RunOK
  <2>3. job' \in JobType /\ JobsOK' BY <2>1, <2>2, ReportedTyped, MarkJobs
  <2> QED BY <2>1, <2>3 DEF TypeOK, JobType
<1>2. ASSUME NEW ok \in BOOLEAN, Send(q, n, ok) PROVE TypeInv'
  <2>1. /\ IsRun(q) /\ n \in job[q].todo
        /\ Set(q, Marking(job[q], n, SendOutcome(q, n, ok)))
        /\ UNCHANGED <<booking, note, upsets, excused, moved, raced, lead>>
    BY <1>2 DEF Send, Mark
  <2>2. job' \in JobType /\ JobsOK' BY <2>1, SendOutcomeTyped, MarkJobs
  <2>3. sends' \in [Notes -> Nat] /\ tries' \in [Notes -> Nat]
    BY <1>2 DEF Send, TypeOK
  <2> QED BY <2>1, <2>2, <2>3 DEF TypeOK, JobType
<1> QED BY <1>1, <1>2

LEMMA RolledBackTypes ==
  ASSUME TypeInv, NEW q \in Jobs, RolledBack(q), upsets' \in Nat
  PROVE  TypeInv'
<1> USE DEF TypeInv
<1>1. /\ Drop(q) /\ Excuse(Touched(q)) /\ UNCHANGED <<booking, note, moved, raced>>
      /\ lead' \in [Notes -> Nat]
  BY DEF RolledBack, TypeOK
<1>2. \A n : Stored(n)' <=> Stored(n) BY <1>1 DEF Stored
<1>3. job' \in JobType /\ JobsOK' BY <1>1, <1>2, DropJob
<1>4. sends' \in [Notes -> Nat] /\ tries' \in [Notes -> Nat] /\ excused' \subseteq Notes
  BY <1>1, ExcuseTyped, RowsTyped
<1> QED BY <1>1, <1>3, <1>4 DEF TypeOK, JobType

\* What a commit writes over the rows that its run has flushed.
LEMMA CommitWrites ==
  ASSUME TypeInv, NEW q \in Jobs, CommitRun(q), ~job[q].lost, NEW n \in Notes
  PROVE  /\ note'[n] \in Note
         /\ ~Locks(q, n) => note'[n] = note[n]
         /\ Locks(q, n) =>
              /\ Listed(q, n) /\ Stored(n) /\ Stored(n)'
              /\ job[q].did[n] \in Outcomes /\ job[q].copy[n] \in Copy
              /\ note'[n].booking = note[n].booking
              /\ note'[n].status =
                   IF NewStatus(job[q].did[n]) = job[q].copy[n].status THEN note[n].status
                   ELSE NewStatus(job[q].did[n])
              /\ note'[n].retries = IF job[q].did[n] = "retry" THEN job[q].copy[n].retries + 1
                                    ELSE note[n].retries
              /\ note'[n].wait = IF job[q].did[n] = "retry" THEN job[q].wait[n]
                                 ELSE note[n].wait
<1>1. IsRun(q) /\ job[q] \in Run /\ RunOK(q) /\ note[n] \in Note
  BY JobTyped DEF CommitRun, TypeInv, JobsOK, TypeOK
<1>2. note'[n] = IF job[q].did[n] = None THEN note[n]
                 ELSE Marked(note[n], job[q].copy[n], job[q].did[n], job[q].wait[n])
  BY DEF CommitRun
<1>3. CASE ~Locks(q, n) BY <1>1, <1>2, <1>3 DEF Locks
<1>4. CASE Locks(q, n)
  <2>1. job[q].did[n] # None BY <1>4 DEF Locks
  <2>2. Stored(n) /\ Listed(q, n) BY <1>1, <2>1 DEF RunOK, Listed
  <2>3. /\ job[q].did[n] \in Outcomes /\ job[q].copy[n] \in Copy /\ job[q].wait[n] \in Nat
        /\ note[n].status # "ABSENT"
    BY <1>1, <2>1, <2>2 DEF Run, Stored, Listed
  <2>4. note'[n] = Marked(note[n], job[q].copy[n], job[q].did[n], job[q].wait[n])
    BY <1>2, <2>1
  <2> QED BY <1>1, <1>4, <2>2, <2>3, <2>4, MarkedTyped DEF Stored
<1> QED BY <1>3, <1>4

LEMMA CommitRunTypes ==
  ASSUME TypeInv, NEW q \in Jobs, CommitRun(q)
  PROVE  TypeInv'
<1>1. CASE job[q].lost
  <2>1. RolledBack(q) /\ upsets' \in Nat BY <1>1 DEF CommitRun, TypeInv, TypeOK
  <2> QED BY <2>1, RolledBackTypes
<1>2. CASE ~job[q].lost
  <2>1. \A n \in Notes : note'[n] \in Note /\ (Stored(n)' <=> Stored(n))
    BY <1>2, CommitWrites DEF Stored
  <2>2. note' \in [Notes -> Note] BY <1>2, <2>1 DEF CommitRun
  <2>3. job' \in JobType /\ JobsOK' BY <1>2, <2>1, DropJob DEF CommitRun
  <2> QED BY <1>2, <2>2, <2>3 DEF CommitRun, TypeInv, TypeOK, JobType
<1> QED BY <1>1, <1>2


\* The run that loses a deadlock, the one that goes on, and its row.
LEMMA VictimIs ==
  ASSUME TypeInv, NEW q \in Jobs, Victim(q)
  PROVE  \E p \in Jobs \ {q}, n \in Notes :
           /\ job' \in JobType /\ note' = note
           /\ IsRun(q) /\ IsRun(p) /\ Locks(q, n) /\ n \in job[p].todo
           /\ job'[q] = NoJob
           /\ \A o \in Jobs \ {p, q} : job'[o] = job[o]
           /\ job'[p].kind = "run" /\ job'[p].copy = job[p].copy
           /\ job'[p].said = job[p].said /\ job'[p].todo = job[p].todo \ {n}
           /\ \A m \in Notes \ {n} : job'[p].did[m] = job[p].did[m]
           /\ job'[p].did[n] # None => Stored(n)
           /\ Excuse(Touched(q)) /\ UNCHANGED <<booking, upsets, moved, raced, lead>>
<1> USE DEF TypeInv
<1>1. PICK p \in Jobs, m \in Notes, n \in Notes, ok \in BOOLEAN :
         /\ Blocked(q, p, m) /\ Blocked(p, q, n)
         /\ job' = [job EXCEPT ![q] = NoJob, ![p] = Marking(job[p], n, SendOutcome(p, n, ok))]
         /\ Excuse(Touched(q))
         /\ UNCHANGED <<booking, note, upsets, moved, raced, lead>>
  BY DEF Victim
<1> DEFINE r == Marking(job[p], n, SendOutcome(p, n, ok))
<1>2. p # q /\ IsRun(p) /\ IsRun(q) /\ n \in job[p].todo /\ Locks(q, n)
  BY <1>1 DEF Blocked, Locks
<1>3. job[p] \in Run /\ job[p].kind = "run" /\ RunOK(p)
  BY <1>2, JobTyped DEF JobsOK, IsRun
<1>4. job[p].copy[n] # None /\ job[p].did[n] = None BY <1>2, <1>3 DEF RunOK
<1>5. /\ r \in Run /\ r.kind = "run" /\ r.copy = job[p].copy /\ r.said = job[p].said
      /\ r.todo = job[p].todo \ {n}
      /\ r.did = [job[p].did EXCEPT
                    ![n] = IF Stored(n) THEN SendOutcome(p, n, ok) ELSE @]
  BY <1>2, <1>3, <1>4, SendOutcomeTyped, MarkingIs
<1> HIDE DEF r
<1>6. /\ \A k \in Notes \ {n} : r.did[k] = job[p].did[k]
      /\ r.did[n] # None => Stored(n)
  BY <1>3, <1>4, <1>5 DEF Run
<1>7. job' = [job EXCEPT ![q] = NoJob, ![p] = r] BY <1>1 DEF r
<1>8. /\ job' \in JobType /\ job'[q] = NoJob /\ job'[p] = r
      /\ \A o \in Jobs \ {p, q} : job'[o] = job[o]
  BY <1>2, <1>5, <1>7 DEF TypeOK, JobType
<1> QED BY <1>1, <1>2, <1>5, <1>6, <1>8

LEMMA VictimTypes ==
  ASSUME TypeInv, NEW q \in Jobs, Victim(q)
  PROVE  TypeInv'
<1> USE DEF TypeInv
<1>1. PICK p \in Jobs \ {q}, n \in Notes :
         /\ job' \in JobType /\ note' = note
         /\ IsRun(q) /\ IsRun(p) /\ Locks(q, n) /\ n \in job[p].todo
         /\ job'[q] = NoJob
         /\ \A o \in Jobs \ {p, q} : job'[o] = job[o]
         /\ job'[p].kind = "run" /\ job'[p].copy = job[p].copy
         /\ job'[p].said = job[p].said /\ job'[p].todo = job[p].todo \ {n}
         /\ \A m \in Notes \ {n} : job'[p].did[m] = job[p].did[m]
         /\ job'[p].did[n] # None => Stored(n)
         /\ Excuse(Touched(q)) /\ UNCHANGED <<booking, upsets, moved, raced, lead>>
  BY VictimIs
<1>2. /\ ~IsRun(q)' /\ ~IsSchedule(q)' /\ IsRun(p)' /\ ~IsSchedule(p)' /\ ~IsSchedule(p)
      /\ \A o \in Jobs \ {p, q} : /\ IsRun(o)' <=> IsRun(o)
                                  /\ IsSchedule(o)' <=> IsSchedule(o)
  BY <1>1 DEF IsRun, IsSchedule, NoJob
<1>3. \A m : Stored(m)' <=> Stored(m) BY <1>1 DEF Stored
<1>4. \A o \in Jobs, m \in Notes : Listed(o, m)' => Listed(o, m)
  BY <1>1, <1>2 DEF Listed
<1>5. ASSUME NEW o \in Jobs PROVE RunOK(o)'
  <2>1. RunOK(o) BY DEF JobsOK
  <2>2. CASE o = p
    <3>1. RunOK(p) BY DEF JobsOK
    <3>2. job[p].copy[n] # None /\ job[p].did[n] = None BY <1>1, <3>1 DEF RunOK
    <3>3. ASSUME NEW m \in Notes
          PROVE  /\ m \in job'[p].todo => job'[p].copy[m] # None /\ job'[p].did[m] = None
                 /\ job'[p].did[m] # None => job'[p].copy[m] # None /\ Stored(m)'
      <4>1. CASE m = n BY <1>1, <1>3, <3>2, <4>1
      <4>2. CASE m # n BY <1>1, <1>3, <3>1, <4>2 DEF RunOK
      <4> QED BY <4>1, <4>2
    <3> QED BY <2>2, <3>3 DEF RunOK
  <2>3. CASE o = q BY <1>2, <2>3 DEF RunOK
  <2>4. CASE o \notin {p, q}
    BY <1>1, <1>2, <1>3, <2>1, <2>4 DEF RunOK
  <2> QED BY <2>2, <2>3, <2>4
<1>6. ASSUME NEW o \in Jobs, IsSchedule(o)' PROVE RowOK(o)'
  <2>1. o \notin {p, q} /\ IsSchedule(o) /\ job'[o] = job[o] /\ RowOK(o) /\ job[o] \in Schedule
    BY <1>1, <1>2, <1>6, JobTyped DEF JobsOK
  <2>2. ASSUME NEW m \in Notes, NewRow(o, m) PROVE NewRow(o, m)'
    BY <1>1, <1>2, <1>3, <1>4, <2>2 DEF NewRow
  <2> QED BY <2>1, <2>2 DEF RowOK, Schedule
<1>7. sends' \in [Notes -> Nat] /\ tries' \in [Notes -> Nat] /\ excused' \subseteq Notes
  BY <1>1, ExcuseTyped, RowsTyped
<1>8. JobsOK' BY <1>5, <1>6 DEF JobsOK, RowOK
<1> QED BY <1>1, <1>7, <1>8 DEF TypeOK, JobType

\* Time passes for bookings, rows and transactions alike.
LEMMA TickIs ==
  ASSUME TypeInv, Tick
  PROVE  /\ job' \in JobType /\ booking' \in [Bookings -> BookingRow]
         /\ note' \in [Notes -> Note]
         /\ \A b \in Bookings : /\ booking'[b].status = booking[b].status
                                /\ booking'[b].start = Max0(booking[b].start - 1)
         /\ \A n \in Notes : /\ note'[n].status = note[n].status
                             /\ note'[n].booking = note[n].booking
                             /\ note'[n].retries = note[n].retries
                             /\ note'[n].wait = Max0(note[n].wait - 1)
         /\ \A q \in Jobs : job'[q] = TickJob(job[q])
<1> USE DEF TypeInv, TypeOK
<1>1. \A b \in Bookings : Max0(booking[b].start - 1) \in Nat
  BY Max0Typed DEF BookingRow
<1>2. \A n \in Notes : Max0(note[n].wait - 1) \in Nat
  BY Max0Typed DEF Note
<1>3. booking' \in [Bookings -> BookingRow]
      /\ \A b \in Bookings : /\ booking'[b].status = booking[b].status
                             /\ booking'[b].start = Max0(booking[b].start - 1)
  BY <1>1 DEF Tick, BookingRow
<1>4. note' \in [Notes -> Note]
      /\ \A n \in Notes : /\ note'[n].status = note[n].status
                          /\ note'[n].booking = note[n].booking
                          /\ note'[n].retries = note[n].retries
                          /\ note'[n].wait = Max0(note[n].wait - 1)
  BY <1>2 DEF Tick, Note
<1>5. /\ \A q \in Jobs : job'[q] = TickJob(job[q])
      /\ job' \in JobType
  BY TickJobTyped DEF Tick, JobType
<1> QED BY <1>3, <1>4, <1>5

LEMMA TickTypes ==
  ASSUME TypeInv, Tick
  PROVE  TypeInv'
<1> USE DEF TypeInv
<1>1. \A n \in Notes : Stored(n)' <=> Stored(n) BY TickIs DEF Stored
<1>2. ASSUME NEW q \in Jobs
      PROVE  /\ job'[q].kind = job[q].kind
             /\ IsRun(q)' <=> IsRun(q)
             /\ IsSchedule(q)' <=> IsSchedule(q)
             /\ IsRun(q) => /\ job'[q].copy = job[q].copy /\ job'[q].did = job[q].did
                            /\ job'[q].todo = job[q].todo
             /\ IsSchedule(q) => /\ job'[q].row = job[q].row /\ job'[q].ready = job[q].ready
  BY TickIs, TickJobTyped DEF IsRun, IsSchedule
<1>3. \A q \in Jobs, n \in Notes : Listed(q, n)' <=> Listed(q, n)
  BY <1>2 DEF Listed
<1>4. ASSUME NEW q \in Jobs PROVE RunOK(q)'
  <2>1. RunOK(q) BY DEF JobsOK
  <2> QED BY <1>1, <1>2, <2>1 DEF RunOK
<1>5. ASSUME NEW q \in Jobs, IsSchedule(q) PROVE RowOK(q)'
  <2>1. RowOK(q) /\ job[q] \in Schedule BY <1>5, JobTyped DEF JobsOK
  <2>2. ASSUME NEW n \in Notes, NewRow(q, n) PROVE NewRow(q, n)'
    BY <1>1, <1>2, <1>3, <2>2 DEF NewRow
  <2> QED BY <1>2, <1>5, <2>1, <2>2 DEF RowOK, Schedule
<1>6. JobsOK' BY <1>2, <1>4, <1>5 DEF JobsOK, RowOK
<1> QED BY <1>6, TickIs DEF Tick, Counted, TypeOK, JobType

LEMMA TypesStep ==
  ASSUME TypeInv, [Next]_vars
  PROVE  TypeInv'
<1>1. ASSUME NEW q \in Jobs, Crash(q) PROVE TypeInv'
  <2>1. RolledBack(q) /\ upsets' \in Nat
    BY <1>1 DEF Crash, Upset, TypeInv, TypeOK
  <2> QED BY <2>1, RolledBackTypes
<1>2. ASSUME NEW q \in Jobs, Work(q) PROVE TypeInv'
  <2>1. CASE WriteConfirm(q)
    <3>1. job[q].booking \in Bookings
      BY <2>1, JobTyped DEF WriteConfirm, TypeInv, IsSchedule, Schedule
    <3> QED BY <2>1, <3>1, ScheduleTypes
  <2> QED BY <1>2, <2>1, CommitScheduleTypes, MarkTypes, CommitRunTypes, VictimTypes DEF Work
<1>3. CASE UNCHANGED vars
  <2>1. TypeOK' BY <1>3 DEF vars, TypeInv, TypeOK
  <2>2. JobsOK' BY <1>3 DEF vars, TypeInv, JobsOK, RunOK, RowOK, NewRow, Listed, Stored,
                            IsRun, IsSchedule
  <2> QED BY <2>1, <2>2 DEF TypeInv
<1> QED
  BY <1>1, <1>2, <1>3, BookingTypes, ScheduleTypes, QueueRetryTypes, ListDueTypes,
     ReportTypes, TickTypes DEF Next, Reminds

LEMMA TypesInit ==
  ASSUME Init
  PROVE  TypeInv
<1>1. booking \in [Bookings -> BookingRow]
  <2>1. PICK start \in [Bookings -> Starts] :
          booking = [b \in Bookings |-> [status |-> "PENDING_REVIEW", start |-> start[b]]]
    BY DEF Init
  <2>2. \A b \in Bookings : start[b] \in Nat BY OutboxAssumption
  <2> QED BY <2>1, <2>2 DEF BookingRow
<1>2. note \in [Notes -> Note] /\ job \in JobType
  BY DEF Init, Note, NoNote, JobType
<1>3. TypeOK
  BY <1>1, <1>2 DEF Init, TypeOK, JobType
<1>4. JobsOK
  BY DEF Init, JobsOK, RunOK, RowOK, IsRun, IsSchedule, NoJob
<1> QED BY <1>3, <1>4 DEF TypeInv

THEOREM TypeInvariant == Spec => []TypeInv
BY TypesInit, TypesStep, PTL DEF Spec

\* Bookings, rows and transactions keep their types through every commit, crash
\* and lost deadlock.
THEOREM TypeCorrect == Spec => []TypeOK
<1>1. TypeInv => TypeOK BY DEF TypeInv
<1> QED BY <1>1, TypeInvariant, PTL


-----------------------------------------------------------------------------
(* Deliveries *)

\* What the one transaction that has listed a row that is not excused knows of it.
ListedOK(q, n) ==
  /\ job[q].said \in {None, "sent"}
  /\ Stored(n) => /\ job[q].copy[n].status = note[n].status
                  /\ job[q].copy[n].retries = note[n].retries
  /\ job[q].said = None => job[q].copy[n].status \in Due
  /\ job[q].said = None /\ n \in job[q].todo =>
       sends[n] = 0 /\ (Stored(n) => note[n].wait = 0)
  /\ job[q].did[n] \in {"retry", "dead"} => job[q].said = None /\ sends[n] = 0
  /\ job[q].did[n] = "retry" =>
       job[q].copy[n].retries < MaxRetries /\ tries[n] = job[q].copy[n].retries + 1
  /\ job[q].did[n] = "dead" =>
       job[q].copy[n].retries = MaxRetries /\ tries[n] = MaxRetries + 1
  /\ job[q].did[n] = "sent" /\ job[q].said = None =>
       sends[n] = 1 /\ tries[n] = job[q].copy[n].retries + 1
  /\ job[q].said # None /\ note[n].status \in Due =>
       sends[n] = 0 /\ tries[n] = note[n].retries

\* What was sent is stored as sent or will be at the commit; a row still to be sent
\* has been tried once for each retry counted, and a row given up once more.
NoteOK(n) == n \notin excused =>
  /\ \A p, q \in Jobs : Listed(p, n) /\ Listed(q, n) => p = q
  /\ \A q \in Jobs : Listed(q, n) => ListedOK(q, n)
  /\ \/ sends[n] = 0
     \/ sends[n] = 1 /\ \/ ~Stored(n) \/ note[n].status = "SENT"
                        \/ \E q \in Jobs : Listed(q, n) /\ job[q].did[n] = "sent"
  /\ note[n].status = "DEAD_LETTER" => tries[n] = MaxRetries + 1
  /\ note[n].status \in Due =>
       /\ note[n].retries <= MaxRetries
       /\ tries[n] = note[n].retries \/ \E q \in Jobs : Listed(q, n) /\ job[q].did[n] # None

DeliveryInv == TypeInv /\ \A n \in Notes : NoteOK(n)

\* A transaction that an action says nothing new of, as far as a row goes.
KeptLister(q, n) ==
  /\ Listed(q, n)' => /\ Listed(q, n) /\ job'[q].copy[n] = job[q].copy[n]
                      /\ job'[q].said = job[q].said /\ job'[q].did[n] = job[q].did[n]
                      /\ n \in job'[q].todo => n \in job[q].todo
  /\ Listed(q, n) /\ job[q].did[n] # None => Listed(q, n)'

LEMMA NoteKept ==
  ASSUME DeliveryInv, NEW n \in Notes,
         note'[n].status = note[n].status, note'[n].retries = note[n].retries,
         note[n].wait = 0 => note'[n].wait = 0,
         n \notin excused' => n \notin excused /\ sends'[n] = sends[n] /\ tries'[n] = tries[n],
         n \notin excused' => \A q \in Jobs : KeptLister(q, n)
  PROVE  NoteOK(n)'
<1> SUFFICES ASSUME n \notin excused' PROVE NoteOK(n)'
  BY DEF NoteOK
<1>1. NoteOK(n) /\ n \notin excused /\ (Stored(n)' <=> Stored(n))
  BY DEF DeliveryInv, Stored
<1>2. ASSUME NEW q \in Jobs, Listed(q, n)' PROVE ListedOK(q, n)'
  <2>1. Listed(q, n) /\ ListedOK(q, n) BY <1>1, <1>2 DEF NoteOK, KeptLister
  <2> QED BY <1>1, <1>2, <2>1 DEF ListedOK, KeptLister
<1>3. \A p, q \in Jobs : Listed(p, n)' /\ Listed(q, n)' => p = q
  BY <1>1 DEF NoteOK, KeptLister
<1>4. \A q \in Jobs : Listed(q, n) /\ job[q].did[n] # None =>
        Listed(q, n)' /\ job'[q].did[n] = job[q].did[n]
  BY DEF KeptLister
<1>5. \/ sends'[n] = 0
      \/ sends'[n] = 1 /\ \/ ~Stored(n)' \/ note'[n].status = "SENT"
                          \/ \E q \in Jobs : Listed(q, n)' /\ job'[q].did[n] = "sent"
  BY <1>1, <1>4, NoneAssumption DEF NoteOK, Outcomes
<1>6. note'[n].status \in Due =>
        /\ note'[n].retries <= MaxRetries
        /\ tries'[n] = note'[n].retries
           \/ \E q \in Jobs : Listed(q, n)' /\ job'[q].did[n] # None
  BY <1>1, <1>4 DEF NoteOK
<1> QED BY <1>1, <1>2, <1>3, <1>5, <1>6 DEF NoteOK

LEMMA SetIs ==
  ASSUME TypeOK, NEW q \in Jobs, NEW r, Set(q, r)
  PROVE  job'[q] = r /\ \A p \in Jobs \ {q} : job'[p] = job[p]
BY DEF Set, TypeOK

LEMMA SameJob ==
  ASSUME NEW q \in Jobs, job'[q] = job[q], NEW n \in Notes
  PROVE  KeptLister(q, n)
BY DEF KeptLister, Listed, IsRun

LEMMA NoLister ==
  ASSUME NEW q \in Jobs, ~IsRun(q), ~IsRun(q)', NEW n \in Notes
  PROVE  KeptLister(q, n)
BY DEF KeptLister, Listed

\* A row that nobody listed, stored anew.
LEMMA NewNote ==
  ASSUME DeliveryInv, NEW n \in Notes, NEW row \in Note, NEW tried \in Nat,
         Queue(n, row, tried), \A q \in Jobs : ~Listed(q, n)',
         row.status \in Due => tried = row.retries /\ row.retries <= MaxRetries,
         row.status = "DEAD_LETTER" => tried = MaxRetries + 1
  PROVE  NoteOK(n)'
BY DEF DeliveryInv, TypeInv, TypeOK, Queue, NoteOK

LEMMA QueueKept ==
  ASSUME TypeOK, NEW n \in Notes, NEW row, NEW tried, Queue(n, row, tried),
         NEW m \in Notes \ {n}
  PROVE  /\ note'[m] = note[m] /\ sends'[m] = sends[m] /\ tries'[m] = tries[m]
         /\ m \in excused' <=> m \in excused
BY DEF Queue, TypeOK

\* Excused rows count nothing.
LEMMA ExcuseKept ==
  ASSUME TypeOK, NEW N, Excuse(N), NEW n \in Notes, n \notin excused'
  PROVE  n \notin excused /\ n \notin N /\ sends'[n] = sends[n] /\ tries'[n] = tries[n]
BY DEF Excuse, TypeOK

LEMMA DeliveryBooking ==
  ASSUME DeliveryInv, NEW b \in Bookings, BookingNext(b), NEW n \in Notes
  PROVE  NoteOK(n)'
<1> USE DEF DeliveryInv, TypeInv
<1>1. CASE \E t \in Starts : Reschedule(b, t)
  BY <1>1, NoteKept, SameJob DEF Reschedule
<1>2. CASE Close(b)
  BY <1>2, NoteKept, SameJob DEF Close
<1>3. CASE Clear(b)
  <2>1. PICK lost \in SUBSET {q \in Jobs : IsRun(q) /\ job[q].said = None} :
          job' = [q \in Jobs |-> IF q \in lost THEN [job[q] EXCEPT !.lost = TRUE]
                                 ELSE job[q]]
    BY <1>3 DEF Clear
  <2>2. ASSUME NEW q \in Jobs
        PROVE  /\ Listed(q, n)' <=> Listed(q, n)
               /\ Listed(q, n) =>
                    /\ job'[q].copy = job[q].copy /\ job'[q].did = job[q].did
                    /\ job'[q].said = job[q].said /\ job'[q].todo = job[q].todo
    <3>1. CASE q \in lost
      <4>1. job[q] \in Run /\ IsRun(q) BY <3>1, JobTyped
      <4>2. job'[q] = [job[q] EXCEPT !.lost = TRUE] BY <2>1, <3>1
      <4> QED BY <4>1, <4>2 DEF Run, IsRun, Listed
    <3>2. CASE q \notin lost
      <4>1. job'[q] = job[q] BY <2>1, <3>2
      <4> QED BY <4>1 DEF IsRun, Listed
    <3> QED BY <3>1, <3>2
  <2>3. \A q \in Jobs : KeptLister(q, n) BY <2>2 DEF KeptLister
  <2>4. UNCHANGED <<sends, tries, excused>> BY <1>3 DEF Clear
  <2>5. CASE note[n].booking # b
    <3>1. note'[n] = note[n] BY <1>3, <2>5 DEF Clear
    <3> QED BY <2>3, <2>4, <3>1, NoteKept
  <2>6. CASE note[n].booking = b
    <3>1. note'[n] = NoNote BY <1>3, <2>6 DEF Clear
    <3>2. ~Stored(n)' /\ note'[n].status \notin Due /\ note'[n].status # "DEAD_LETTER"
      BY <3>1 DEF Stored, NoNote, Due
    <3>3. NoteOK(n) OBVIOUS
    <3>4. ASSUME NEW q \in Jobs, Listed(q, n)', n \notin excused PROVE ListedOK(q, n)'
      <4>1. Listed(q, n) /\ ListedOK(q, n) BY <2>2, <3>3, <3>4 DEF NoteOK
      <4> QED BY <2>2, <2>4, <3>2, <4>1 DEF ListedOK
    <3>5. n \notin excused => \A p, q \in Jobs : Listed(p, n)' /\ Listed(q, n)' => p = q
      BY <2>2, <3>3 DEF NoteOK
    <3>6. n \notin excused => sends'[n] = 0 \/ sends'[n] = 1
      BY <2>4, <3>3 DEF NoteOK
    <3> QED BY <2>4, <3>2, <3>4, <3>5, <3>6 DEF NoteOK
  <2> QED BY <2>5, <2>6
<1> QED BY <1>1, <1>2, <1>3 DEF BookingNext


\* A transaction that schedules reminders lists nothing.
LEMMA DeliverySchedule ==
  ASSUME DeliveryInv, NEW q \in Jobs, NEW r, Set(q, r), ~IsRun(q), r.kind # "run",
         NEW n \in Notes, UNCHANGED <<note, sends, tries, excused>>
  PROVE  NoteOK(n)'
<1>1. job'[q] = r /\ \A p \in Jobs \ {q} : job'[p] = job[p]
  BY SetIs DEF DeliveryInv, TypeInv
<1>2. KeptLister(q, n) BY <1>1, NoLister DEF IsRun
<1>3. \A p \in Jobs : KeptLister(p, n) BY <1>1, <1>2, SameJob
<1> QED BY <1>3, NoteKept

LEMMA DeliveryInserting ==
  ASSUME DeliveryInv, NEW q \in Jobs, NEW kind \in {"confirm", "remind"}, NEW b, NEW start,
         NEW minutes, Inserting(q, kind, b, start, minutes), ~IsRun(q),
         NEW n \in Notes, UNCHANGED <<note, sends, tries, excused>>
  PROVE  NoteOK(n)'
<1>1. PICK m \in (IF Reminded(b) THEN {None} ELSE Unused) :
         Set(q, [kind |-> kind, booking |-> b, ready |-> TRUE, row |-> m,
                 start |-> 0, wait |-> IF m = None THEN 0 ELSE SendIn(start, minutes)])
  BY DEF Inserting
<1> DEFINE r == [kind |-> kind, booking |-> b, ready |-> TRUE, row |-> m,
                 start |-> 0, wait |-> IF m = None THEN 0 ELSE SendIn(start, minutes)]
<1>2. Set(q, r) /\ r.kind # "run" BY <1>1
<1> HIDE DEF r
<1> QED BY <1>2, DeliverySchedule

LEMMA DeliveryBegin ==
  ASSUME DeliveryInv, NEW q \in Jobs, NEW b \in Bookings,
         BeginConfirm(q, b) \/ Reminds(q, b) \/ WriteConfirm(q), NEW n \in Notes
  PROVE  NoteOK(n)'
<1> USE DEF DeliveryInv, TypeInv
<1>1. CASE BeginConfirm(q, b)
  <2> DEFINE r == [kind |-> "confirm", booking |-> b, ready |-> FALSE, row |-> None,
                   start |-> booking[b].start, wait |-> 0]
  <2>1. Set(q, r) /\ r.kind # "run" /\ ~IsRun(q)
        /\ UNCHANGED <<note, sends, tries, excused>>
    BY <1>1, JobTyped DEF BeginConfirm, Counted
  <2> HIDE DEF r
  <2> QED BY <2>1, DeliverySchedule
<1>2. CASE Reminds(q, b)
  BY <1>2, DeliveryInserting, JobTyped DEF BeginRemind, Reminds
<1>3. CASE WriteConfirm(q)
  <2>1. ~IsRun(q) /\ UNCHANGED <<note, sends, tries, excused>>
    BY <1>3 DEF WriteConfirm, IsRun
  <2>2. CASE Inserting(q, "confirm", job[q].booking, job[q].start, Before)
    BY <2>1, <2>2, DeliveryInserting
  <2>3. CASE Drop(q)
    BY <2>1, <2>3, DeliverySchedule DEF Drop, NoJob
  <2> QED BY <1>3, <2>2, <2>3 DEF WriteConfirm
<1> QED BY <1>1, <1>2, <1>3

LEMMA DeliveryCommitSchedule ==
  ASSUME DeliveryInv, NEW q \in Jobs, CommitSchedule(q), NEW n \in Notes
  PROVE  NoteOK(n)'
<1> USE DEF DeliveryInv, TypeInv
<1> DEFINE m == job[q].row
           row == [status |-> "QUEUED", booking |-> job[q].booking, retries |-> 0,
                   wait |-> job[q].wait]
<1>1. job[q] \in Schedule /\ IsSchedule(q) /\ ~IsRun(q) /\ Drop(q) /\ RowOK(q)
  BY JobTyped DEF CommitSchedule, JobsOK
<1>2. /\ job'[q] = NoJob /\ \A p \in Jobs \ {q} : job'[p] = job[p]
      /\ ~IsRun(q)'
  BY <1>1, SetIs DEF Drop, IsRun, NoJob
<1>3. \A p \in Jobs : KeptLister(p, n) BY <1>1, <1>2, SameJob, NoLister
<1>4. CASE m = None
  BY <1>3, <1>4, NoteKept DEF CommitSchedule
<1>5. CASE m # None
  <2>1. Queue(m, row, 0) BY <1>5 DEF CommitSchedule
  <2>2. /\ row \in Note /\ row.status = "QUEUED" /\ row.retries = 0
        /\ m \in Notes
    BY <1>1, <1>5 DEF Schedule, Note, Due
  <2> HIDE DEF row
  <2>3. CASE n # m
    BY <1>3, <2>1, <2>2, <2>3, QueueKept, NoteKept
  <2>4. CASE n = m
    <3>1. \A p \in Jobs : ~Listed(p, n)' BY <1>1, <1>3, <1>5, <2>4 DEF RowOK, NewRow, KeptLister
    <3> QED BY <2>1, <2>2, <2>4, <3>1, NewNote, OutboxAssumption
  <2> QED BY <2>3, <2>4
<1> QED BY <1>4, <1>5

LEMMA DeliveryQueueRetry ==
  ASSUME DeliveryInv, NEW m \in Notes, QueueRetry(m), NEW n \in Notes
  PROVE  NoteOK(n)'
<1> USE DEF DeliveryInv, TypeInv
<1> DEFINE row == [status |-> IF Failed(0) = "retry" THEN "RETRY_PENDING" ELSE "DEAD_LETTER",
                   booking |-> None, retries |-> IF Failed(0) = "retry" THEN 1 ELSE 0,
                   wait |-> Delay(0, Failed(0))]
<1>1. Queue(m, row, 1) /\ m \in Unused /\ job' = job BY DEF QueueRetry
<1>2. /\ Failed(0) = "retry" => 0 < MaxRetries
      /\ Failed(0) # "retry" => MaxRetries = 0
  BY FailedTyped, OutboxAssumption DEF Outcomes
<1>3. Delay(0, Failed(0)) \in Nat BY DelayTyped, FailedTyped
<1>4. row \in Note BY <1>3 DEF Note, Due
<1>5. /\ row.status \in Due => row.retries = 1 /\ 1 <= MaxRetries
      /\ row.status = "DEAD_LETTER" => MaxRetries = 0
  BY <1>2, OutboxAssumption DEF Due
<1> HIDE DEF row
<1>6. \A p \in Jobs : KeptLister(p, n) BY <1>1, SameJob
<1>7. CASE n # m BY <1>1, <1>4, <1>6, <1>7, QueueKept, NoteKept
<1>8. CASE n = m
  <2>1. \A p \in Jobs : ~Listed(p, n)' BY <1>1, <1>6, <1>8, UnusedIs DEF KeptLister
  <2> QED BY <1>1, <1>4, <1>5, <1>8, <2>1, NewNote
<1> QED BY <1>7, <1>8

\* A row that a transaction has listed anew is not listed by another.
LEMMA DeliveryListDue ==
  ASSUME DeliveryInv, NEW q \in Jobs, ListDue(q), NEW n \in Notes
  PROVE  NoteOK(n)'
<1> USE DEF DeliveryInv, TypeInv
<1> DEFINE due == {m \in Notes : IsDue(m)}
           r == NewRun(due, None)
<1>1. /\ Set(q, r) /\ note' = note /\ ~IsRun(q) /\ Excuse(Overlapped(due))
  BY JobTyped DEF ListDue
<1>2. due \in SUBSET Notes /\ \A m \in due : Stored(m) BY RowsTyped
<1>3. n \in due => note[n].status \in Due /\ note[n].wait = 0 /\ Stored(n)
  BY <1>2 DEF IsDue
<1> HIDE DEF due
<1>4. /\ r \in Run /\ r.kind = "run" /\ r.todo = due /\ r.said = None /\ r.did[n] = None
      /\ n \in due => /\ r.copy[n].status = note[n].status
                      /\ r.copy[n].retries = note[n].retries
      /\ n \notin due => r.copy[n] = None
  BY <1>2, NewRunIs
<1> HIDE DEF r
<1>5. job'[q] = r /\ \A p \in Jobs \ {q} : job'[p] = job[p]
  BY <1>1, SetIs
<1>6. CASE n \notin due
  <2>1. KeptLister(q, n) BY <1>1, <1>4, <1>5, <1>6 DEF KeptLister, Listed
  <2>2. \A p \in Jobs : KeptLister(p, n) BY <1>5, <2>1, SameJob
  <2> QED BY <1>1, <2>2, ExcuseKept, NoteKept
<1>7. CASE n \in due
  <2> SUFFICES ASSUME n \notin excused' PROVE NoteOK(n)'
    BY DEF NoteOK
  <2>1. /\ n \notin excused /\ n \notin Overlapped(due)
        /\ sends'[n] = sends[n] /\ tries'[n] = tries[n]
    BY <1>1, ExcuseKept
  <2>2. \A p \in Jobs : ~Listed(p, n) BY <1>7, <2>1 DEF Overlapped
  <2>3. \A p \in Jobs \ {q} : ~Listed(p, n)' BY <1>5, <2>2 DEF Listed, IsRun
  <2>4. NoteOK(n) /\ note[n].status # "SENT" BY <1>3, <1>7 DEF Due
  <2>5. sends[n] = 0 /\ tries[n] = note[n].retries /\ note[n].retries <= MaxRetries
    BY <1>3, <1>7, <2>1, <2>2, <2>4 DEF NoteOK
  <2>6. ListedOK(q, n)'
    BY <1>1, <1>3, <1>4, <1>5, <1>7, <2>1, <2>5, NoneAssumption DEF ListedOK, Stored, Outcomes
  <2> QED BY <1>1, <1>3, <1>7, <2>1, <2>3, <2>5, <2>6 DEF NoteOK, Due
<1> QED BY <1>6, <1>7

\* What a transaction with one more row marked knows of it, or of the other rows.
LEMMA DeliveryMark ==
  ASSUME DeliveryInv, NEW q \in Jobs, NEW n \in Notes, NEW outcome \in Outcomes,
         IsRun(q), n \in job[q].todo,
         outcome = "retry" => job[q].copy[n].retries < MaxRetries,
         Set(q, Marking(job[q], n, outcome)), note' = note, excused' = excused
  PROVE  /\ \A p \in Jobs \ {q} : job'[p] = job[p]
         /\ Listed(q, n) /\ Listed(q, n)' /\ job'[q].copy = job[q].copy
         /\ job'[q].said = job[q].said /\ job[q].did[n] = None
         /\ n \notin job'[q].todo
         /\ job'[q].did[n] = IF Stored(n) THEN outcome ELSE None
         /\ \A m \in Notes \ {n} : KeptLister(q, m)
<1> USE DEF DeliveryInv, TypeInv
<1> DEFINE r == Marking(job[q], n, outcome)
<1>1. job[q] \in Run /\ job[q].kind = "run" /\ RunOK(q)
  BY JobTyped DEF JobsOK, IsRun
<1>2. job[q].copy[n] # None /\ job[q].did[n] = None BY <1>1 DEF RunOK
<1>3. /\ r.kind = "run" /\ r.copy = job[q].copy /\ r.said = job[q].said
      /\ r.todo = job[q].todo \ {n}
      /\ r.did = [job[q].did EXCEPT ![n] = IF Stored(n) THEN outcome ELSE @]
  BY <1>1, <1>2, MarkingIs
<1>4. Set(q, r) OBVIOUS
<1> HIDE DEF r
<1>5. /\ r.did[n] = IF Stored(n) THEN outcome ELSE None
      /\ \A m \in Notes \ {n} : r.did[m] = job[q].did[m]
  BY <1>1, <1>2, <1>3 DEF Run
<1>6. job'[q] = r /\ \A p \in Jobs \ {q} : job'[p] = job[p]
  BY <1>4, SetIs
<1>7. Listed(q, n) /\ IsRun(q)' BY <1>2, <1>3, <1>6 DEF Listed, IsRun
<1>8. \A m \in Notes \ {n} : KeptLister(q, m)
  BY <1>3, <1>5, <1>6, <1>7 DEF KeptLister, Listed
<1> QED BY <1>2, <1>3, <1>5, <1>6, <1>7, <1>8 DEF Listed


LEMMA DeliverySend ==
  ASSUME DeliveryInv, NEW q \in Jobs, NEW m \in Notes, NEW ok \in BOOLEAN, Send(q, m, ok),
         NEW n \in Notes
  PROVE  NoteOK(n)'
<1> USE DEF DeliveryInv, TypeInv
<1> DEFINE outcome == SendOutcome(q, m, ok)
<1>1. /\ IsRun(q) /\ m \in job[q].todo /\ job[q].said = None
      /\ Set(q, Marking(job[q], m, outcome))
      /\ note' = note /\ excused' = excused
      /\ sends' = IF ok /\ m \notin excused THEN [sends EXCEPT ![m] = @ + 1] ELSE sends
      /\ tries' = IF m \notin excused THEN [tries EXCEPT ![m] = @ + 1] ELSE tries
  BY DEF Send, Mark
<1>2. outcome \in Outcomes /\ (outcome = "retry" => job[q].copy[m].retries < MaxRetries)
  BY <1>1, SendOutcomeTyped
<1>3. /\ \A p \in Jobs \ {q} : job'[p] = job[p]
      /\ Listed(q, m) /\ Listed(q, m)' /\ job'[q].copy = job[q].copy
      /\ job'[q].said = job[q].said /\ job[q].did[m] = None
      /\ m \notin job'[q].todo
      /\ job'[q].did[m] = IF Stored(m) THEN outcome ELSE None
      /\ \A k \in Notes \ {m} : KeptLister(q, k)
  BY <1>1, <1>2, DeliveryMark
<1>4. CASE n # m
  <2>1. \A p \in Jobs : KeptLister(p, n) BY <1>3, <1>4, SameJob
  <2>2. sends'[n] = sends[n] /\ tries'[n] = tries[n] BY <1>1, <1>4 DEF TypeOK
  <2> QED BY <1>1, <2>1, <2>2, NoteKept
<1>5. CASE n = m
  <2> SUFFICES ASSUME n \notin excused PROVE NoteOK(n)'
    BY <1>1 DEF NoteOK
  <2>1. NoteOK(n) /\ ListedOK(q, n) BY <1>3, <1>5 DEF NoteOK
  <2>2. \A p \in Jobs \ {q} : ~Listed(p, n)' BY <1>3, <1>5, <2>1 DEF NoteOK, Listed, IsRun
  <2>3. sends[n] = 0 /\ job[q].copy[n].status \in Due /\ job[q].copy[n] \in Copy
    BY <1>1, <1>5, <2>1, SendOutcomeTyped DEF ListedOK
  <2>4. sends'[n] = (IF ok THEN 1 ELSE 0) /\ tries'[n] = tries[n] + 1
    BY <1>1, <1>5, <2>3 DEF TypeOK
  <2>5. Stored(n) => /\ note[n].status = job[q].copy[n].status
                     /\ note[n].retries = job[q].copy[n].retries
                     /\ tries[n] = note[n].retries /\ note[n].retries <= MaxRetries
    BY <1>3, <1>5, <2>1, <2>3 DEF NoteOK, ListedOK
  <2>6. /\ outcome = "sent" <=> ok
        /\ outcome = "dead" => job[q].copy[n].retries >= MaxRetries
    BY <1>5, <2>3, FailedTyped DEF SendOutcome, Copy
  <2>7. job[q].copy[n].retries \in Nat /\ tries[n] \in Nat BY <2>3 DEF Copy, TypeOK
  <2> HIDE DEF outcome
  <2>8. job'[q].did[n] = "dead" =>
          job[q].copy[n].retries = MaxRetries /\ tries'[n] = MaxRetries + 1
    BY <1>3, <1>5, <2>4, <2>5, <2>6, <2>7, NoneAssumption, OutboxAssumption DEF Outcomes
  <2>9. job'[q].did[n] = "retry" =>
          job[q].copy[n].retries < MaxRetries /\ tries'[n] = job[q].copy[n].retries + 1
    BY <1>2, <1>3, <1>5, <2>4, <2>5, NoneAssumption DEF Outcomes
  <2>10. job'[q].did[n] \in {"retry", "dead"} => sends'[n] = 0
    BY <1>3, <1>5, <2>4, <2>6, NoneAssumption DEF Outcomes
  <2>11. job'[q].did[n] = "sent" =>
           sends'[n] = 1 /\ tries'[n] = job[q].copy[n].retries + 1
    BY <1>3, <1>5, <2>4, <2>5, <2>6, NoneAssumption DEF Outcomes
  <2>12. Stored(n) <=> Stored(n)' BY <1>1 DEF Stored
  <2>13. ListedOK(q, n)'
    BY <1>1, <1>3, <1>5, <2>1, <2>3, <2>5, <2>8, <2>9, <2>10, <2>11 DEF ListedOK, Stored
  <2>14. sends'[n] = 1 => ~Stored(n)' \/ job'[q].did[n] = "sent"
    BY <1>3, <1>5, <2>4, <2>6, <2>12
  <2>15. note'[n].status \in Due =>
           note'[n].retries <= MaxRetries /\ job'[q].did[n] # None
    BY <1>1, <1>2, <1>3, <1>5, <2>5, NoneAssumption DEF Stored, Due
  <2>16. note'[n].status # "DEAD_LETTER"
    <3>1. note[n].status = "DEAD_LETTER" => Stored(n) BY DEF Stored
    <3> QED BY <1>1, <2>3, <2>5, <3>1 DEF Due
  <2> QED BY <1>3, <1>5, <2>2, <2>4, <2>13, <2>14, <2>15, <2>16 DEF NoteOK
<1> QED BY <1>4, <1>5

\* A report of a failure excuses its row, so only what was reported sent counts.
LEMMA DeliveryMarkReported ==
  ASSUME DeliveryInv, NEW q \in Jobs, NEW m \in Notes, MarkReported(q, m), NEW n \in Notes
  PROVE  NoteOK(n)'
<1> USE DEF DeliveryInv, TypeInv
<1> DEFINE outcome == Reported(job[q], m)
<1>1. /\ IsRun(q) /\ m \in job[q].todo /\ job[q].said # None
      /\ Set(q, Marking(job[q], m, outcome))
      /\ UNCHANGED <<note, excused, sends, tries>>
  BY DEF MarkReported, Mark
<1>2. job[q] \in Run /\ job[q].copy[m] # None
  BY <1>1, JobTyped DEF JobsOK, RunOK
<1>3. /\ outcome \in Outcomes /\ (outcome = "retry" => job[q].copy[m].retries < MaxRetries)
      /\ job[q].said = "sent" <=> outcome = "sent"
  BY <1>1, <1>2, ReportedTyped
<1> HIDE DEF outcome
<1>4. /\ \A p \in Jobs \ {q} : job'[p] = job[p]
      /\ Listed(q, m) /\ Listed(q, m)' /\ job'[q].copy = job[q].copy
      /\ job'[q].said = job[q].said /\ job[q].did[m] = None
      /\ m \notin job'[q].todo
      /\ job'[q].did[m] = IF Stored(m) THEN outcome ELSE None
      /\ \A k \in Notes \ {m} : KeptLister(q, k)
  BY <1>1, <1>3, DeliveryMark
<1>5. CASE n # m
  <2>1. \A p \in Jobs : KeptLister(p, n) BY <1>4, <1>5, SameJob
  <2> QED BY <1>1, <2>1, NoteKept
<1>6. CASE n = m
  <2> SUFFICES ASSUME n \notin excused PROVE NoteOK(n)'
    BY <1>1 DEF NoteOK
  <2>1. NoteOK(n) /\ ListedOK(q, n) BY <1>4, <1>6 DEF NoteOK
  <2>2. \A p \in Jobs \ {q} : ~Listed(p, n)' BY <1>4, <1>6, <2>1 DEF NoteOK, Listed, IsRun
  <2>3. job[q].said = "sent" /\ outcome = "sent" BY <1>1, <1>3, <2>1 DEF ListedOK
  <2>4. Stored(n)' <=> Stored(n) BY <1>1 DEF Stored
  <2>5. job'[q].did[n] \notin {"retry", "dead"}
    BY <1>4, <1>6, <2>3, NoneAssumption DEF Outcomes
  <2>6. ListedOK(q, n)' BY <1>1, <1>4, <1>6, <2>1, <2>3, <2>4, <2>5 DEF ListedOK
  <2>7. (sends'[n] = 0 \/ sends'[n] = 1) /\
          (~Stored(n)' \/ note'[n].status = "SENT" \/ job'[q].did[n] = "sent")
    BY <1>1, <1>4, <1>6, <2>1, <2>3, <2>4 DEF NoteOK
  <2>8. note'[n].status \in Due => note'[n].retries <= MaxRetries /\ job'[q].did[n] # None
    BY <1>1, <1>4, <1>6, <2>1, <2>3, NoneAssumption DEF NoteOK, Stored, Due, Outcomes
  <2> QED BY <1>1, <1>4, <1>6, <2>1, <2>2, <2>6, <2>7, <2>8 DEF NoteOK
<1> QED BY <1>5, <1>6

LEMMA DeliveryReport ==
  ASSUME DeliveryInv, NEW q \in Jobs, NEW m \in Notes,
         NEW said \in {"sent", "failed", "dead"}, Report(q, m, said), NEW n \in Notes
  PROVE  NoteOK(n)'
<1> USE DEF DeliveryInv, TypeInv
<1> DEFINE r == NewRun({m}, said)
           marked == Marking(r, m, Reported(r, m))
<1>1. /\ (Set(q, r) \/ Set(q, marked)) /\ note' = note /\ ~IsRun(q) /\ Stored(m)
      /\ Excuse(Overlapped({m}) \union (IF said = "sent" THEN {} ELSE {m}))
  BY JobTyped DEF Report
<1>2. r \in Run /\ r.kind = "run" /\ r.todo = {m} /\ r.said = said
      /\ r.copy[m].status = note[m].status /\ r.copy[m].retries = note[m].retries
      /\ \A k \in Notes : /\ r.did[k] = None
                          /\ k = m => r.copy[k] # None
                          /\ k # m => r.copy[k] = None
  <2>1. {m} \in SUBSET Notes /\ \A k \in {m} : Stored(k) BY <1>1
  <2> QED BY <2>1, NewRunIs
<1> HIDE DEF r
<1>3. /\ Reported(r, m) \in Outcomes
      /\ Reported(r, m) = "retry" => r.copy[m].retries < MaxRetries
      /\ said = "sent" <=> Reported(r, m) = "sent"
  BY <1>2, ReportedTyped, NoneAssumption DEF Outcomes
<1>4. /\ marked \in Run /\ marked.kind = "run" /\ marked.copy = r.copy
      /\ marked.said = said /\ marked.todo = {}
      /\ marked.did = [r.did EXCEPT ![m] = IF Stored(m) THEN Reported(r, m) ELSE @]
  BY <1>2, <1>3, MarkingIs
<1> HIDE DEF marked
<1>5. \A p \in Jobs \ {q} : job'[p] = job[p] BY <1>1, SetIs
<1>6. /\ IsRun(q)' /\ job'[q].copy = r.copy /\ job'[q].said = said
      /\ job'[q].did[m] \in {None, Reported(r, m)}
  BY <1>1, <1>2, <1>4, SetIs DEF IsRun, Run
<1>7. CASE n # m
  <2>1. KeptLister(q, n) BY <1>1, <1>2, <1>6, <1>7 DEF KeptLister, Listed
  <2>2. \A p \in Jobs : KeptLister(p, n) BY <1>5, <2>1, SameJob
  <2> QED BY <1>1, <2>2, ExcuseKept, NoteKept
<1>8. CASE n = m
  <2> SUFFICES ASSUME n \notin excused' PROVE NoteOK(n)'
    BY DEF NoteOK
  <2>1. /\ n \notin excused /\ n \notin Overlapped({m}) /\ said = "sent"
        /\ sends'[n] = sends[n] /\ tries'[n] = tries[n]
    BY <1>1, <1>8, ExcuseKept
  <2>2. \A p \in Jobs : ~Listed(p, n) BY <1>8, <2>1 DEF Overlapped
  <2>3. \A p \in Jobs \ {q} : ~Listed(p, n)' BY <1>5, <2>2 DEF Listed, IsRun
  <2>4. NoteOK(n) OBVIOUS
  <2>5. job'[q].did[n] \in {None, "sent"} BY <1>3, <1>6, <1>8, <2>1 DEF Outcomes
  <2>6. ListedOK(q, n)'
    <3>1. job'[q].did[n] \notin {"retry", "dead"} /\ job'[q].said = "sent" /\ None # "sent"
      BY <1>6, <2>1, <2>5, NoneAssumption DEF Outcomes
    <3>2. /\ job'[q].copy[n].status = note'[n].status
          /\ job'[q].copy[n].retries = note'[n].retries
      BY <1>1, <1>2, <1>6, <1>8
    <3>3. note'[n].status \in Due => sends'[n] = 0 /\ tries'[n] = note'[n].retries
      BY <1>1, <2>1, <2>2, <2>4 DEF NoteOK, Due, Stored
    <3> QED BY <2>1, <3>1, <3>2, <3>3 DEF ListedOK
  <2>7. sends'[n] = 0 \/ (sends'[n] = 1 /\ note'[n].status = "SENT")
    BY <1>1, <1>8, <2>1, <2>2, <2>4 DEF NoteOK
  <2>8. note'[n].status \in Due =>
          note'[n].retries <= MaxRetries /\ tries'[n] = note'[n].retries
    BY <1>1, <2>1, <2>2, <2>4 DEF NoteOK
  <2>9. note'[n].status = "DEAD_LETTER" => tries'[n] = MaxRetries + 1
    BY <1>1, <2>1, <2>4 DEF NoteOK
  <2> QED BY <2>3, <2>6, <2>7, <2>8, <2>9 DEF NoteOK
<1> QED BY <1>7, <1>8


LEMMA DeliveryRolledBack ==
  ASSUME DeliveryInv, NEW q \in Jobs, RolledBack(q), NEW n \in Notes
  PROVE  NoteOK(n)'
<1> USE DEF DeliveryInv, TypeInv
<1>1. Drop(q) /\ Excuse(Touched(q)) /\ note' = note BY DEF RolledBack
<1>2. job'[q] = NoJob /\ \A p \in Jobs \ {q} : job'[p] = job[p]
  BY <1>1, SetIs DEF Drop
<1>3. n \notin Touched(q) => KeptLister(q, n)
  BY <1>2 DEF Touched, KeptLister, Listed, IsRun, NoJob
<1>4. n \notin excused' => \A p \in Jobs : KeptLister(p, n)
  BY <1>1, <1>2, <1>3, ExcuseKept, SameJob
<1> QED BY <1>1, <1>4, ExcuseKept, NoteKept

\* A commit stores what its run counted, for the rows nobody else had listed.
LEMMA DeliveryCommit ==
  ASSUME DeliveryInv, NEW q \in Jobs, CommitRun(q), NEW n \in Notes
  PROVE  NoteOK(n)'
<1> USE DEF DeliveryInv, TypeInv
<1>1. CASE job[q].lost
  BY <1>1, DeliveryRolledBack DEF CommitRun
<1>2. CASE ~job[q].lost
  <2>1. /\ IsRun(q) /\ Drop(q) /\ UNCHANGED <<sends, tries, excused>>
    BY <1>2 DEF CommitRun
  <2>2. job'[q] = NoJob /\ \A p \in Jobs \ {q} : job'[p] = job[p]
    BY <2>1, SetIs DEF Drop
  <2>3. CASE ~Locks(q, n)
    <3>1. note'[n] = note[n] BY <1>2, <2>3, CommitWrites
    <3>2. KeptLister(q, n) BY <2>2, <2>3 DEF KeptLister, Listed, Locks, IsRun, NoJob
    <3>3. \A p \in Jobs : KeptLister(p, n) BY <2>2, <3>2, SameJob
    <3> QED BY <2>1, <3>1, <3>3, NoteKept
  <2>4. CASE Locks(q, n)
    <3> SUFFICES ASSUME n \notin excused PROVE NoteOK(n)'
      BY <2>1 DEF NoteOK
    <3>1. /\ Listed(q, n) /\ Stored(n) /\ Stored(n)'
          /\ job[q].did[n] \in Outcomes /\ job[q].copy[n] \in Copy
          /\ note'[n].status =
               IF NewStatus(job[q].did[n]) = job[q].copy[n].status THEN note[n].status
               ELSE NewStatus(job[q].did[n])
          /\ note'[n].retries = IF job[q].did[n] = "retry" THEN job[q].copy[n].retries + 1
                                ELSE note[n].retries
      BY <1>2, <2>4, CommitWrites
    <3>2. NoteOK(n) /\ ListedOK(q, n) BY <3>1 DEF NoteOK
    <3>3. \A p \in Jobs : ~Listed(p, n)'
      BY <2>2, <3>1, <3>2 DEF NoteOK, Listed, IsRun, NoJob
    <3>4. note'[n].status = NewStatus(job[q].did[n])
      BY <3>1, <3>2 DEF ListedOK
    <3>5. job[q].copy[n].retries \in Nat BY <3>1 DEF Copy
    <3>6. CASE job[q].did[n] = "sent"
      <4>1. note'[n].status = "SENT" BY <3>4, <3>6 DEF NewStatus
      <4>2. sends'[n] = 0 \/ sends'[n] = 1 BY <2>1, <3>2 DEF NoteOK
      <4> QED BY <3>3, <4>1, <4>2 DEF NoteOK, Due
    <3>7. CASE job[q].did[n] = "retry"
      <4>1. note'[n].status = "RETRY_PENDING" BY <3>4, <3>7 DEF NewStatus
      <4>2. /\ sends'[n] = 0 /\ tries'[n] = note'[n].retries
            /\ note'[n].retries <= MaxRetries
        BY <2>1, <3>1, <3>2, <3>5, <3>7, OutboxAssumption DEF ListedOK
      <4> QED BY <3>3, <4>1, <4>2 DEF NoteOK
    <3>8. CASE job[q].did[n] = "dead"
      <4>1. note'[n].status = "DEAD_LETTER" BY <3>4, <3>8 DEF NewStatus
      <4>2. sends'[n] = 0 /\ tries'[n] = MaxRetries + 1
        BY <2>1, <3>2, <3>8 DEF ListedOK
      <4> QED BY <3>3, <4>1, <4>2 DEF NoteOK, Due
    <3> QED BY <3>1, <3>6, <3>7, <3>8 DEF Outcomes
  <2> QED BY <2>3, <2>4
<1> QED BY <1>1, <1>2

LEMMA DeliveryVictim ==
  ASSUME DeliveryInv, NEW q \in Jobs, Victim(q), NEW n \in Notes
  PROVE  NoteOK(n)'
<1> USE DEF DeliveryInv, TypeInv
<1>1. PICK p \in Jobs \ {q}, m \in Notes :
         /\ job' \in JobType /\ note' = note
         /\ IsRun(q) /\ IsRun(p) /\ Locks(q, m) /\ m \in job[p].todo
         /\ job'[q] = NoJob
         /\ \A o \in Jobs \ {p, q} : job'[o] = job[o]
         /\ job'[p].kind = "run" /\ job'[p].copy = job[p].copy
         /\ job'[p].said = job[p].said /\ job'[p].todo = job[p].todo \ {m}
         /\ \A k \in Notes \ {m} : job'[p].did[k] = job[p].did[k]
         /\ job'[p].did[m] # None => Stored(m)
         /\ Excuse(Touched(q)) /\ UNCHANGED <<booking, upsets, moved, raced, lead>>
  BY VictimIs
<1>2. m \in Touched(q) BY <1>1 DEF Locks, Touched
<1>3. ASSUME n \notin excused' PROVE \A o \in Jobs : KeptLister(o, n)
  <2>1. n \notin Touched(q) BY <1>1, <1>3, ExcuseKept
  <2>2. n # m BY <1>2, <2>1
  <2>3. KeptLister(q, n) BY <1>1, <2>1 DEF Touched, KeptLister, Listed, IsRun, NoJob
  <2>4. KeptLister(p, n) BY <1>1, <2>2 DEF KeptLister, Listed, IsRun
  <2> QED BY <1>1, <2>3, <2>4, SameJob
<1> QED BY <1>1, <1>3, ExcuseKept, NoteKept

LEMMA DeliveryTick ==
  ASSUME DeliveryInv, Tick, NEW n \in Notes
  PROVE  NoteOK(n)'
<1> USE DEF DeliveryInv, TypeInv
<1>1. UNCHANGED <<sends, tries, excused>> BY DEF Tick, Counted
<1>2. note[n].wait = 0 => note'[n].wait = 0 BY TickIs DEF Max0
<1>3. ASSUME NEW q \in Jobs PROVE KeptLister(q, n)
  <2>1. job'[q] = TickJob(job[q]) BY TickIs
  <2> QED BY <2>1, TickJobTyped DEF KeptLister, Listed, IsRun
<1> QED BY <1>1, <1>2, <1>3, TickIs, NoteKept

LEMMA DeliveryStep ==
  ASSUME DeliveryInv, [Next]_vars
  PROVE  DeliveryInv'
<1> SUFFICES ASSUME NEW n \in Notes PROVE NoteOK(n)'
  BY TypesStep DEF DeliveryInv
<1>1. ASSUME NEW q \in Jobs, Crash(q) PROVE NoteOK(n)'
  BY <1>1, DeliveryRolledBack DEF Crash
<1>2. ASSUME NEW q \in Jobs, Work(q) PROVE NoteOK(n)'
  <2>1. CASE WriteConfirm(q)
    <3>1. job[q].booking \in Bookings
      BY <2>1, JobTyped DEF WriteConfirm, DeliveryInv, TypeInv, IsSchedule, Schedule
    <3> QED BY <2>1, <3>1, DeliveryBegin
  <2>2. CASE \E m \in Notes, ok \in BOOLEAN : Send(q, m, ok) BY <2>2, DeliverySend
  <2>3. CASE \E m \in Notes : MarkReported(q, m) BY <2>3, DeliveryMarkReported
  <2> QED BY <1>2, <2>1, <2>2, <2>3, DeliveryCommitSchedule, DeliveryCommit, DeliveryVictim
          DEF Work
<1>3. CASE UNCHANGED vars
  BY <1>3, NoteKept, SameJob DEF vars
<1> QED
  BY <1>1, <1>2, <1>3, DeliveryBooking, DeliveryBegin, DeliveryQueueRetry, DeliveryListDue,
     DeliveryReport, DeliveryTick DEF Next, Reminds

LEMMA DeliveryInit ==
  ASSUME Init
  PROVE  DeliveryInv
<1>1. ASSUME NEW n \in Notes PROVE NoteOK(n)
  BY DEF Init, NoteOK, Listed, IsRun, NoJob, NoNote, Due
<1> QED BY <1>1, TypesInit DEF DeliveryInv

THEOREM DeliveryInvariant == Spec => []DeliveryInv
BY DeliveryInit, DeliveryStep, PTL DEF Spec

\* No client gets a notification twice, unless two transactions had it listed at
\* once, one that sent it rolled back, or it was reported failed by hand.
THEOREM OneDeliveryProof == Spec => []OneDelivery
<1>1. DeliveryInv => OneDelivery BY DEF DeliveryInv, NoteOK, OneDelivery
<1> QED BY <1>1, DeliveryInvariant, PTL

-----------------------------------------------------------------------------
(* The ledger of deliveries *)

\* A row's part of a step, in the ledger.
LedgerMove(n) == Delivery(n)' = Delivery(n) \/ Deliveries!Step(n)

LEMMA SameDelivery ==
  ASSUME NEW n \in Notes,
         note'[n].status = note[n].status, note'[n].retries = note[n].retries,
         n \notin excused' => n \notin excused /\ sends'[n] = sends[n] /\ tries'[n] = tries[n]
  PROVE  LedgerMove(n)
<1>1. Stored(n)' <=> Stored(n) BY DEF Stored
<1>2. CASE n \notin excused'
  <2>1. Delivery(n)' = Delivery(n) BY <1>1, <1>2 DEF Delivery
  <2> QED BY <2>1 DEF LedgerMove
<1>3. CASE n \in excused' /\ ~Stored(n)
  <2>1. Delivery(n)' = Delivery(n) BY <1>1, <1>3 DEF Delivery
  <2> QED BY <2>1 DEF LedgerMove
<1>4. CASE n \in excused' /\ Stored(n)
  <2>1. Delivery(n).state # "absent" BY <1>4 DEF Delivery
  <2>2. Delivery(n)' = [state |-> "excused", tries |-> 0, sends |-> 0]
    BY <1>1, <1>4 DEF Delivery
  <2>3. Deliveries!Excuse(n) BY <2>1, <2>2 DEF Deliveries!Excuse, Deliveries!Uncounted
  <2> QED BY <2>3 DEF LedgerMove, Deliveries!Step
<1> QED BY <1>2, <1>3, <1>4

LEMMA LedgerClear ==
  ASSUME NEW b \in Bookings, Clear(b), NEW n \in Notes
  PROVE  LedgerMove(n)
<1>1. /\ UNCHANGED <<sends, tries, excused>>
      /\ note'[n] = IF note[n].booking = b THEN NoNote ELSE note[n]
  BY DEF Clear
<1>2. CASE note[n].booking # b BY <1>1, <1>2, SameDelivery
<1>3. CASE note[n].booking = b
  <2>1. Delivery(n)' = [state |-> "absent", tries |-> 0, sends |-> 0]
    BY <1>1, <1>3 DEF Delivery, Stored, NoNote
  <2>2. CASE Stored(n)
    <3>1. Delivery(n).state # "absent" BY <2>2 DEF Delivery
    <3>2. Deliveries!Delete(n) BY <2>1, <3>1 DEF Deliveries!Delete, Deliveries!Uncounted
    <3> QED BY <3>2 DEF LedgerMove, Deliveries!Step
  <2>3. CASE ~Stored(n)
    <3>1. Delivery(n)' = Delivery(n) BY <2>1, <2>3 DEF Delivery
    <3> QED BY <3>1 DEF LedgerMove
  <2> QED BY <2>2, <2>3
<1> QED BY <1>2, <1>3

\* A row queued is posted, with the first attempt behind it or not.
LEMMA LedgerQueue ==
  ASSUME TypeOK, NEW m \in Notes, ~Stored(m), NEW row \in Note, NEW tried \in {0, 1},
         row.status = IF tried <= MaxRetries
                      THEN (IF tried = 0 THEN "QUEUED" ELSE "RETRY_PENDING") ELSE "DEAD_LETTER",
         row.status \in Due => row.retries = tried,
         Queue(m, row, tried), NEW n \in Notes
  PROVE  LedgerMove(n)
<1>1. CASE n # m
  <2>1. note'[n] = note[n] /\ sends'[n] = sends[n] /\ tries'[n] = tries[n]
        /\ (n \in excused' <=> n \in excused)
    BY <1>1, QueueKept
  <2> QED BY <2>1, SameDelivery
<1>2. CASE n = m
  <2>1. note'[n] = row /\ sends'[n] = 0 /\ tries'[n] = tried /\ n \notin excused'
    BY <1>2 DEF Queue, TypeOK
  <2>2. Delivery(n).state = "absent" BY <1>2 DEF Delivery
  <2>3. Delivery(n)' =
          [state |-> IF tried <= MaxRetries THEN "due" ELSE "dead", tries |-> tried, sends |-> 0]
    BY <2>1, OutboxAssumption DEF Delivery, Stored, Due
  <2>4. Deliveries!Post(n)
    BY <2>2, <2>3 DEF Deliveries!Post, Deliveries!After
  <2> QED BY <2>4 DEF LedgerMove, Deliveries!Step
<1> QED BY <1>1, <1>2

LEMMA LedgerSend ==
  ASSUME DeliveryInv, NEW q \in Jobs, NEW m \in Notes, NEW ok \in BOOLEAN, Send(q, m, ok),
         NEW n \in Notes
  PROVE  LedgerMove(n)
<1> USE DEF DeliveryInv, TypeInv
<1>1. /\ IsRun(q) /\ m \in job[q].todo /\ job[q].said = None
      /\ note' = note /\ excused' = excused
      /\ sends' = IF ok /\ m \notin excused THEN [sends EXCEPT ![m] = @ + 1] ELSE sends
      /\ tries' = IF m \notin excused THEN [tries EXCEPT ![m] = @ + 1] ELSE tries
  BY DEF Send, Mark
<1>2. CASE n # m \/ n \in excused
  <2>1. n \notin excused' => sends'[n] = sends[n] /\ tries'[n] = tries[n]
    BY <1>1, <1>2 DEF TypeOK
  <2> QED BY <1>1, <2>1, SameDelivery
<1>3. CASE ~Stored(n)
  BY <1>1, <1>3 DEF LedgerMove, Delivery, Stored
<1>4. CASE n = m /\ n \notin excused /\ Stored(n)
  <2>1. Listed(q, n) BY <1>1, <1>4 DEF JobsOK, RunOK, Listed
  <2>2. NoteOK(n) /\ ListedOK(q, n) BY <1>4, <2>1 DEF NoteOK
  <2>3. note[n].status \in Due /\ sends[n] = 0 BY <1>1, <1>4, <2>2 DEF ListedOK
  <2>4. tries[n] = note[n].retries
    BY <1>1, <1>4, <2>1, <2>2, <2>3 DEF NoteOK, JobsOK, RunOK
  <2>5. Delivery(n) = [state |-> "due", tries |-> tries[n], sends |-> 0]
    BY <1>4, <2>3, <2>4 DEF Delivery, Due
  <2>6. tries[n] \in Nat BY DEF TypeOK
  <2>7. tries'[n] = tries[n] + 1 /\ sends'[n] = IF ok THEN 1 ELSE 0
    BY <1>1, <1>4, <2>3 DEF TypeOK
  <2>8. Delivery(n)' = [state |-> "tried", tries |-> tries[n] + 1, sends |-> IF ok THEN 1 ELSE 0]
    BY <1>1, <1>4, <2>3, <2>4, <2>6, <2>7 DEF Delivery, Due, Stored
  <2>9. Deliveries!Attempt(n) BY <2>5, <2>8 DEF Deliveries!Attempt
  <2> QED BY <2>9 DEF LedgerMove, Deliveries!Step
<1> QED BY <1>2, <1>3, <1>4

\* A commit concludes the attempts of its run, or does what was reported.
LEMMA LedgerCommit ==
  ASSUME DeliveryInv, NEW q \in Jobs, CommitRun(q), NEW n \in Notes
  PROVE  LedgerMove(n)
<1> USE DEF DeliveryInv, TypeInv
<1>1. CASE job[q].lost
  <2>1. Excuse(Touched(q)) /\ note' = note BY <1>1 DEF CommitRun, RolledBack
  <2> QED BY <2>1, ExcuseKept, SameDelivery
<1>2. CASE ~job[q].lost /\ ~Locks(q, n)
  BY <1>2, CommitWrites, SameDelivery DEF CommitRun
<1>3. CASE ~job[q].lost /\ Locks(q, n)
  <2>1. UNCHANGED <<sends, tries, excused>> BY <1>3 DEF CommitRun
  <2>2. /\ Listed(q, n) /\ Stored(n) /\ Stored(n)'
        /\ job[q].did[n] \in Outcomes /\ job[q].copy[n] \in Copy
        /\ note'[n].status =
             IF NewStatus(job[q].did[n]) = job[q].copy[n].status THEN note[n].status
             ELSE NewStatus(job[q].did[n])
        /\ note'[n].retries = IF job[q].did[n] = "retry" THEN job[q].copy[n].retries + 1
                              ELSE note[n].retries
    BY <1>3, CommitWrites
  <2>3. CASE n \in excused
    BY <2>1, <2>2, <2>3 DEF LedgerMove, Delivery
  <2>4. CASE n \notin excused
    <3>1. NoteOK(n) /\ ListedOK(q, n) BY <2>2, <2>4 DEF NoteOK
    <3>2. /\ job[q].copy[n].status = note[n].status
          /\ job[q].copy[n].retries = note[n].retries
          /\ note[n].retries \in Nat /\ tries[n] \in Nat
      BY <2>2, <3>1 DEF ListedOK, Copy, TypeOK
    <3>3. note'[n].status = NewStatus(job[q].did[n]) BY <2>2, <3>2
    <3>4. CASE job[q].said = None
      <4>1. note[n].status \in Due BY <3>1, <3>2, <3>4 DEF ListedOK
      <4>2. /\ tries[n] = note[n].retries + 1
            /\ sends[n] = IF job[q].did[n] = "sent" THEN 1 ELSE 0
            /\ job[q].did[n] = "retry" => note[n].retries < MaxRetries
            /\ job[q].did[n] = "dead" => note[n].retries = MaxRetries
        BY <2>2, <3>1, <3>2, <3>4 DEF ListedOK, Outcomes
      <4>3. Delivery(n) = [state |-> "tried", tries |-> tries[n], sends |-> sends[n]]
        BY <2>2, <2>4, <3>2, <4>1, <4>2 DEF Delivery, Due
      <4>4. Delivery(n)' =
              [state |-> IF job[q].did[n] = "sent" THEN "sent"
                         ELSE IF job[q].did[n] = "retry" THEN "due" ELSE "dead",
               tries |-> tries[n], sends |-> sends[n]]
        BY <2>1, <2>2, <2>4, <3>2, <3>3, <4>2 DEF Delivery, NewStatus, Outcomes
      <4>5. Deliveries!Conclude(n)
        BY <2>2, <3>2, <4>2, <4>3, <4>4, OutboxAssumption
           DEF Deliveries!Conclude, Deliveries!After, Outcomes
      <4> QED BY <4>5 DEF LedgerMove, Deliveries!Step
    <3>5. CASE job[q].said # None
      <4>1. job[q].said = "sent" /\ job[q].did[n] = "sent"
        BY <2>2, <3>1, <3>5 DEF ListedOK, Outcomes
      <4>2. note'[n].status = "SENT" BY <3>3, <4>1 DEF NewStatus
      <4>3. Delivery(n)' = [state |-> "sent", tries |-> tries[n], sends |-> sends[n]]
        BY <2>1, <2>2, <2>4, <4>2 DEF Delivery
      <4>4. CASE note[n].status = "SENT"
        <5>1. Delivery(n) = [state |-> "sent", tries |-> tries[n], sends |-> sends[n]]
          BY <2>2, <2>4, <4>4 DEF Delivery
        <5> QED BY <4>3, <5>1 DEF LedgerMove
      <4>5. CASE note[n].status # "SENT"
        <5>1. note[n].status \in Due => tries[n] = note[n].retries
          BY <3>1, <3>5 DEF ListedOK
        <5>2. note[n].status \in Due \union {"DEAD_LETTER"}
          BY <2>2, <4>5 DEF TypeOK, Note, Stored
        <5>3. \E state \in {"due", "dead"} :
                Delivery(n) = [state |-> state, tries |-> tries[n], sends |-> sends[n]]
          BY <2>2, <2>4, <5>1, <5>2 DEF Delivery, Due
        <5>4. Deliveries!Report(n) BY <4>3, <5>3 DEF Deliveries!Report
        <5> QED BY <5>4 DEF LedgerMove, Deliveries!Step
      <4> QED BY <4>4, <4>5
    <3> QED BY <3>4, <3>5
  <2> QED BY <2>3, <2>4
<1> QED BY <1>1, <1>2, <1>3

\* The rows a scheduling transaction or a failed reply inserts are new.
LEMMA LedgerInserts ==
  ASSUME DeliveryInv, NEW q \in Jobs, CommitSchedule(q), NEW n \in Notes
  PROVE  LedgerMove(n)
<1> USE DEF DeliveryInv, TypeInv
<1> DEFINE m == job[q].row
           row == [status |-> "QUEUED", booking |-> job[q].booking, retries |-> 0,
                   wait |-> job[q].wait]
<1>1. CASE m = None
  BY <1>1, SameDelivery DEF CommitSchedule
<1>2. CASE m # None
  <2>1. job[q] \in Schedule /\ RowOK(q) /\ Queue(m, row, 0) /\ IsSchedule(q)
    BY <1>2, JobTyped DEF CommitSchedule, JobsOK
  <2>2. m \in Notes /\ ~Stored(m) BY <1>2, <2>1 DEF RowOK, NewRow, Schedule
  <2>3. row \in Note /\ row.status = "QUEUED" /\ row.retries = 0
    BY <2>1 DEF Schedule, Note, Due
  <2> HIDE DEF row, m
  <2> QED BY <2>1, <2>2, <2>3, LedgerQueue, OutboxAssumption
<1> QED BY <1>1, <1>2

LEMMA LedgerRetry ==
  ASSUME DeliveryInv, NEW m \in Notes, QueueRetry(m), NEW n \in Notes
  PROVE  LedgerMove(n)
<1> USE DEF DeliveryInv, TypeInv
<1> DEFINE row == [status |-> IF Failed(0) = "retry" THEN "RETRY_PENDING" ELSE "DEAD_LETTER",
                   booking |-> None, retries |-> IF Failed(0) = "retry" THEN 1 ELSE 0,
                   wait |-> Delay(0, Failed(0))]
<1>1. Queue(m, row, 1) /\ ~Stored(m) BY UnusedIs DEF QueueRetry
<1>2. Failed(0) = IF 1 <= MaxRetries THEN "retry" ELSE "dead"
  BY OutboxAssumption DEF Failed
<1>3. Delay(0, Failed(0)) \in Nat BY DelayTyped, FailedTyped
<1>4. row \in Note BY <1>3 DEF Note, Due
<1>5. /\ row.status = IF 1 <= MaxRetries THEN "RETRY_PENDING" ELSE "DEAD_LETTER"
      /\ row.status \in Due => row.retries = 1
  BY <1>2 DEF Due
<1> HIDE DEF row
<1> QED BY <1>1, <1>4, <1>5, LedgerQueue

LEMMA LedgerStep ==
  ASSUME DeliveryInv, [Next]_vars, NEW n \in Notes
  PROVE  LedgerMove(n)
<1> USE DEF DeliveryInv, TypeInv
<1>1. ASSUME UNCHANGED <<note, sends, tries, excused>> PROVE LedgerMove(n)
  BY <1>1, SameDelivery
<1>2. ASSUME NEW N, Excuse(N), note' = note PROVE LedgerMove(n)
  BY <1>2, ExcuseKept, SameDelivery
<1>3. ASSUME NEW b \in Bookings, BookingNext(b) PROVE LedgerMove(n)
  BY <1>1, <1>3, LedgerClear DEF BookingNext, Reschedule, Close
<1>4. ASSUME NEW q \in Jobs, NEW b \in Bookings, BeginConfirm(q, b) \/ Reminds(q, b)
      PROVE LedgerMove(n)
  BY <1>1, <1>4 DEF BeginConfirm, BeginRemind, Reminds, Counted
<1>5. ASSUME NEW q \in Jobs, ListDue(q) PROVE LedgerMove(n)
  BY <1>2, <1>5 DEF ListDue
<1>6. ASSUME NEW q \in Jobs, NEW m \in Notes, NEW said \in {"sent", "failed", "dead"},
             Report(q, m, said)
      PROVE LedgerMove(n)
  BY <1>2, <1>6 DEF Report
<1>7. ASSUME NEW q \in Jobs, Crash(q) PROVE LedgerMove(n)
  BY <1>2, <1>7 DEF Crash, RolledBack
<1>8. ASSUME NEW q \in Jobs, Work(q) PROVE LedgerMove(n)
  <2>1. CASE WriteConfirm(q) BY <1>1, <2>1 DEF WriteConfirm
  <2>2. CASE \E m \in Notes : MarkReported(q, m) BY <1>1, <2>2 DEF MarkReported, Mark
  <2>3. CASE Victim(q) BY <1>2, <2>3 DEF Victim
  <2> QED BY <1>8, <2>1, <2>2, <2>3, LedgerInserts, LedgerSend, LedgerCommit DEF Work
<1>9. CASE Tick
  BY <1>9, TickIs, SameDelivery DEF Tick, Counted
<1>10. CASE UNCHANGED vars BY <1>1, <1>10 DEF vars
<1> QED BY <1>3, <1>4, <1>5, <1>6, <1>7, <1>8, <1>9, <1>10, LedgerRetry DEF Next, Reminds

\* The notifications implement the ledger of deliveries: the runs and reports
\* that overlap with a delivery either leave it to the run that made it or
\* excuse it.
THEOREM ImplementsDeliveries == Spec => KeepsDeliveries
<1>1. Init => Deliveries!Init
  BY DEF Init, Delivery, Stored, NoNote, Deliveries!Init, Deliveries!Uncounted
<1>2. DeliveryInv /\ [Next]_vars => [Deliveries!Next]_[n \in Notes |-> Delivery(n)]
  <2> SUFFICES ASSUME DeliveryInv, [Next]_vars PROVE Deliveries!Next
    OBVIOUS
  <2>1. \A n \in Notes : LedgerMove(n) BY LedgerStep
  <2> QED BY <2>1 DEF LedgerMove, Deliveries!Next
<1> QED BY <1>1, <1>2, DeliveryInvariant, PTL DEF Spec, KeepsDeliveries, Deliveries!Spec

\* What the ledger's account says of a row.
Account(n) ==
  LET r == Delivery(n) IN
  /\ r \in Deliveries!Rows
  /\ r.sends <= 1 /\ r.tries <= MaxRetries + 1
  /\ r.state = "due" => r.tries <= MaxRetries /\ r.sends = 0
  /\ r.state = "dead" => r.tries = MaxRetries + 1 /\ r.sends = 0

LEMMA AccountStep ==
  ASSUME NEW n \in Notes, Account(n), LedgerMove(n)
  PROVE  Account(n)'
<1> DEFINE x == Delivery(n)
           y == Delivery(n)'
<1>1. /\ x \in Deliveries!Rows /\ x.sends <= 1 /\ x.tries <= MaxRetries + 1
      /\ x.state = "due" => x.tries <= MaxRetries /\ x.sends = 0
      /\ x.state = "dead" => x.tries = MaxRetries + 1 /\ x.sends = 0
  BY DEF Account
<1>2. \/ y = x
      \/ \E tries_ \in {0, 1} :
           y = [state |-> IF tries_ <= MaxRetries THEN "due" ELSE "dead",
                tries |-> tries_, sends |-> 0]
      \/ /\ x.state = "due"
         /\ \E sends_ \in {0, 1} :
              y = [state |-> "tried", tries |-> x.tries + 1, sends |-> sends_]
      \/ y = [x EXCEPT !.state = IF x.sends = 0
                                 THEN (IF x.tries <= MaxRetries THEN "due" ELSE "dead")
                                 ELSE "sent"]
      \/ y = [x EXCEPT !.state = "sent"]
      \/ y \in {[state |-> "excused", tries |-> 0, sends |-> 0],
                [state |-> "absent", tries |-> 0, sends |-> 0]}
  BY DEF LedgerMove, Deliveries!Step, Deliveries!Post, Deliveries!Attempt,
         Deliveries!Conclude, Deliveries!Report, Deliveries!Excuse, Deliveries!Delete,
         Deliveries!After, Deliveries!Uncounted
<1> SUFFICES /\ y \in Deliveries!Rows
             /\ y.sends <= 1 /\ y.tries <= MaxRetries + 1
             /\ y.state = "due" => y.tries <= MaxRetries /\ y.sends = 0
             /\ y.state = "dead" => y.tries = MaxRetries + 1 /\ y.sends = 0
  BY DEF Account
<1> HIDE DEF x, y
<1> QED BY <1>1, <1>2, OutboxAssumption DEF Deliveries!Rows, Deliveries!States

LEMMA Accounts == (\A n \in Notes : Account(n)) <=> Deliveries!Accounted
BY DEF Account, Deliveries!Accounted

LEMMA AccountsNext == (\A n \in Notes : Account(n))' <=> Deliveries!Accounted'
BY Accounts, PTL

\* What the ledger promises of every notification it has an account of.
THEOREM DeliveriesAreAccounted == Spec => []Deliveries!Accounted
<1>1. Init => Deliveries!Accounted
  <2>1. ASSUME Init, NEW n \in Notes PROVE Account(n)
    <3>1. Delivery(n) = [state |-> "absent", tries |-> 0, sends |-> 0]
      BY <2>1 DEF Init, Delivery, Stored, NoNote
    <3> QED BY <3>1, OutboxAssumption DEF Account, Deliveries!Rows, Deliveries!States
  <2> QED BY <2>1, Accounts
<1>2. DeliveryInv /\ [Next]_vars => (Deliveries!Accounted => Deliveries!Accounted')
  <2> SUFFICES ASSUME DeliveryInv, [Next]_vars, Deliveries!Accounted
               PROVE  Deliveries!Accounted'
    OBVIOUS
  <2>1. ASSUME NEW n \in Notes PROVE Account(n)'
    BY Accounts, LedgerStep, AccountStep
  <2> QED BY <2>1, AccountsNext
<1> QED BY <1>1, <1>2, DeliveryInvariant, PTL DEF Spec


-----------------------------------------------------------------------------
(* Reminders *)

Inserts(q, b) == Scheduling(q, b) /\ job[q].row # None

\* Unless two transactions looked for them at once, a booking has reminders or one
\* transaction is inserting them; and it is confirmed only with reminders.
RemindOK(b) ==
  /\ b \notin raced =>
       /\ \A m, n \in Notes : ReminderOf(m, b) /\ ReminderOf(n, b) => m = n
       /\ \A p, q \in Jobs : Inserts(p, b) /\ Inserts(q, b) => p = q
       /\ \A q \in Jobs : Inserts(q, b) => ~Reminded(b)
  /\ booking[b].status = "CONFIRMED" => Reminded(b)
  /\ \A q \in Jobs : HoldsBooking(q, b) /\ job[q].row = None => Reminded(b)

RemindInv == TypeInv /\ \A b \in Bookings : RemindOK(b)

LEMMA RemindKept ==
  ASSUME RemindInv, NEW b \in Bookings,
         \A n \in Notes : ReminderOf(n, b)' <=> ReminderOf(n, b),
         booking'[b].status = "CONFIRMED" => booking[b].status = "CONFIRMED",
         b \notin raced' => b \notin raced,
         \A q \in Jobs : /\ Inserts(q, b)' => Inserts(q, b)
                         /\ HoldsBooking(q, b)' /\ job'[q].row = None =>
                              HoldsBooking(q, b) /\ job[q].row = None
  PROVE  RemindOK(b)'
<1>1. Reminded(b)' <=> Reminded(b) BY DEF Reminded
<1> QED BY <1>1 DEF RemindInv, RemindOK

\* The same when no transaction that schedules reminders is touched.
LEMMA RemindUntouched ==
  ASSUME RemindInv, NEW b \in Bookings,
         \A n \in Notes : ReminderOf(n, b)' <=> ReminderOf(n, b),
         booking'[b].status = booking[b].status, b \in raced' <=> b \in raced,
         \A q \in Jobs : IsSchedule(q)' =>
           /\ IsSchedule(q) /\ job'[q].kind = job[q].kind
           /\ job'[q].booking = job[q].booking /\ job'[q].row = job[q].row
           /\ job'[q].ready = job[q].ready
  PROVE  RemindOK(b)'
<1>1. \A q \in Jobs : HoldsBooking(q, b)' => IsSchedule(q)'
  BY DEF HoldsBooking, IsSchedule
<1>2. \A q \in Jobs : /\ Inserts(q, b)' => Inserts(q, b)
                      /\ HoldsBooking(q, b)' /\ job'[q].row = None =>
                           HoldsBooking(q, b) /\ job[q].row = None
  BY <1>1 DEF Inserts, Scheduling, HoldsBooking
<1> QED BY <1>2, RemindKept

LEMMA SameRows ==
  ASSUME note' = note, NEW b
  PROVE  \A n \in Notes : ReminderOf(n, b)' <=> ReminderOf(n, b)
BY DEF ReminderOf, Stored

\* What the runs do, and how they end, is no business of the reminders'.
LEMMA RemindRuns ==
  ASSUME RemindInv, NEW q \in Jobs, NEW b \in Bookings, UNCHANGED <<booking, raced>>,
         \A n \in Notes : ReminderOf(n, b)' <=> ReminderOf(n, b),
         NEW r, Set(q, r), r.kind \notin {"confirm", "remind"}
  PROVE  RemindOK(b)'
<1>1. job'[q] = r /\ \A p \in Jobs \ {q} : job'[p] = job[p]
  BY SetIs DEF RemindInv, TypeInv
<1>2. \A p \in Jobs : IsSchedule(p)' => job'[p] = job[p] /\ IsSchedule(p)
  BY <1>1 DEF IsSchedule
<1> QED BY <1>2, RemindUntouched

LEMMA RemindMarks ==
  ASSUME RemindInv, NEW q \in Jobs, NEW n \in Notes, NEW b \in Bookings,
         MarkReported(q, n) \/ (\E ok \in BOOLEAN : Send(q, n, ok))
  PROVE  RemindOK(b)'
<1> USE DEF RemindInv, TypeInv
<1>1. PICK outcome \in Outcomes :
         /\ IsRun(q) /\ n \in job[q].todo
         /\ outcome = "retry" => job[q].copy[n].retries < MaxRetries
         /\ Set(q, Marking(job[q], n, outcome))
         /\ UNCHANGED <<booking, note, raced>>
  <2>1. CASE MarkReported(q, n)
    <3>1. /\ IsRun(q) /\ n \in job[q].todo /\ job[q].said # None
          /\ Set(q, Marking(job[q], n, Reported(job[q], n)))
          /\ UNCHANGED <<booking, note, raced>>
      BY <2>1 DEF MarkReported, Mark
    <3>2. job[q] \in Run /\ job[q].copy[n] # None
      BY <3>1, JobTyped DEF JobsOK, RunOK
    <3> QED BY <3>1, <3>2, ReportedTyped
  <2>2. ASSUME NEW ok \in BOOLEAN, Send(q, n, ok)
        PROVE  \E outcome \in Outcomes :
                 /\ IsRun(q) /\ n \in job[q].todo
                 /\ outcome = "retry" => job[q].copy[n].retries < MaxRetries
                 /\ Set(q, Marking(job[q], n, outcome))
                 /\ UNCHANGED <<booking, note, raced>>
    <3>1. /\ IsRun(q) /\ n \in job[q].todo
          /\ Set(q, Marking(job[q], n, SendOutcome(q, n, ok)))
          /\ UNCHANGED <<booking, note, raced>>
      BY <2>2 DEF Send, Mark
    <3> QED BY <3>1, SendOutcomeTyped
  <2> QED BY <2>1, <2>2
<1>2. job[q] \in Run /\ job[q].kind = "run" /\ job[q].copy[n] # None
  BY <1>1, JobTyped DEF JobsOK, RunOK, IsRun
<1>3. Marking(job[q], n, outcome).kind = "run" BY <1>2, MarkingRun
<1> QED BY <1>1, <1>3, SameRows, RemindRuns

LEMMA RemindRunSteps ==
  ASSUME RemindInv, NEW q \in Jobs, NEW b \in Bookings,
         \/ ListDue(q) \/ CommitRun(q) \/ RolledBack(q) \/ Victim(q)
         \/ \E n \in Notes, said \in {"sent", "failed", "dead"} : Report(q, n, said)
  PROVE  RemindOK(b)'
<1> USE DEF RemindInv, TypeInv
<1>1. CASE ListDue(q)
  <2> DEFINE r == NewRun({n \in Notes : IsDue(n)}, None)
  <2>1. Set(q, r) /\ UNCHANGED <<booking, note, raced>> BY <1>1 DEF ListDue
  <2>2. r.kind = "run" BY DEF NewRun
  <2> HIDE DEF r
  <2> QED BY <2>1, <2>2, SameRows, RemindRuns
<1>2. CASE RolledBack(q)
  BY <1>2, SameRows, RemindRuns DEF RolledBack, Drop, NoJob
<1>3. CASE CommitRun(q)
  <2>1. CASE job[q].lost
    BY <1>3, <2>1, SameRows, RemindRuns DEF CommitRun, RolledBack, Drop, NoJob
  <2>2. CASE ~job[q].lost
    <3>1. \A n \in Notes : ReminderOf(n, b)' <=> ReminderOf(n, b)
      BY <1>3, <2>2, CommitWrites DEF ReminderOf, Stored
    <3> QED BY <1>3, <2>2, <3>1, RemindRuns DEF CommitRun, Drop, NoJob
  <2> QED BY <2>1, <2>2
<1>4. CASE Victim(q)
  <2>1. PICK p \in Jobs \ {q} :
           /\ note' = note /\ UNCHANGED <<booking, raced>>
           /\ job'[q] = NoJob /\ job'[p].kind = "run"
           /\ \A o \in Jobs \ {p, q} : job'[o] = job[o]
    BY <1>4, VictimIs
  <2>2. \A o \in Jobs : IsSchedule(o)' => job'[o] = job[o] /\ IsSchedule(o)
    BY <2>1 DEF IsSchedule, NoJob
  <2> QED BY <2>1, <2>2, SameRows, RemindUntouched
<1>5. ASSUME NEW n \in Notes, NEW said \in {"sent", "failed", "dead"}, Report(q, n, said)
      PROVE  RemindOK(b)'
  <2> DEFINE r == NewRun({n}, said)
             outcome == Reported(r, n)
             marked == Marking(r, n, outcome)
  <2>1. /\ (Set(q, r) \/ Set(q, marked)) /\ UNCHANGED <<booking, note, raced>> /\ Stored(n)
    BY <1>5 DEF Report
  <2>2. r \in Run /\ r.kind = "run" /\ r.copy[n] # None /\ r.said = said
    <3>1. {n} \in SUBSET Notes /\ \A m \in {n} : Stored(m) BY <2>1
    <3> QED BY <3>1, NewRunIs
  <2> HIDE DEF r
  <2>3. /\ outcome \in Outcomes
        /\ outcome = "retry" => r.copy[n].retries < MaxRetries
    BY <2>2, ReportedTyped, NoneAssumption DEF Outcomes
  <2> HIDE DEF outcome
  <2>4. marked.kind = "run" BY <2>2, MarkingRun
  <2> HIDE DEF marked
  <2> QED BY <2>1, <2>2, <2>4, SameRows, RemindRuns
<1> QED BY <1>1, <1>2, <1>3, <1>4, <1>5


LEMMA RemindBooking ==
  ASSUME RemindInv, NEW d \in Bookings, BookingNext(d), NEW b \in Bookings
  PROVE  RemindOK(b)'
<1> USE DEF RemindInv, TypeInv
<1>1. CASE \E t \in Starts : Reschedule(d, t)
  <2>1. booking'[b].status = booking[b].status /\ UNCHANGED <<note, job, raced>>
    BY <1>1 DEF Reschedule, TypeOK, BookingRow
  <2> QED BY <2>1, SameRows, RemindUntouched DEF IsSchedule
<1>2. CASE Close(d)
  <2>1. /\ booking'[b].status = "CONFIRMED" => booking[b].status = "CONFIRMED"
        /\ UNCHANGED <<note, job, raced>>
    BY <1>2 DEF Close, TypeOK, BookingRow
  <2>2. \A q \in Jobs : /\ Inserts(q, b)' => Inserts(q, b)
                        /\ HoldsBooking(q, b)' => HoldsBooking(q, b)
    BY <2>1 DEF Inserts, Scheduling, IsSchedule, HoldsBooking
  <2> QED BY <2>1, <2>2, SameRows, RemindKept
<1>3. CASE Clear(d)
  <2>1. PICK lost \in SUBSET {q \in Jobs : IsRun(q) /\ job[q].said = None} :
          job' = [q \in Jobs |-> IF q \in lost THEN [job[q] EXCEPT !.lost = TRUE]
                                 ELSE job[q]]
    BY <1>3 DEF Clear
  <2>2. ASSUME NEW q \in Jobs, IsSchedule(q)' PROVE IsSchedule(q) /\ job'[q] = job[q]
    <3>1. CASE q \in lost
      <4>1. job[q] \in Run /\ job[q].kind = "run" BY <3>1, JobTyped DEF IsRun
      <4>2. job'[q] = [job[q] EXCEPT !.lost = TRUE] BY <2>1, <3>1
      <4>3. job'[q].kind = "run" BY <4>1, <4>2 DEF Run
      <4> QED BY <2>2, <4>3 DEF IsSchedule
    <3>2. CASE q \notin lost
      <4>1. job'[q] = job[q] BY <2>1, <3>2
      <4> QED BY <2>2, <4>1 DEF IsSchedule
    <3> QED BY <3>1, <3>2
  <2>3. note' = [n \in Notes |-> IF note[n].booking = d THEN NoNote ELSE note[n]]
    BY <1>3 DEF Clear
  <2>4. CASE b # d
    <3>1. \A n \in Notes : ReminderOf(n, b)' <=> ReminderOf(n, b)
      BY <2>3, <2>4, OutboxAssumption DEF ReminderOf, Stored, NoNote
    <3>2. booking'[b] = booking[b] /\ (b \in raced' <=> b \in raced)
      BY <1>3, <2>4 DEF Clear, TypeOK
    <3> QED BY <2>2, <3>1, <3>2, RemindUntouched
  <2>5. CASE b = d
    <3>1. booking'[b].status = "ABSENT" BY <1>3, <2>5 DEF Clear, TypeOK
    <3>2. \A n \in Notes : ~ReminderOf(n, b)'
      BY <2>3, <2>5 DEF ReminderOf, Stored, NoNote
    <3>3. ASSUME NEW q \in Jobs, Scheduling(q, b)'
          PROVE  ~job'[q].ready /\ job'[q].row = None
      <4>1. IsSchedule(q) /\ job'[q] = job[q] /\ job[q].booking = b
        BY <2>2, <3>3 DEF Scheduling
      <4>2. ~job[q].ready BY <1>3, <2>5, <4>1 DEF Clear, Scheduling
      <4>3. RowOK(q) BY DEF JobsOK
      <4> QED BY <4>1, <4>2, <4>3 DEF RowOK
    <3>4. \A q \in Jobs : ~Inserts(q, b)' /\ ~HoldsBooking(q, b)'
      BY <3>3 DEF Inserts, HoldsBooking, Scheduling, IsSchedule
    <3> QED BY <3>1, <3>2, <3>4 DEF RemindOK
  <2> QED BY <2>4, <2>5
<1> QED BY <1>1, <1>2, <1>3 DEF BookingNext

LEMMA RemindInserting ==
  ASSUME RemindInv, NEW q \in Jobs, NEW kind \in {"confirm", "remind"}, NEW d \in Bookings,
         NEW start, NEW minutes, Inserting(q, kind, d, start, minutes), ~Inserts(q, d),
         IsSchedule(q) => job[q].booking = d,
         UNCHANGED <<booking, note>>, NEW b \in Bookings
  PROVE  RemindOK(b)'
<1> USE DEF RemindInv, TypeInv
<1> DEFINE rivals == {p \in Jobs \ {q} : Scheduling(p, d) /\ job[p].row # None}
<1>1. PICK n \in (IF Reminded(d) THEN {None} ELSE Unused) :
         /\ Set(q, [kind |-> kind, booking |-> d, ready |-> TRUE, row |-> n,
                    start |-> 0, wait |-> IF n = None THEN 0 ELSE SendIn(start, minutes)])
         /\ raced' = IF n # None /\ rivals # {} THEN raced \union {d} ELSE raced
  BY DEF Inserting
<1>2. /\ job'[q].kind = kind /\ job'[q].booking = d /\ job'[q].row = n /\ job'[q].ready
      /\ \A p \in Jobs \ {q} : job'[p] = job[p]
  BY <1>1, SetIs
<1>3. \A p \in Jobs \ {q} : \A c :
        /\ Inserts(p, c)' <=> Inserts(p, c)
        /\ HoldsBooking(p, c)' <=> HoldsBooking(p, c)
  BY <1>2 DEF Inserts, Scheduling, IsSchedule, HoldsBooking
<1>4. \A m \in Notes : \A c : ReminderOf(m, c)' <=> ReminderOf(m, c) BY SameRows
<1>5. CASE b # d
  <2>1. ~Inserts(q, b)' /\ ~HoldsBooking(q, b)'
    BY <1>2, <1>5 DEF Inserts, Scheduling, HoldsBooking
  <2>2. b \notin raced' => b \notin raced BY <1>1
  <2> QED BY <1>2, <1>3, <1>4, <2>1, <2>2, RemindKept
<1>6. CASE b = d
  <2>1. RemindOK(b) /\ (Reminded(b)' <=> Reminded(b)) BY <1>4 DEF Reminded
  <2>2. n = None => Reminded(b) BY <1>1, <1>6, UnusedIs, OutboxAssumption
  <2>3. n # None => ~Reminded(b) BY <1>1, <1>6
  <2>4. Inserts(q, b)' => n # None BY <1>2 DEF Inserts
  <2>5. b \notin raced' => b \notin raced /\ (n # None => rivals = {})
    BY <1>1, <1>6
  <2>6. rivals = {} => \A p \in Jobs \ {q} : ~Inserts(p, b)
    BY <1>6 DEF Inserts
  <2>7. b \notin raced' =>
          /\ \A m, o \in Notes : ReminderOf(m, b)' /\ ReminderOf(o, b)' => m = o
          /\ \A p, o \in Jobs : Inserts(p, b)' /\ Inserts(o, b)' => p = o
          /\ \A p \in Jobs : Inserts(p, b)' => ~Reminded(b)'
    BY <1>3, <1>4, <2>1, <2>3, <2>4, <2>5, <2>6 DEF RemindOK
  <2>8. \A p \in Jobs : HoldsBooking(p, b)' /\ job'[p].row = None => Reminded(b)'
    BY <1>2, <1>3, <2>1, <2>2 DEF RemindOK
  <2> QED BY <2>1, <2>7, <2>8 DEF RemindOK
<1> QED BY <1>5, <1>6

LEMMA RemindBegin ==
  ASSUME RemindInv, NEW q \in Jobs, NEW d \in Bookings,
         BeginConfirm(q, d) \/ Reminds(q, d) \/ WriteConfirm(q), NEW b \in Bookings
  PROVE  RemindOK(b)'
<1> USE DEF RemindInv, TypeInv
<1>1. CASE BeginConfirm(q, d)
  <2> DEFINE r == [kind |-> "confirm", booking |-> d, ready |-> FALSE, row |-> None,
                   start |-> booking[d].start, wait |-> 0]
  <2>1. Set(q, r) /\ UNCHANGED <<booking, note, raced>>
    BY <1>1 DEF BeginConfirm, Counted
  <2>2. r.row = None /\ ~r.ready OBVIOUS
  <2> HIDE DEF r
  <2>3. job'[q] = r /\ \A p \in Jobs \ {q} : job'[p] = job[p] BY <2>1, SetIs
  <2>4. \A p \in Jobs : /\ Inserts(p, b)' => Inserts(p, b)
                        /\ HoldsBooking(p, b)' /\ job'[p].row = None =>
                             HoldsBooking(p, b) /\ job[p].row = None
    BY <2>2, <2>3 DEF Inserts, Scheduling, IsSchedule, HoldsBooking
  <2> QED BY <2>1, <2>4, SameRows, RemindKept
<1>2. ASSUME NEW minutes \in Minutes, BeginRemind(q, d, minutes) PROVE RemindOK(b)'
  <2>1. /\ Inserting(q, "remind", d, booking[d].start, minutes) /\ ~IsSchedule(q)
        /\ UNCHANGED <<booking, note>>
    BY <1>2, JobTyped DEF BeginRemind
  <2> QED BY <2>1, RemindInserting DEF Inserts, Scheduling
<1>3. CASE WriteConfirm(q)
  <2>1. IsSchedule(q) /\ job[q] \in Schedule /\ RowOK(q) /\ ~job[q].ready
        /\ UNCHANGED <<booking, note>>
    BY <1>3, JobTyped DEF WriteConfirm, IsSchedule, JobsOK
  <2>2. CASE Inserting(q, "confirm", job[q].booking, job[q].start, Before)
    <3>1. ~Inserts(q, job[q].booking) /\ job[q].booking \in Bookings
      BY <2>1 DEF RowOK, Inserts, Schedule
    <3> QED BY <2>1, <2>2, <3>1, RemindInserting
  <2>3. CASE Drop(q) /\ UNCHANGED raced
    BY <2>1, <2>3, SameRows, RemindRuns DEF Drop, NoJob
  <2> QED BY <1>3, <2>2, <2>3 DEF WriteConfirm
<1> QED BY <1>1, <1>2, <1>3 DEF Reminds

\* The commit of a confirmation leaves the booking with the reminders that were
\* there or that it has inserted.
LEMMA RemindCommit ==
  ASSUME RemindInv, NEW q \in Jobs, CommitSchedule(q), NEW b \in Bookings
  PROVE  RemindOK(b)'
<1> USE DEF RemindInv, TypeInv
<1> DEFINE d == job[q].booking
           n == job[q].row
           row == [status |-> "QUEUED", booking |-> d, retries |-> 0, wait |-> job[q].wait]
<1>1. job[q] \in Schedule /\ IsSchedule(q) /\ Drop(q) /\ RowOK(q) /\ job[q].ready
      /\ raced' = raced
  BY JobTyped DEF CommitSchedule, JobsOK
<1>2. d \in Bookings /\ n \in Notes \union {None} BY <1>1 DEF Schedule
<1>3. job'[q] = NoJob /\ \A p \in Jobs \ {q} : job'[p] = job[p]
  BY <1>1, SetIs DEF Drop
<1>4. \A p \in Jobs : \A c :
        /\ Inserts(p, c)' => Inserts(p, c) /\ p # q
        /\ HoldsBooking(p, c)' => HoldsBooking(p, c) /\ p # q
        /\ p # q => job'[p].row = job[p].row
  BY <1>3 DEF Inserts, Scheduling, IsSchedule, HoldsBooking, NoJob
<1>5. /\ booking' = IF job[q].kind = "confirm"
                    THEN [booking EXCEPT ![d].status = "CONFIRMED"] ELSE booking
      /\ n = None => note' = note
      /\ n # None => Queue(n, row, 0)
  BY DEF CommitSchedule
<1>6. row.booking = d /\ row.status = "QUEUED" OBVIOUS
<1> HIDE DEF row
<1>7. ASSUME NEW m \in Notes, NEW c
      PROVE  ReminderOf(m, c)' <=> ReminderOf(m, c) \/ (m = n /\ c = d)
  <2>1. CASE n = None
    BY <1>2, <1>5, <2>1, OutboxAssumption DEF ReminderOf, Stored
  <2>2. CASE n # None
    <3>1. ~Stored(n) /\ n \in Notes BY <1>1, <1>2, <2>2 DEF RowOK, NewRow
    <3>2. note' = [note EXCEPT ![n] = row] BY <1>5, <2>2 DEF Queue
    <3> QED BY <1>6, <3>1, <3>2 DEF ReminderOf, Stored, TypeOK
  <2> QED BY <2>1, <2>2
<1>8. CASE b # d
  <2>1. booking'[b] = booking[b] BY <1>2, <1>5, <1>8 DEF TypeOK
  <2> QED BY <1>1, <1>4, <1>7, <1>8, <2>1, RemindKept
<1>9. CASE b = d
  <2>1. RemindOK(b) OBVIOUS
  <2>2. Reminded(b) => Reminded(b)' BY <1>7 DEF Reminded
  <2>3. n # None => Reminded(b)' /\ Inserts(q, b)
    BY <1>1, <1>2, <1>7, <1>9 DEF Reminded, Inserts, Scheduling
  <2>4. CASE n = None
    <3>1. \A m \in Notes : ReminderOf(m, b)' <=> ReminderOf(m, b)
      BY <1>2, <1>7, <2>4, OutboxAssumption
    <3>2. Reminded(b)' <=> Reminded(b) BY <3>1 DEF Reminded
    <3>3. booking'[b].status = "CONFIRMED" => Reminded(b)'
      <4>1. CASE job[q].kind = "confirm"
        <5>1. HoldsBooking(q, b) BY <1>1, <1>9, <4>1 DEF HoldsBooking
        <5> QED BY <2>1, <2>4, <3>2, <5>1 DEF RemindOK
      <4>2. CASE job[q].kind # "confirm" BY <1>5, <2>1, <3>2, <4>2 DEF RemindOK
      <4> QED BY <4>1, <4>2
    <3> QED BY <1>1, <1>4, <2>1, <3>1, <3>2, <3>3 DEF RemindOK
  <2>5. CASE n # None
    <3>1. b \notin raced => /\ \A m \in Notes : ~ReminderOf(m, b)
                            /\ \A p \in Jobs : Inserts(p, b) => p = q
      BY <2>1, <2>3, <2>5 DEF RemindOK, Reminded
    <3>2. b \notin raced =>
            /\ \A m, o \in Notes : ReminderOf(m, b)' /\ ReminderOf(o, b)' => m = o
            /\ \A p \in Jobs : ~Inserts(p, b)'
      BY <1>4, <1>7, <3>1
    <3> QED BY <1>1, <2>3, <2>5, <3>2 DEF RemindOK
  <2> QED BY <2>4, <2>5
<1> QED BY <1>8, <1>9

LEMMA RemindQueueRetry ==
  ASSUME RemindInv, NEW n \in Notes, QueueRetry(n), NEW b \in Bookings
  PROVE  RemindOK(b)'
<1> USE DEF RemindInv, TypeInv
<1>1. PICK row : Queue(n, row, 1) /\ row.booking = None
  BY DEF QueueRetry
<1>2. ~Stored(n) /\ UNCHANGED <<booking, job, raced>> BY UnusedIs DEF QueueRetry
<1>3. note' = [note EXCEPT ![n] = row] BY <1>1 DEF Queue
<1>4. \A m \in Notes : ReminderOf(m, b)' <=> ReminderOf(m, b)
  BY <1>1, <1>2, <1>3, OutboxAssumption DEF ReminderOf, Stored, TypeOK
<1> QED BY <1>2, <1>4, RemindUntouched DEF IsSchedule

LEMMA RemindTick ==
  ASSUME RemindInv, Tick, NEW b \in Bookings
  PROVE  RemindOK(b)'
<1> USE DEF RemindInv, TypeInv
<1>1. \A n \in Notes : ReminderOf(n, b)' <=> ReminderOf(n, b)
  BY TickIs DEF ReminderOf, Stored
<1>2. ASSUME NEW q \in Jobs, IsSchedule(q)'
      PROVE  /\ IsSchedule(q) /\ job'[q].kind = job[q].kind
             /\ job'[q].booking = job[q].booking /\ job'[q].row = job[q].row
             /\ job'[q].ready = job[q].ready
  BY <1>2, TickIs, TickJobTyped DEF IsSchedule
<1>3. booking'[b].status = booking[b].status /\ raced' = raced
  BY TickIs DEF Tick, Counted
<1> QED BY <1>1, <1>2, <1>3, RemindUntouched

LEMMA RemindStep ==
  ASSUME RemindInv, [Next]_vars
  PROVE  RemindInv'
<1> SUFFICES ASSUME NEW b \in Bookings PROVE RemindOK(b)'
  BY TypesStep DEF RemindInv
<1>1. ASSUME NEW q \in Jobs, Crash(q) PROVE RemindOK(b)'
  BY <1>1, RemindRunSteps DEF Crash
<1>2. ASSUME NEW q \in Jobs, Work(q) PROVE RemindOK(b)'
  <2>1. CASE WriteConfirm(q)
    <3>1. job[q].booking \in Bookings
      BY <2>1, JobTyped DEF WriteConfirm, RemindInv, TypeInv, IsSchedule, Schedule
    <3> QED BY <2>1, <3>1, RemindBegin
  <2> QED BY <1>2, <2>1, RemindCommit, RemindMarks, RemindRunSteps DEF Work
<1>3. CASE UNCHANGED vars
  BY <1>3, SameRows, RemindUntouched DEF vars, IsSchedule
<1>4. ASSUME NEW q \in Jobs, ListDue(q) \/
               \E n \in Notes, said \in {"sent", "failed", "dead"} : Report(q, n, said)
      PROVE  RemindOK(b)'
  BY <1>4, RemindRunSteps
<1> QED
  BY <1>1, <1>2, <1>3, <1>4, RemindBooking, RemindBegin, RemindQueueRetry, RemindTick
  DEF Next, Reminds

LEMMA RemindInit ==
  ASSUME Init
  PROVE  RemindInv
<1>1. ASSUME NEW b \in Bookings PROVE RemindOK(b)
  BY DEF Init, RemindOK, Reminded, ReminderOf, Stored, NoNote, Inserts, Scheduling,
         IsSchedule, HoldsBooking, NoJob
<1> QED BY <1>1, TypesInit DEF RemindInv

THEOREM RemindInvariant == Spec => []RemindInv
BY RemindInit, RemindStep, PTL DEF Spec

\* A booking has its reminders at most once, unless two transactions looked for them
\* at the same time.
THEOREM RemindedOnceProof == Spec => []RemindedOnce
<1>1. RemindInv => RemindedOnce BY DEF RemindInv, RemindOK, RemindedOnce
<1> QED BY <1>1, RemindInvariant, PTL

\* Every confirmed booking has its reminders.
THEOREM ConfirmedRemindedProof == Spec => []ConfirmedReminded
<1>1. RemindInv => ConfirmedReminded
  BY DEF RemindInv, RemindOK, ConfirmedReminded, Reminded
<1> QED BY <1>1, RemindInvariant, PTL


-----------------------------------------------------------------------------
(* Times *)

\* Unless the booking was moved, its start is no later than the lead after the
\* moment its reminder is due, as inserted, as stored and as marked.
TimeOK(b) ==
  /\ \A q \in Jobs : HoldsBooking(q, b) => Exists(b)
  /\ b \notin moved =>
       /\ \A n \in Notes \ excused : ReminderOf(n, b) =>
            /\ booking[b].start <= note[n].wait + lead[n]
            /\ \A q \in Jobs : Locks(q, n) /\ job[q].did[n] = "retry" =>
                 booking[b].start <= lead[n]
       /\ \A q \in Jobs : Inserts(q, b) =>
            booking[b].start <= job[q].wait + lead[job[q].row]
       /\ \A q \in Jobs : Scheduling(q, b) /\ ~job[q].ready /\ Exists(b) =>
            job[q].start = booking[b].start

TimeInv == DeliveryInv /\ \A b \in Bookings : TimeOK(b)

LEMMA StartTyped ==
  ASSUME TypeOK, NEW b \in Bookings
  PROVE  booking[b].start \in Nat /\ \A n \in Notes : lead[n] \in Nat
BY DEF TypeOK, BookingRow

\* An action that leaves the start, the bookings' transactions and the countdowns.
LEMMA TimeKept ==
  ASSUME TimeInv, NEW b \in Bookings,
         booking'[b].start = booking[b].start, Exists(b)' <=> Exists(b), moved' = moved,
         \A q \in Jobs :
           /\ HoldsBooking(q, b)' => HoldsBooking(q, b)
           /\ Inserts(q, b)' => /\ Inserts(q, b) /\ job'[q].wait = job[q].wait
                               /\ lead'[job'[q].row] = lead[job[q].row]
           /\ Scheduling(q, b)' /\ ~job'[q].ready =>
                Scheduling(q, b) /\ ~job[q].ready /\ job'[q].start = job[q].start,
         b \notin moved => \A n \in Notes \ excused' : ReminderOf(n, b)' =>
           /\ booking[b].start <= note'[n].wait + lead'[n]
           /\ \A q \in Jobs : Locks(q, n)' /\ job'[q].did[n] = "retry" =>
                booking[b].start <= lead'[n]
  PROVE  TimeOK(b)'
BY DEF TimeInv, TimeOK

\* The part of a row that an action does not touch.
RowKept(n, b) ==
  n \notin excused' /\ ReminderOf(n, b)' =>
    /\ n \notin excused /\ ReminderOf(n, b)
    /\ note'[n].wait = note[n].wait /\ lead'[n] = lead[n]
    /\ \A q \in Jobs : Locks(q, n)' /\ job'[q].did[n] = "retry" =>
         Locks(q, n) /\ job[q].did[n] = "retry"

LEMMA RowTimes ==
  ASSUME TimeInv, NEW b \in Bookings, b \notin moved, NEW n \in Notes \ excused',
         RowKept(n, b), ReminderOf(n, b)'
  PROVE  /\ booking[b].start <= note'[n].wait + lead'[n]
         /\ \A q \in Jobs : Locks(q, n)' /\ job'[q].did[n] = "retry" =>
              booking[b].start <= lead'[n]
BY DEF TimeInv, TimeOK, RowKept

\* A transaction changed that does not schedule reminders, before or after.
LEMMA TimeRuns ==
  ASSUME TimeInv, NEW q \in Jobs, NEW b \in Bookings, UNCHANGED <<booking, moved>>,
         NEW r, Set(q, r), r.kind \notin {"confirm", "remind"},
         \A p \in Jobs \ {q} : Inserts(p, b) => lead'[job[p].row] = lead[job[p].row],
         b \notin moved => \A n \in Notes \ excused' : ReminderOf(n, b)' =>
           /\ booking[b].start <= note'[n].wait + lead'[n]
           /\ \A p \in Jobs : Locks(p, n)' /\ job'[p].did[n] = "retry" =>
                booking[b].start <= lead'[n]
  PROVE  TimeOK(b)'
<1>1. job'[q] = r /\ \A p \in Jobs \ {q} : job'[p] = job[p]
  BY SetIs DEF TimeInv, DeliveryInv, TypeInv
<1>2. \A p \in Jobs :
        /\ HoldsBooking(p, b)' => HoldsBooking(p, b)
        /\ Inserts(p, b)' => /\ Inserts(p, b) /\ job'[p].wait = job[p].wait
                            /\ lead'[job'[p].row] = lead[job[p].row]
        /\ Scheduling(p, b)' /\ ~job'[p].ready =>
             Scheduling(p, b) /\ ~job[p].ready /\ job'[p].start = job[p].start
  BY <1>1 DEF HoldsBooking, Inserts, Scheduling, IsSchedule
<1>3. Exists(b)' <=> Exists(b) BY DEF Exists
<1> QED BY <1>2, <1>3, TimeKept

\* Only a run that finds its row due puts it off, so the reminder's time has come.
LEMMA DueSoon ==
  ASSUME TimeInv, NEW b \in Bookings, b \notin moved, NEW n \in Notes \ excused,
         ReminderOf(n, b), NEW q \in Jobs, IsRun(q), job[q].said = None, n \in job[q].todo
  PROVE  booking[b].start <= lead[n]
<1> USE DEF TimeInv, DeliveryInv, TypeInv
<1>1. Listed(q, n) BY DEF JobsOK, RunOK, Listed
<1>2. note[n].wait = 0 BY <1>1 DEF NoteOK, ListedOK, ReminderOf
<1>3. booking[b].start <= note[n].wait + lead[n] BY DEF TimeOK
<1> QED BY <1>2, <1>3, StartTyped

LEMMA TimeSend ==
  ASSUME TimeInv, NEW q \in Jobs, NEW m \in Notes, NEW ok \in BOOLEAN, Send(q, m, ok),
         NEW b \in Bookings
  PROVE  TimeOK(b)'
<1> USE DEF TimeInv, DeliveryInv, TypeInv
<1> DEFINE r == Marking(job[q], m, SendOutcome(q, m, ok))
<1>1. /\ IsRun(q) /\ m \in job[q].todo /\ job[q].said = None /\ Set(q, r)
      /\ UNCHANGED <<booking, note, excused, moved, lead>>
  BY DEF Send, Mark
<1>2. /\ SendOutcome(q, m, ok) \in Outcomes
      /\ SendOutcome(q, m, ok) = "retry" => job[q].copy[m].retries < MaxRetries
  BY <1>1, SendOutcomeTyped
<1>3. job[q] \in Run /\ job[q].kind = "run" /\ job[q].copy[m] # None
  BY <1>1, JobTyped DEF JobsOK, RunOK, IsRun
<1>4. r.kind = "run" BY <1>3, MarkingRun
<1>5. /\ \A p \in Jobs \ {q} : job'[p] = job[p]
      /\ \A k \in Notes \ {m} : KeptLister(q, k)
  BY <1>1, <1>2, DeliveryMark
<1> HIDE DEF r
<1>6. ASSUME b \notin moved, NEW n \in Notes \ excused', ReminderOf(n, b)'
      PROVE  /\ booking[b].start <= note'[n].wait + lead'[n]
             /\ \A p \in Jobs : Locks(p, n)' /\ job'[p].did[n] = "retry" =>
                  booking[b].start <= lead'[n]
  <2>1. ReminderOf(n, b) /\ n \notin excused BY <1>1, <1>6 DEF ReminderOf, Stored
  <2>2. CASE n = m
    <3>1. booking[b].start <= lead[n] BY <1>1, <1>6, <2>1, <2>2, DueSoon
    <3> QED BY <1>1, <1>6, <2>1, <3>1 DEF TimeOK
  <2>3. CASE n # m
    <3>1. KeptLister(q, n) BY <1>5, <2>3
    <3>2. Locks(q, n)' => Locks(q, n) /\ job'[q].did[n] = job[q].did[n]
      <4>1. Locks(q, n)' => Listed(q, n)'
        <5>1. RunOK(q)' BY <1>1, <1>2, MarkJobs DEF r, JobsOK
        <5> QED BY <5>1 DEF RunOK, Locks, Listed
      <4> QED BY <1>1, <3>1, <4>1 DEF KeptLister, Locks
    <3>3. \A p \in Jobs \ {q} : Locks(p, n)' => Locks(p, n) /\ job'[p] = job[p]
      BY <1>5 DEF Locks, IsRun
    <3>4. RowKept(n, b) BY <1>1, <2>1, <3>2, <3>3 DEF RowKept
    <3> QED BY <1>6, <3>4, RowTimes
  <2> QED BY <2>2, <2>3
<1> QED BY <1>1, <1>4, <1>6, TimeRuns


\* A row that no action of a run reports as failed keeps its countdown.
LEMMA TimeMarkReported ==
  ASSUME TimeInv, NEW q \in Jobs, NEW m \in Notes, MarkReported(q, m), NEW b \in Bookings
  PROVE  TimeOK(b)'
<1> USE DEF TimeInv, DeliveryInv, TypeInv
<1> DEFINE outcome == Reported(job[q], m)
           r == Marking(job[q], m, outcome)
<1>1. /\ IsRun(q) /\ m \in job[q].todo /\ job[q].said # None /\ Set(q, r)
      /\ UNCHANGED <<booking, note, excused, moved, lead>>
  BY DEF MarkReported, Mark
<1>2. job[q] \in Run /\ job[q].kind = "run" /\ job[q].copy[m] # None
  BY <1>1, JobTyped DEF JobsOK, RunOK, IsRun
<1>3. /\ outcome \in Outcomes /\ (outcome = "retry" => job[q].copy[m].retries < MaxRetries)
      /\ job[q].said = "sent" <=> outcome = "sent"
  BY <1>1, <1>2, ReportedTyped
<1> HIDE DEF outcome
<1>4. r.kind = "run" BY <1>2, MarkingRun
<1>5. /\ \A p \in Jobs \ {q} : job'[p] = job[p]
      /\ Listed(q, m) /\ job'[q].did[m] = IF Stored(m) THEN outcome ELSE None
      /\ \A k \in Notes \ {m} : KeptLister(q, k)
  BY <1>1, <1>3, DeliveryMark
<1>6. RunOK(q)' BY <1>1, <1>3, MarkJobs DEF JobsOK
<1> HIDE DEF r
<1>7. ASSUME b \notin moved, NEW n \in Notes \ excused', ReminderOf(n, b)' PROVE RowKept(n, b)
  <2>1. ReminderOf(n, b) /\ n \notin excused BY <1>1, <1>7 DEF ReminderOf, Stored
  <2>2. \A p \in Jobs \ {q} : Locks(p, n)' => Locks(p, n) /\ job'[p] = job[p]
    BY <1>5 DEF Locks, IsRun
  <2>3. CASE n = m
    <3>1. ListedOK(q, n) BY <1>5, <2>1, <2>3 DEF NoteOK
    <3>2. outcome = "sent" BY <1>1, <1>3, <3>1 DEF ListedOK
    <3>3. job'[q].did[n] # "retry" BY <1>5, <2>3, <3>2, NoneAssumption DEF Outcomes
    <3> QED BY <1>1, <2>1, <2>2, <3>3 DEF RowKept
  <2>4. CASE n # m
    <3>1. KeptLister(q, n) BY <1>5, <2>4
    <3>2. Locks(q, n)' => Locks(q, n) /\ job'[q].did[n] = job[q].did[n]
      <4>1. Locks(q, n)' => Listed(q, n)' BY <1>6 DEF RunOK, Locks, Listed
      <4> QED BY <1>1, <3>1, <4>1 DEF KeptLister, Locks
    <3> QED BY <1>1, <2>1, <2>2, <3>2 DEF RowKept
  <2> QED BY <2>3, <2>4
<1> QED BY <1>1, <1>4, <1>7, RowTimes, TimeRuns

LEMMA TimeListDue ==
  ASSUME TimeInv, NEW q \in Jobs, ListDue(q), NEW b \in Bookings
  PROVE  TimeOK(b)'
<1> USE DEF TimeInv, DeliveryInv, TypeInv
<1> DEFINE due == {n \in Notes : IsDue(n)}
           r == NewRun(due, None)
<1>1. /\ Set(q, r) /\ UNCHANGED <<booking, note, moved, lead>> /\ Excuse(Overlapped(due))
  BY DEF ListDue
<1>2. due \in SUBSET Notes /\ \A n \in due : Stored(n) BY RowsTyped
<1> HIDE DEF due
<1>3. r.kind = "run" /\ \A n \in Notes : r.did[n] = None BY <1>2, NewRunIs
<1> HIDE DEF r
<1>4. job'[q] = r /\ \A p \in Jobs \ {q} : job'[p] = job[p] BY <1>1, SetIs
<1>5. ASSUME NEW n \in Notes \ excused', ReminderOf(n, b)' PROVE RowKept(n, b)
  <2>1. \A p \in Jobs : Locks(p, n)' => Locks(p, n) /\ job'[p] = job[p]
    BY <1>3, <1>4 DEF Locks, IsRun
  <2> QED BY <1>1, <1>5, <2>1, ExcuseKept DEF RowKept, ReminderOf, Stored
<1> QED BY <1>1, <1>3, <1>5, RowTimes, TimeRuns

LEMMA TimeReport ==
  ASSUME TimeInv, NEW q \in Jobs, NEW m \in Notes,
         NEW said \in {"sent", "failed", "dead"}, Report(q, m, said), NEW b \in Bookings
  PROVE  TimeOK(b)'
<1> USE DEF TimeInv, DeliveryInv, TypeInv
<1> DEFINE r == NewRun({m}, said)
           marked == Marking(r, m, Reported(r, m))
<1>1. /\ (Set(q, r) \/ Set(q, marked)) /\ Stored(m)
      /\ UNCHANGED <<booking, note, moved, lead>>
      /\ Excuse(Overlapped({m}) \union (IF said = "sent" THEN {} ELSE {m}))
  BY DEF Report
<1>2. r \in Run /\ r.kind = "run" /\ r.said = said
      /\ \A n \in Notes : r.did[n] = None /\ (n = m => r.copy[n] # None)
  <2>1. {m} \in SUBSET Notes /\ \A k \in {m} : Stored(k) BY <1>1
  <2> QED BY <2>1, NewRunIs
<1> HIDE DEF r
<1>3. /\ Reported(r, m) \in Outcomes
      /\ Reported(r, m) = "retry" => r.copy[m].retries < MaxRetries
      /\ said = "sent" <=> Reported(r, m) = "sent"
  BY <1>2, ReportedTyped, NoneAssumption DEF Outcomes
<1>4. /\ marked \in Run /\ marked.kind = "run"
      /\ marked.did = [r.did EXCEPT ![m] = IF Stored(m) THEN Reported(r, m) ELSE @]
  BY <1>2, <1>3, MarkingIs
<1>5. /\ marked.did[m] = Reported(r, m)
      /\ \A n \in Notes \ {m} : marked.did[n] = None
  BY <1>1, <1>2, <1>4 DEF Run
<1> HIDE DEF marked
<1>6. /\ \A p \in Jobs \ {q} : job'[p] = job[p]
      /\ job'[q] = r \/ job'[q] = marked
  BY <1>1, SetIs
<1>7. ASSUME NEW n \in Notes \ excused', ReminderOf(n, b)' PROVE RowKept(n, b)
  <2>1. \A p \in Jobs \ {q} : Locks(p, n)' => Locks(p, n) /\ job'[p] = job[p]
    BY <1>6 DEF Locks, IsRun
  <2>2. n = m => said = "sent" BY <1>1, <1>7, ExcuseKept
  <2>3. job'[q].did[n] # "retry" BY <1>2, <1>3, <1>5, <1>6, <2>2, NoneAssumption DEF Outcomes
  <2> QED BY <1>1, <1>7, <2>1, <2>3, ExcuseKept DEF RowKept, ReminderOf, Stored
<1> QED BY <1>1, <1>2, <1>4, <1>7, RowTimes, TimeRuns

LEMMA TimeRolledBack ==
  ASSUME TimeInv, NEW q \in Jobs, RolledBack(q), NEW b \in Bookings
  PROVE  TimeOK(b)'
<1> USE DEF TimeInv, DeliveryInv, TypeInv
<1>1. Set(q, NoJob) /\ UNCHANGED <<booking, note, moved>> /\ Excuse(Touched(q))
  BY DEF RolledBack, Drop
<1>2. job'[q] = NoJob /\ \A p \in Jobs \ {q} : job'[p] = job[p] BY <1>1, SetIs
<1>3. ASSUME NEW n \in Notes, IsSchedule(q) => job[q].row # n PROVE lead'[n] = lead[n]
  BY <1>3 DEF RolledBack
<1>4. ASSUME NEW n \in Notes \ excused', ReminderOf(n, b)' PROVE RowKept(n, b)
  <2>1. \A p \in Jobs : Locks(p, n)' => Locks(p, n) /\ job'[p] = job[p]
    BY <1>2 DEF Locks, IsRun, NoJob
  <2>2. ReminderOf(n, b) BY <1>1, <1>4 DEF ReminderOf, Stored
  <2>3. IsSchedule(q) => job[q].row # n
    BY <2>2, OutboxAssumption DEF JobsOK, RowOK, NewRow, ReminderOf
  <2>4. lead'[n] = lead[n] BY <1>3, <2>3
  <2> QED BY <1>1, <1>4, <2>1, <2>4, ExcuseKept DEF RowKept, ReminderOf, Stored
<1>5. ASSUME NEW p \in Jobs \ {q}, Inserts(p, b) PROVE lead'[job[p].row] = lead[job[p].row]
  <2>1. job[p] \in Schedule /\ job[p].row # None /\ RowOK(p) /\ IsSchedule(p)
    BY <1>5, JobTyped DEF Inserts, Scheduling, JobsOK
  <2>2. job[p].row \in Notes /\ NewRow(p, job[p].row) BY <2>1 DEF Schedule, RowOK
  <2>3. IsSchedule(q) => job[q].row # job[p].row BY <2>2 DEF NewRow
  <2> QED BY <1>3, <2>2, <2>3
<1> QED BY <1>1, <1>4, <1>5, RowTimes, TimeRuns DEF NoJob

LEMMA TimeCommit ==
  ASSUME TimeInv, NEW q \in Jobs, CommitRun(q), NEW b \in Bookings
  PROVE  TimeOK(b)'
<1> USE DEF TimeInv, DeliveryInv, TypeInv
<1>1. CASE job[q].lost BY <1>1, TimeRolledBack DEF CommitRun
<1>2. CASE ~job[q].lost
  <2>1. Set(q, NoJob) /\ UNCHANGED <<booking, excused, moved, lead>> /\ IsRun(q)
    BY <1>2 DEF CommitRun, Drop
  <2>2. job'[q] = NoJob /\ \A p \in Jobs \ {q} : job'[p] = job[p] BY <2>1, SetIs
  <2>3. ASSUME b \notin moved, NEW n \in Notes \ excused', ReminderOf(n, b)'
        PROVE  /\ booking[b].start <= note'[n].wait + lead'[n]
               /\ \A p \in Jobs : Locks(p, n)' /\ job'[p].did[n] = "retry" =>
                    booking[b].start <= lead'[n]
    <3>1. \A p \in Jobs : Locks(p, n)' => Locks(p, n) /\ job'[p] = job[p]
      BY <2>2 DEF Locks, IsRun, NoJob
    <3>2. ReminderOf(n, b) BY <1>2, <2>3, CommitWrites DEF ReminderOf, Stored
    <3>3. note'[n] \in Note BY <1>2, CommitWrites
    <3>4. CASE Locks(q, n) /\ job[q].did[n] = "retry"
      <4>1. booking[b].start <= lead[n] BY <2>1, <2>3, <3>2, <3>4 DEF TimeOK
      <4>2. \A p \in Jobs : Locks(p, n)' /\ job'[p].did[n] = "retry" =>
              booking[b].start <= lead'[n]
        BY <2>1, <4>1
      <4>3. booking[b].start <= note'[n].wait + lead'[n]
        BY <2>1, <3>3, <4>1, StartTyped DEF Note
      <4> QED BY <4>2, <4>3
    <3>5. CASE ~(Locks(q, n) /\ job[q].did[n] = "retry")
      <4>1. note'[n].wait = note[n].wait BY <1>2, <3>5, CommitWrites
      <4>2. RowKept(n, b) BY <2>1, <3>1, <3>2, <4>1 DEF RowKept
      <4> QED BY <2>3, <4>2, RowTimes
    <3> QED BY <3>4, <3>5
  <2> QED BY <2>1, <2>3, TimeRuns DEF NoJob
<1> QED BY <1>1, <1>2

LEMMA TimeVictim ==
  ASSUME TimeInv, NEW q \in Jobs, Victim(q), NEW b \in Bookings
  PROVE  TimeOK(b)'
<1> USE DEF TimeInv, DeliveryInv, TypeInv
<1>1. PICK p \in Jobs \ {q}, m \in Notes :
         /\ job' \in JobType /\ note' = note
         /\ IsRun(q) /\ IsRun(p) /\ Locks(q, m) /\ m \in job[p].todo
         /\ job'[q] = NoJob
         /\ \A o \in Jobs \ {p, q} : job'[o] = job[o]
         /\ job'[p].kind = "run" /\ job'[p].copy = job[p].copy
         /\ job'[p].said = job[p].said /\ job'[p].todo = job[p].todo \ {m}
         /\ \A k \in Notes \ {m} : job'[p].did[k] = job[p].did[k]
         /\ job'[p].did[m] # None => Stored(m)
         /\ Excuse(Touched(q)) /\ UNCHANGED <<booking, upsets, moved, raced, lead>>
  BY VictimIs
<1>2. m \in Touched(q) BY <1>1 DEF Locks, Touched
<1>3. ASSUME NEW n \in Notes \ excused', ReminderOf(n, b)' PROVE RowKept(n, b)
  <2>1. n \notin Touched(q) /\ n # m /\ n \notin excused BY <1>1, <1>2, <1>3, ExcuseKept
  <2>2. \A o \in Jobs : Locks(o, n)' => Locks(o, n) /\ job'[o].did[n] = job[o].did[n]
    BY <1>1, <2>1 DEF Locks, IsRun, NoJob
  <2> QED BY <1>1, <1>3, <2>1, <2>2 DEF RowKept, ReminderOf, Stored
<1>4. \A o \in Jobs :
        /\ HoldsBooking(o, b)' => HoldsBooking(o, b)
        /\ Inserts(o, b)' => /\ Inserts(o, b) /\ job'[o].wait = job[o].wait
                            /\ lead'[job'[o].row] = lead[job[o].row]
        /\ Scheduling(o, b)' /\ ~job'[o].ready =>
             Scheduling(o, b) /\ ~job[o].ready /\ job'[o].start = job[o].start
  BY <1>1 DEF HoldsBooking, Inserts, Scheduling, IsSchedule, NoJob
<1>5. Exists(b)' <=> Exists(b) BY <1>1 DEF Exists
<1> QED BY <1>1, <1>3, <1>4, <1>5, RowTimes, TimeKept

\* A booking that has no reminder yet is not excepted when it is rescheduled, and
\* there is nothing to be early; one that is cleared leaves nothing behind.
LEMMA TimeBooking ==
  ASSUME TimeInv, NEW d \in Bookings, BookingNext(d), NEW b \in Bookings
  PROVE  TimeOK(b)'
<1> USE DEF TimeInv, DeliveryInv, TypeInv
<1>1. ASSUME NEW t \in Starts, Reschedule(d, t) PROVE TimeOK(b)'
  <2>1. /\ UNCHANGED <<note, job, excused, lead>>
        /\ moved' = IF Reminded(d) \/ (\E q \in Jobs : Scheduling(q, d))
                    THEN moved \union {d} ELSE moved
        /\ booking' = [booking EXCEPT ![d].start = t]
    BY <1>1 DEF Reschedule
  <2>2. Exists(b)' <=> Exists(b) BY <2>1 DEF Exists, TypeOK, BookingRow
  <2>3. \A q \in Jobs : HoldsBooking(q, b)' <=> HoldsBooking(q, b)
    BY <2>1 DEF HoldsBooking
  <2>4. \A q \in Jobs : HoldsBooking(q, b)' => Exists(b)' BY <2>2, <2>3 DEF TimeOK
  <2>5. CASE b # d
    <3>1. booking'[b].start = booking[b].start /\ (b \notin moved' => b \notin moved)
      BY <2>1, <2>5 DEF TypeOK
    <3>2. /\ \A n \in Notes, q \in Jobs : Locks(q, n)' <=> Locks(q, n)
          /\ \A q \in Jobs : /\ Inserts(q, b)' <=> Inserts(q, b)
                             /\ Scheduling(q, b)' <=> Scheduling(q, b)
      BY <2>1 DEF Locks, IsRun, Inserts, Scheduling, IsSchedule
    <3> QED BY <2>1, <2>2, <2>4, <3>1, <3>2, SameRows DEF TimeOK
  <2>6. CASE b = d
    <3>1. b \notin moved' => /\ \A n \in Notes : ~ReminderOf(n, b)
                             /\ \A q \in Jobs : ~Scheduling(q, b)
      BY <2>1, <2>6 DEF Reminded
    <3>2. b \notin moved' => /\ \A n \in Notes : ~ReminderOf(n, b)'
                             /\ \A q \in Jobs : ~Scheduling(q, b)' /\ ~Inserts(q, b)'
      BY <2>1, <3>1, SameRows DEF Inserts, Scheduling, IsSchedule
    <3> QED BY <2>4, <3>2 DEF TimeOK
  <2> QED BY <2>5, <2>6
<1>2. CASE Close(d)
  <2>1. UNCHANGED <<note, job, excused, moved, lead>> BY <1>2 DEF Close
  <2>2. booking'[b].start = booking[b].start /\ (Exists(b)' <=> Exists(b))
    BY <1>2 DEF Close, Exists, TypeOK, BookingRow
  <2>3. \A q \in Jobs : /\ HoldsBooking(q, b)' <=> HoldsBooking(q, b)
                        /\ Inserts(q, b)' <=> Inserts(q, b)
                        /\ Scheduling(q, b)' <=> Scheduling(q, b)
    BY <2>1 DEF HoldsBooking, Inserts, Scheduling, IsSchedule
  <2>4. \A n \in Notes : RowKept(n, b)
    BY <2>1, SameRows DEF RowKept, Locks, IsRun
  <2> QED BY <2>1, <2>2, <2>3, <2>4, RowTimes, TimeKept
<1>3. CASE Clear(d)
  <2>1. PICK lost \in SUBSET {q \in Jobs : IsRun(q) /\ job[q].said = None} :
          job' = [q \in Jobs |-> IF q \in lost THEN [job[q] EXCEPT !.lost = TRUE]
                                 ELSE job[q]]
    BY <1>3 DEF Clear
  <2>2. ASSUME NEW q \in Jobs
        PROVE  /\ IsSchedule(q)' => IsSchedule(q) /\ job'[q] = job[q]
               /\ \A n \in Notes : Locks(q, n)' =>
                    Locks(q, n) /\ job'[q].did[n] = job[q].did[n]
    <3>1. CASE q \in lost
      <4>1. job[q] \in Run /\ IsRun(q) /\ ~IsSchedule(q) BY <3>1, JobTyped
      <4>2. job'[q] = [job[q] EXCEPT !.lost = TRUE] BY <2>1, <3>1
      <4>3. job'[q].kind = job[q].kind /\ job'[q].did = job[q].did
        BY <4>1, <4>2 DEF Run
      <4> QED BY <4>1, <4>3 DEF IsSchedule, Locks
    <3>2. CASE q \notin lost
      <4>1. job'[q] = job[q] BY <2>1, <3>2
      <4> QED BY <4>1 DEF IsSchedule, Locks, IsRun
    <3> QED BY <3>1, <3>2
  <2>3. \A q \in Jobs : HoldsBooking(q, b)' => HoldsBooking(q, b)
    BY <2>2 DEF HoldsBooking, IsSchedule
  <2>4. /\ note' = [n \in Notes |-> IF note[n].booking = d THEN NoNote ELSE note[n]]
        /\ moved' = moved \ {d} /\ excused' = excused
        /\ lead' = [n \in Notes |-> IF ReminderOf(n, d) THEN 0 ELSE lead[n]]
        /\ booking' = [booking EXCEPT ![d] = [status |-> "ABSENT", start |-> 0]]
    BY <1>3 DEF Clear
  <2>5. CASE b # d
    <3>1. booking'[b] = booking[b] /\ (b \in moved' <=> b \in moved)
      BY <2>4, <2>5 DEF TypeOK
    <3>2. \A n \in Notes : ReminderOf(n, b)' =>
            ReminderOf(n, b) /\ note'[n] = note[n] /\ lead'[n] = lead[n]
      BY <2>4, <2>5 DEF ReminderOf, Stored, NoNote
    <3>3. \A q \in Jobs : Scheduling(q, b)' => Scheduling(q, b) /\ job'[q] = job[q]
      BY <2>2 DEF Scheduling
    <3>4. ASSUME NEW q \in Jobs, Inserts(q, b) PROVE lead'[job[q].row] = lead[job[q].row]
      <4>1. job[q] \in Schedule /\ job[q].row # None /\ RowOK(q) /\ IsSchedule(q)
        BY <3>4, JobTyped DEF Inserts, Scheduling, JobsOK
      <4>2. job[q].row \in Notes /\ ~Stored(job[q].row) BY <4>1 DEF Schedule, RowOK, NewRow
      <4> QED BY <2>4, <4>2 DEF ReminderOf
    <3>5. \A q \in Jobs : Inserts(q, b)' => Inserts(q, b) /\ job'[q] = job[q]
      BY <3>3 DEF Inserts
    <3>6. ASSUME b \notin moved', NEW n \in Notes \ excused', ReminderOf(n, b)'
          PROVE  /\ booking'[b].start <= note'[n].wait + lead'[n]
                 /\ \A q \in Jobs : Locks(q, n)' /\ job'[q].did[n] = "retry" =>
                      booking'[b].start <= lead'[n]
      <4>1. RowKept(n, b) BY <2>2, <2>4, <3>2, <3>6 DEF RowKept
      <4>2. b \notin moved BY <3>1, <3>6
      <4> QED BY <3>1, <3>6, <4>1, <4>2, RowTimes
    <3>7. \A q \in Jobs : Inserts(q, b)' =>
            Inserts(q, b) /\ job'[q] = job[q] /\ lead'[job'[q].row] = lead[job[q].row]
      BY <3>4, <3>5
    <3>8. Exists(b)' <=> Exists(b) BY <3>1 DEF Exists
    <3> QED BY <2>3, <3>1, <3>3, <3>6, <3>7, <3>8 DEF TimeOK
  <2>6. CASE b = d
    <3>1. ~Exists(b)' BY <2>4, <2>6 DEF Exists, TypeOK
    <3>2. \A n \in Notes : ~ReminderOf(n, b)'
      BY <2>4, <2>6 DEF ReminderOf, Stored, NoNote
    <3>3. \A q \in Jobs : ~HoldsBooking(q, b)' BY <1>3, <2>3, <2>6 DEF Clear, Free
    <3>4. ASSUME NEW q \in Jobs, Inserts(q, b)' PROVE FALSE
      <4>1. IsSchedule(q) /\ job'[q] = job[q] /\ job[q].booking = b /\ job[q].row # None
        BY <2>2, <3>4 DEF Inserts, Scheduling
      <4>2. ~job[q].ready BY <1>3, <2>6, <4>1 DEF Clear, Scheduling
      <4>3. RowOK(q) BY DEF JobsOK
      <4> QED BY <4>1, <4>2, <4>3 DEF RowOK
    <3> QED BY <3>1, <3>2, <3>3, <3>4 DEF TimeOK
  <2> QED BY <2>5, <2>6
<1> QED BY <1>1, <1>2, <1>3 DEF BookingNext

\* What an insert is timed by is the booking's start.
LEMMA TimeInserting ==
  ASSUME TimeInv, NEW q \in Jobs, NEW kind \in {"confirm", "remind"}, NEW d \in Bookings,
         NEW start \in Nat, NEW minutes \in Int, Inserting(q, kind, d, start, minutes),
         Exists(d),
         d \notin moved => start = booking[d].start,
         UNCHANGED <<booking, note, excused, moved>>, ~IsRun(q), NEW b \in Bookings
  PROVE  TimeOK(b)'
<1> USE DEF TimeInv, DeliveryInv, TypeInv
<1>1. PICK n \in (IF Reminded(d) THEN {None} ELSE Unused) :
         /\ Set(q, [kind |-> kind, booking |-> d, ready |-> TRUE, row |-> n,
                    start |-> 0, wait |-> IF n = None THEN 0 ELSE SendIn(start, minutes)])
         /\ lead' = IF n = None THEN lead ELSE [lead EXCEPT ![n] = Max0(minutes)]
  BY DEF Inserting
<1>2. /\ job'[q].kind = kind /\ job'[q].booking = d /\ job'[q].row = n /\ job'[q].ready
      /\ n # None => job'[q].wait = SendIn(start, minutes)
      /\ \A p \in Jobs \ {q} : job'[p] = job[p]
  BY <1>1, SetIs
<1>3. Exists(b)' <=> Exists(b) BY DEF Exists
<1>4. \A p \in Jobs : /\ HoldsBooking(p, b)' => HoldsBooking(p, b) \/ b = d
                      /\ Scheduling(p, b)' /\ ~job'[p].ready =>
                           Scheduling(p, b) /\ ~job[p].ready /\ job'[p] = job[p]
  BY <1>2 DEF HoldsBooking, Scheduling, IsSchedule
<1>5. \A p \in Jobs \ {q} : Inserts(p, b)' => Inserts(p, b) /\ job'[p] = job[p]
  BY <1>2 DEF Inserts, Scheduling, IsSchedule
<1>6. b \notin moved /\ Inserts(q, b)' =>
        booking[b].start <= job'[q].wait + lead'[job'[q].row]
  <2> SUFFICES ASSUME b \notin moved, Inserts(q, b)'
               PROVE  booking[b].start <= job'[q].wait + lead'[job'[q].row]
    OBVIOUS
  <2>1. b = d /\ n # None BY <1>2 DEF Inserts, Scheduling
  <2>2. n \in Notes BY <1>1, <2>1, UnusedIs
  <2>3. lead'[n] = Max0(minutes) BY <1>1, <2>1, <2>2 DEF TypeOK
  <2> QED BY <1>2, <2>1, <2>3, SendInTyped
<1>7. \A p \in Jobs, m \in Notes : Locks(p, m)' => Locks(p, m) /\ job'[p] = job[p]
  BY <1>2 DEF Locks, IsRun
<1>8. \A m \in Notes : ReminderOf(m, b)' <=> ReminderOf(m, b) BY SameRows
<1>9. \A m \in Notes : Stored(m) => lead'[m] = lead[m]
  BY <1>1, UnusedIs DEF TypeOK
<1>10. ASSUME NEW p \in Jobs \ {q}, Inserts(p, b)
       PROVE  lead'[job[p].row] = lead[job[p].row]
  <2>1. job[p] \in Schedule /\ job[p].row # None /\ IsSchedule(p)
    BY <1>10, JobTyped DEF Inserts, Scheduling
  <2>2. job[p].row \in Notes BY <2>1 DEF Schedule
  <2>3. n # None => n # job[p].row BY <1>1, <2>1, UnusedIs
  <2> QED BY <1>1, <2>2, <2>3 DEF TypeOK
<1>11. \A m \in Notes : ReminderOf(m, b)' => ReminderOf(m, b) /\ lead'[m] = lead[m]
  BY <1>8, <1>9 DEF ReminderOf
<1>12. \A p \in Jobs : b \notin moved /\ Inserts(p, b)' =>
         booking[b].start <= job'[p].wait + lead'[job'[p].row]
  BY <1>5, <1>6, <1>10 DEF TimeOK
<1> QED BY <1>3, <1>4, <1>7, <1>11, <1>12 DEF TimeOK

LEMMA TimeBegin ==
  ASSUME TimeInv, NEW q \in Jobs, NEW d \in Bookings,
         BeginConfirm(q, d) \/ Reminds(q, d) \/ WriteConfirm(q), NEW b \in Bookings
  PROVE  TimeOK(b)'
<1> USE DEF TimeInv, DeliveryInv, TypeInv
<1>1. CASE BeginConfirm(q, d)
  <2> DEFINE r == [kind |-> "confirm", booking |-> d, ready |-> FALSE, row |-> None,
                   start |-> booking[d].start, wait |-> 0]
  <2>1. Set(q, r) /\ UNCHANGED <<booking, note, excused, moved, lead>>
    BY <1>1 DEF BeginConfirm, Counted
  <2>2. /\ r.row = None /\ ~r.ready /\ r.booking = d /\ r.start = booking[d].start
        /\ r.kind = "confirm"
    OBVIOUS
  <2> HIDE DEF r
  <2>3. job'[q] = r /\ \A p \in Jobs \ {q} : job'[p] = job[p] BY <2>1, SetIs
  <2>4. \A p \in Jobs : /\ HoldsBooking(p, b)' => HoldsBooking(p, b)
                        /\ Inserts(p, b)' => Inserts(p, b) /\ job'[p] = job[p]
    BY <2>2, <2>3 DEF HoldsBooking, Inserts, Scheduling, IsSchedule
  <2>5. \A p \in Jobs \ {q} : Scheduling(p, b)' => Scheduling(p, b) /\ job'[p] = job[p]
    BY <2>3 DEF Scheduling, IsSchedule
  <2>6. Scheduling(q, b)' => job'[q].start = booking[b].start
    BY <2>2, <2>3 DEF Scheduling
  <2>7. \A p \in Jobs, m \in Notes : Locks(p, m)' => Locks(p, m) /\ job'[p] = job[p]
    BY <2>2, <2>3 DEF Locks, IsRun
  <2>8. Exists(b)' <=> Exists(b) BY <2>1 DEF Exists
  <2>9. \A m \in Notes : ReminderOf(m, b)' <=> ReminderOf(m, b) BY <2>1, SameRows
  <2> QED BY <2>1, <2>4, <2>5, <2>6, <2>7, <2>8, <2>9 DEF TimeOK
<1>2. ASSUME NEW minutes \in Minutes, BeginRemind(q, d, minutes) PROVE TimeOK(b)'
  <2>1. /\ Inserting(q, "remind", d, booking[d].start, minutes) /\ Exists(d) /\ ~IsRun(q)
        /\ UNCHANGED <<booking, note, excused, moved>>
    BY <1>2, JobTyped DEF BeginRemind
  <2>2. minutes \in Int BY OutboxAssumption
  <2> QED BY <2>1, <2>2, StartTyped, TimeInserting
<1>3. CASE WriteConfirm(q)
  <2>1. IsSchedule(q) /\ job[q] \in Schedule /\ ~job[q].ready /\ ~IsRun(q)
        /\ UNCHANGED <<booking, note, excused, moved>>
    BY <1>3, JobTyped DEF WriteConfirm, IsSchedule
  <2>2. job[q].booking \in Bookings /\ job[q].start \in Nat BY <2>1 DEF Schedule
  <2>3. CASE Exists(job[q].booking)
    <3>1. Inserting(q, "confirm", job[q].booking, job[q].start, Before)
      BY <1>3, <2>3 DEF WriteConfirm
    <3>2. Scheduling(q, job[q].booking) BY <2>1 DEF Scheduling
    <3>3. job[q].booking \notin moved => job[q].start = booking[job[q].booking].start
      BY <2>1, <2>2, <2>3, <3>2 DEF TimeOK
    <3>4. Before \in Int BY OutboxAssumption
    <3> QED BY <2>1, <2>2, <2>3, <3>1, <3>3, <3>4, TimeInserting
  <2>4. CASE ~Exists(job[q].booking)
    <3>1. Set(q, NoJob) /\ lead' = lead BY <1>3, <2>4 DEF WriteConfirm, Drop
    <3>2. \A p \in Jobs, m \in Notes : Locks(p, m)' => Locks(p, m) /\ job'[p] = job[p]
      BY <3>1, SetIs DEF Locks, IsRun, NoJob
    <3>3. \A n \in Notes : RowKept(n, b)
      BY <2>1, <3>1, <3>2, SameRows DEF RowKept
    <3> QED BY <2>1, <3>1, <3>3, RowTimes, TimeRuns DEF NoJob
  <2> QED BY <2>3, <2>4
<1> QED BY <1>1, <1>2, <1>3 DEF Reminds


\* An insert that commits brings its countdown along.
LEMMA TimeCommitSchedule ==
  ASSUME TimeInv, NEW q \in Jobs, CommitSchedule(q), NEW b \in Bookings
  PROVE  TimeOK(b)'
<1> USE DEF TimeInv, DeliveryInv, TypeInv
<1> DEFINE d == job[q].booking
           n == job[q].row
           row == [status |-> "QUEUED", booking |-> d, retries |-> 0, wait |-> job[q].wait]
<1>1. /\ job[q] \in Schedule /\ IsSchedule(q) /\ Drop(q) /\ RowOK(q) /\ job[q].ready
      /\ UNCHANGED <<moved, lead>>
  BY JobTyped DEF CommitSchedule, JobsOK
<1>2. d \in Bookings /\ n \in Notes \union {None} BY <1>1 DEF Schedule
<1>3. job'[q] = NoJob /\ \A p \in Jobs \ {q} : job'[p] = job[p]
  BY <1>1, SetIs DEF Drop
<1>4. \A p \in Jobs :
        /\ HoldsBooking(p, b)' => HoldsBooking(p, b)
        /\ Inserts(p, b)' => /\ Inserts(p, b) /\ job'[p].wait = job[p].wait
                            /\ lead'[job'[p].row] = lead[job[p].row]
        /\ Scheduling(p, b)' /\ ~job'[p].ready =>
             Scheduling(p, b) /\ ~job[p].ready /\ job'[p].start = job[p].start
        /\ \A m \in Notes : Locks(p, m)' => Locks(p, m) /\ job'[p] = job[p]
  BY <1>1, <1>3 DEF Inserts, Scheduling, IsSchedule, HoldsBooking, Locks, IsRun, NoJob
<1>5. /\ booking' = IF job[q].kind = "confirm"
                    THEN [booking EXCEPT ![d].status = "CONFIRMED"] ELSE booking
      /\ n = None => UNCHANGED <<note, excused>>
      /\ n # None => Queue(n, row, 0)
  BY DEF CommitSchedule
<1>6. booking'[b].start = booking[b].start BY <1>2, <1>5 DEF TypeOK, BookingRow
<1>7. Exists(b)' <=> Exists(b)
  <2>1. CASE job[q].kind = "confirm" /\ b = d
    <3>1. HoldsBooking(q, b) BY <1>1, <2>1 DEF HoldsBooking
    <3>2. Exists(b) BY <3>1 DEF TimeOK
    <3> QED BY <1>2, <1>5, <2>1, <3>2 DEF Exists, TypeOK, BookingRow
  <2>2. CASE ~(job[q].kind = "confirm" /\ b = d)
    <3>1. booking'[b] = booking[b] BY <1>2, <1>5, <2>2 DEF TypeOK
    <3> QED BY <3>1 DEF Exists
  <2> QED BY <2>1, <2>2
<1>8. row.booking = d /\ row.wait = job[q].wait OBVIOUS
<1> HIDE DEF row
<1>9. ASSUME b \notin moved, NEW m \in Notes \ excused', ReminderOf(m, b)'
      PROVE  /\ booking[b].start <= note'[m].wait + lead'[m]
             /\ \A p \in Jobs : Locks(p, m)' /\ job'[p].did[m] = "retry" =>
                  booking[b].start <= lead'[m]
  <2>1. CASE m = n
    <3>1. Queue(n, row, 0) /\ ~Stored(n) /\ n \in Notes
      BY <1>1, <1>5, <1>9, <2>1, OutboxAssumption DEF RowOK, NewRow
    <3>2. note'[m] = row BY <2>1, <3>1 DEF Queue, TypeOK
    <3>3. b = d BY <1>8, <1>9, <3>2 DEF ReminderOf
    <3>4. Inserts(q, b) BY <1>1, <2>1, <3>1, <3>3, OutboxAssumption DEF Inserts, Scheduling
    <3>5. booking[b].start <= job[q].wait + lead[n] BY <1>9, <3>4 DEF TimeOK
    <3>6. \A p \in Jobs : ~Locks(p, m)
      BY <2>1, <3>1 DEF JobsOK, RunOK, Locks
    <3> QED BY <1>1, <1>4, <1>8, <2>1, <3>2, <3>5, <3>6
  <2>2. CASE m # n
    <3>1. note'[m] = note[m] /\ m \notin excused
      <4>1. CASE n = None BY <1>5, <1>9, <4>1
      <4>2. CASE n # None
        <5>1. n \in Notes /\ m \in Notes \ {n} BY <1>2, <2>2, <4>2
        <5> QED BY <1>5, <1>9, <4>2, <5>1, QueueKept
      <4> QED BY <4>1, <4>2
    <3>2. RowKept(m, b) BY <1>1, <1>4, <3>1 DEF RowKept, ReminderOf, Stored
    <3> QED BY <1>9, <3>2, RowTimes
  <2> QED BY <2>1, <2>2
<1> QED BY <1>1, <1>4, <1>6, <1>7, <1>9, TimeKept

\* A retry of a reply is nobody's reminder.
LEMMA TimeQueueRetry ==
  ASSUME TimeInv, NEW n \in Notes, QueueRetry(n), NEW b \in Bookings
  PROVE  TimeOK(b)'
<1> USE DEF TimeInv, DeliveryInv, TypeInv
<1>1. PICK row : Queue(n, row, 1) /\ row.booking = None
  BY DEF QueueRetry
<1>2. UNCHANGED <<booking, job, moved, lead>> BY DEF QueueRetry
<1>3. ASSUME NEW m \in Notes \ excused', ReminderOf(m, b)' PROVE RowKept(m, b)
  <2>1. m # n
    <3>1. note'[n] = row BY <1>1 DEF Queue, TypeOK
    <3> QED BY <1>1, <1>3, <3>1, OutboxAssumption DEF ReminderOf
  <2>2. note'[m] = note[m] /\ m \notin excused
    <3>1. m \in Notes \ {n} BY <2>1
    <3> QED BY <1>1, <1>3, <3>1, QueueKept
  <2> QED BY <1>2, <1>3, <2>2 DEF RowKept, ReminderOf, Stored, Locks, IsRun
<1>4. \A p \in Jobs : /\ HoldsBooking(p, b)' <=> HoldsBooking(p, b)
                      /\ Inserts(p, b)' <=> Inserts(p, b)
                      /\ Scheduling(p, b)' <=> Scheduling(p, b)
  BY <1>2 DEF HoldsBooking, Inserts, Scheduling, IsSchedule
<1>5. Exists(b)' <=> Exists(b) BY <1>2 DEF Exists
<1> QED BY <1>2, <1>3, <1>4, <1>5, RowTimes, TimeKept

\* Countdowns run down together.
LEMMA Max0Down ==
  ASSUME NEW x \in Nat, NEW y \in Nat, NEW k \in Nat, x <= y + k
  PROVE  Max0(x - 1) <= Max0(y - 1) + k
BY DEF Max0

LEMMA TimeTick ==
  ASSUME TimeInv, Tick, NEW b \in Bookings
  PROVE  TimeOK(b)'
<1> USE DEF TimeInv, DeliveryInv, TypeInv
<1>1. /\ booking'[b].start = Max0(booking[b].start - 1)
      /\ booking'[b].status = booking[b].status
      /\ UNCHANGED <<excused, moved, lead>>
  BY TickIs DEF Tick, Counted
<1>2. booking'[b].start <= booking[b].start BY <1>1, StartTyped DEF Max0
<1>3. booking[b].start \in Nat /\ booking'[b].start \in Nat /\ \A n \in Notes : lead[n] \in Nat
  BY <1>1, StartTyped, Max0Typed
<1>4. Exists(b)' <=> Exists(b) BY <1>1 DEF Exists
<1>5. ASSUME NEW q \in Jobs
      PROVE  /\ job'[q].kind = job[q].kind
             /\ IsSchedule(q) =>
                  /\ job'[q].booking = job[q].booking /\ job'[q].row = job[q].row
                  /\ job'[q].ready = job[q].ready /\ job[q] \in Schedule
                  /\ job'[q].wait = Max0(job[q].wait - 1)
                  /\ job'[q].start = Max0(job[q].start - 1)
             /\ IsRun(q) => job'[q].did = job[q].did
  BY TickIs, TickJobTyped, JobTyped
<1>6. ASSUME NEW q \in Jobs
      PROVE  /\ HoldsBooking(q, b)' => HoldsBooking(q, b)
             /\ Scheduling(q, b)' => Scheduling(q, b)
             /\ Inserts(q, b)' => Inserts(q, b)
             /\ \A n \in Notes : Locks(q, n)' => Locks(q, n) /\ job'[q].did = job[q].did
  BY <1>5 DEF HoldsBooking, Scheduling, Inserts, IsSchedule, Locks, IsRun
<1>7. \A q \in Jobs : HoldsBooking(q, b)' => Exists(b)' BY <1>4, <1>6 DEF TimeOK
<1>8. ASSUME b \notin moved, NEW n \in Notes \ excused, ReminderOf(n, b)'
      PROVE  /\ booking'[b].start <= note'[n].wait + lead'[n]
             /\ \A q \in Jobs : Locks(q, n)' /\ job'[q].did[n] = "retry" =>
                  booking'[b].start <= lead'[n]
  <2>1. ReminderOf(n, b) /\ note'[n].wait = Max0(note[n].wait - 1)
    BY <1>8, TickIs DEF ReminderOf, Stored
  <2>2. note[n].wait \in Nat BY DEF TypeOK, Note
  <2>3. booking[b].start <= note[n].wait + lead[n] BY <1>8, <2>1 DEF TimeOK
  <2>4. booking'[b].start <= note'[n].wait + lead'[n]
    BY <1>1, <1>3, <2>1, <2>2, <2>3, Max0Down
  <2>5. \A q \in Jobs : Locks(q, n)' /\ job'[q].did[n] = "retry" => booking[b].start <= lead[n]
    BY <1>6, <1>8, <2>1 DEF TimeOK
  <2> QED BY <1>1, <1>2, <1>3, <2>4, <2>5
<1>9. ASSUME b \notin moved, NEW q \in Jobs, Inserts(q, b)'
      PROVE  booking'[b].start <= job'[q].wait + lead'[job'[q].row]
  <2>1. Inserts(q, b) /\ IsSchedule(q) BY <1>6, <1>9 DEF Inserts, Scheduling
  <2>2. booking[b].start <= job[q].wait + lead[job[q].row] BY <1>9, <2>1 DEF TimeOK
  <2>3. job[q].wait \in Nat /\ job[q].row \in Notes
    BY <1>5, <2>1 DEF Schedule, Inserts
  <2> QED BY <1>1, <1>3, <1>5, <2>1, <2>2, <2>3, Max0Down
<1>10. ASSUME b \notin moved, NEW q \in Jobs, Scheduling(q, b)', ~job'[q].ready, Exists(b)'
       PROVE  job'[q].start = booking'[b].start
  <2>1. Scheduling(q, b) /\ IsSchedule(q) BY <1>6, <1>10 DEF Scheduling
  <2>2. ~job[q].ready /\ job'[q].start = Max0(job[q].start - 1) BY <1>5, <1>10, <2>1
  <2>3. job[q].start = booking[b].start BY <1>4, <1>10, <2>1, <2>2 DEF TimeOK
  <2> QED BY <1>1, <2>2, <2>3
<1> QED BY <1>1, <1>7, <1>8, <1>9, <1>10 DEF TimeOK

LEMMA TimeStep ==
  ASSUME TimeInv, [Next]_vars
  PROVE  TimeInv'
<1> SUFFICES ASSUME NEW b \in Bookings PROVE TimeOK(b)'
  BY DeliveryStep DEF TimeInv
<1>1. ASSUME NEW q \in Jobs, Crash(q) PROVE TimeOK(b)'
  BY <1>1, TimeRolledBack DEF Crash
<1>2. ASSUME NEW q \in Jobs, Work(q) PROVE TimeOK(b)'
  <2>1. CASE WriteConfirm(q)
    <3>1. job[q].booking \in Bookings
      BY <2>1, JobTyped DEF WriteConfirm, TimeInv, DeliveryInv, TypeInv, IsSchedule, Schedule
    <3> QED BY <2>1, <3>1, TimeBegin
  <2>2. CASE \E m \in Notes, ok \in BOOLEAN : Send(q, m, ok) BY <2>2, TimeSend
  <2>3. CASE \E m \in Notes : MarkReported(q, m) BY <2>3, TimeMarkReported
  <2> QED BY <1>2, <2>1, <2>2, <2>3, TimeCommitSchedule, TimeCommit, TimeVictim DEF Work
<1>3. CASE UNCHANGED vars
  <2>1. \A n \in Notes : RowKept(n, b)
    BY <1>3, SameRows DEF vars, RowKept, Locks, IsRun
  <2>2. \A q \in Jobs : /\ HoldsBooking(q, b)' <=> HoldsBooking(q, b)
                        /\ Inserts(q, b)' <=> Inserts(q, b)
                        /\ Scheduling(q, b)' <=> Scheduling(q, b)
    BY <1>3 DEF vars, HoldsBooking, Inserts, Scheduling, IsSchedule
  <2> QED BY <1>3, <2>1, <2>2, RowTimes, TimeKept DEF vars, Exists
<1> QED
  BY <1>1, <1>2, <1>3, TimeBooking, TimeBegin, TimeQueueRetry, TimeListDue, TimeReport,
     TimeTick DEF Next, Reminds

LEMMA TimeInit ==
  ASSUME Init
  PROVE  TimeInv
<1>1. ASSUME NEW b \in Bookings PROVE TimeOK(b)
  BY DEF Init, TimeOK, ReminderOf, Stored, NoNote, Inserts, Scheduling, IsSchedule,
         HoldsBooking, NoJob
<1> QED BY <1>1, DeliveryInit DEF TimeInv

THEOREM TimeInvariant == Spec => []TimeInv
BY TimeInit, TimeStep, PTL DEF Spec

\* No run takes up a reminder earlier than it is to be sent, which is Before for a
\* confirmation and the minutes given for a run of the reminders of a booking,
\* unless the booking was moved after its reminders were timed or the reminder is
\* excused.
THEOREM NotEarlyProof == Spec => NotEarly
<1> DEFINE TakenUpLate(q, b, n) ==
      /\ ReminderOf(n, b)
      /\ IsRun(q) /\ job[q].said = None /\ n \in job[q].todo
      /\ job'[q].kind = "run" /\ n \notin job'[q].todo
      => booking[b].start <= lead[n]
<1>1. TimeInv => \A q \in Jobs, b \in Bookings \ moved : \A n \in Notes \ excused :
                   TakenUpLate(q, b, n)
  BY DueSoon
<1>2. TimeInv /\ [Next]_vars =>
        [\A q \in Jobs, b \in Bookings \ moved : \A n \in Notes \ excused :
           TakenUpLate(q, b, n)]_vars
  BY <1>1
<1> QED BY <1>2, TimeInvariant, PTL DEF Spec, NotEarly

=============================================================================
