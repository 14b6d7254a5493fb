---------------------- MODULE BookingTransactionsProofs ----------------------
(***************************************************************************)
(* The invariants of BookingTransactions, for every set of bookings,       *)
(* sessions, workers and requests and for every buffer: what the check     *)
(* before a commit is worth when no row is locked between the two.         *)
(*                                                                         *)
(* Inv relates each transaction in flight to the rows it has not written   *)
(* yet: the copy it loaded is the row until another request overtakes it,  *)
(* and what its check has found apart stays apart of what is committed     *)
(* meanwhile, up to the pairs in raced.                                    *)
(***************************************************************************)
EXTENDS BookingTransactions, BookingLifecycleProofs

\* Rows of this module: no draft is incomplete.
Scheduleds ==
  {r \in Row : /\ r.status # "ABSENT" /\ r.session # None
               /\ r.start # None /\ r.duration # None /\ r.end # None}

TypeInv ==
  /\ TypeOK
  /\ booking \in [Bookings -> Scheduleds]
  /\ tx \in [Requests -> Transaction \union {None}]
  /\ \A q \in Requests : InFlight(q) => tx[q].old \in Scheduleds /\ tx[q].new \in Scheduleds
  /\ raced \subseteq SUBSET Bookings /\ contested \subseteq Bookings

\* Two rows with one schedule.
SameTimes(r, o) == r.start = o.start /\ r.duration = o.duration /\ r.end = o.end

\* What each kind of request makes of the row it loaded.
Written(op, old, new) ==
  /\ new.session = old.session
  /\ EndFits(old) => EndFits(new)
  /\ new.status \in {old.status} \union AllowedTransitions(old.status)
  /\ op = "submit" => new.status = "PENDING_REVIEW"
  /\ op = "confirm" => new.status = "CONFIRMED" /\ old.status = "PENDING_REVIEW"
  /\ op = "close" => new.status \in Terminal
  /\ op = "edit" => new.status = old.status
  /\ op # "edit" => SameTimes(new, old)

\* A transaction knows its row until another request writes it.
LoadInv ==
  \A q \in Requests :
    InFlight(q) =>
      /\ Written(tx[q].op, tx[q].old, tx[q].new)
      /\ ~tx[q].overtaken => booking[tx[q].booking] = tx[q].old

\* A transaction that has passed its check and will write what it checked.
Live(q) ==
  /\ InFlight(q) /\ tx[q].checked
  /\ ~tx[q].overtaken /\ tx[q].booking \notin contested

\* What a check has found free stays free, unless the other booking was in
\* flight with its check done as well.
CheckedInv ==
  \A q \in Requests, c \in Bookings \ contested :
    /\ Live(q) /\ c # tx[q].booking /\ {tx[q].booking, c} \notin raced
    /\ HoldsSlot(c) /\ SameWorker(tx[q].new, booking[c])
    => Apart(tx[q].new, booking[c])

Confirming(q) == Live(q) /\ tx[q].op = "confirm"

\* A confirmation in flight is apart of the confirmed bookings, and of the
\* other confirmations in flight: each has found the other under review.
ConfirmingInv ==
  \A q \in Requests, c \in Bookings \ (contested \union stale) :
    /\ Confirming(q) /\ c # tx[q].booking
    /\ booking[c].status = "CONFIRMED" /\ SameWorker(tx[q].new, booking[c])
    => Apart(tx[q].new, booking[c])

RivalsInv ==
  \A q, p \in Requests :
    /\ Confirming(q) /\ Confirming(p) /\ tx[p].booking # tx[q].booking
    /\ SameWorker(tx[q].new, tx[p].new)
    => Apart(tx[q].new, tx[p].new)

-----------------------------------------------------------------------------
(* Rows *)

\* What is known of a row with a schedule.
LEMMA ScheduledFacts ==
  ASSUME NEW r \in Scheduleds
  PROVE  /\ r \in Row /\ r.status \in Statuses /\ r.session \in Sessions
         /\ r.start \in Nat /\ r.duration \in Nat /\ r.end \in Nat
         /\ r.start # None /\ r.end # None
         /\ EndFits(r) <=> r.end = r.start + r.duration
BY ConstantsAssumption DEF Scheduleds, Row, EndFits

\* Writing some columns of a row over another leaves a row with a schedule.
LEMMA MergedRow ==
  ASSUME NEW r \in Scheduleds, NEW old \in Scheduleds, NEW new \in Scheduleds
  PROVE  Merged(r, old, new) \in Scheduleds
<1>1. Merged(r, old, new) \in Row
  BY DEF Merged, Scheduleds, Row
<1> QED BY <1>1 DEF Merged, Scheduleds, Row

\* Written over the copy it was made from, the new row is what is stored.
LEMMA MergedOwn ==
  ASSUME NEW old \in Row, NEW new \in Row
  PROVE  Merged(old, old, new) = new
BY DEF Merged, Row

\* An open request is a transaction.
LEMMA FlightFacts ==
  ASSUME TypeInv, NEW q \in Requests, InFlight(q)
  PROVE  /\ tx[q] \in Transaction /\ tx[q].booking \in Bookings /\ tx[q].op \in Ops
         /\ tx[q].checked \in BOOLEAN /\ tx[q].overtaken \in BOOLEAN
         /\ tx[q].old \in Scheduleds /\ tx[q].new \in Scheduleds
BY DEF TypeInv, InFlight, Transaction

-----------------------------------------------------------------------------
(* Loading *)

\* Another status leaves the schedule as it is.
LEMMA RestatusedRow ==
  ASSUME NEW r \in Scheduleds, NEW status \in Statuses
  PROVE  LET n == [r EXCEPT !.status = status] IN
         /\ n \in Scheduleds /\ n.session = r.session /\ n.status = status
         /\ SameTimes(n, r) /\ (EndFits(r) => EndFits(n))
BY DEF Scheduleds, Row, SameTimes, EndFits, Statuses

\* A field of the schedule is replaced by another value of its own.
LEMMA EditedRow ==
  ASSUME NEW r \in Scheduleds, NEW f \in ScheduleFields, NEW n \in Updates(r, f)
  PROVE  n \in Scheduleds /\ Written("edit", r, n)
<1>1. r \in Row /\ r.start # None /\ r.duration # None /\ r.end # None
  BY DEF Scheduleds
<1>2. f \in Fields
  BY DEF ScheduleFields, Fields
<1>3. /\ n \in Row /\ n.status = r.status /\ n.session = r.session
      /\ EndFits(r) => EndFits(n)
      /\ n.start # None /\ n.duration # None
  BY <1>1, <1>2, UpdatesRow DEF Scheduled
<1>4. n.end # None
  <2>1. CASE f = "start"
    <3>1. PICK t \in Starts : n = SetStart(r, t)
      BY <2>1 DEF Updates
    <3>2. t \in Nat /\ r.duration \in Nat
      BY <1>1, ConstantsAssumption DEF Row
    <3>3. n.end = t + r.duration
      BY <1>1, <3>1 DEF SetStart, Row
    <3> QED BY <3>2, <3>3, ConstantsAssumption
  <2>2. CASE f = "duration"
    <3>1. PICK d \in Durations : n = SetDuration(r, d)
      BY <2>2 DEF Updates
    <3>2. d \in Nat /\ r.start \in Nat
      BY <1>1, ConstantsAssumption DEF Row
    <3>3. n.end = r.start + d
      BY <1>1, <3>1 DEF SetDuration, Row
    <3> QED BY <3>2, <3>3, ConstantsAssumption
  <2> QED BY <2>1, <2>2 DEF ScheduleFields
<1> QED BY <1>1, <1>3, <1>4 DEF Scheduleds, Written

\* Every way to load a booking makes of it what its kind of request writes.
Loads(q, b) ==
  \/ LoadSubmit(q, b)
  \/ LoadConfirm(q, b)
  \/ \E status \in Terminal : LoadClose(q, b, status)
  \/ \E f \in ScheduleFields : LoadEdit(q, b, f)

LEMMA LoadsWritten ==
  ASSUME TypeInv, NEW q \in Requests, NEW b \in Bookings, Loads(q, b)
  PROVE  \E op \in Ops, new \in Scheduleds :
           Written(op, booking[b], new) /\ Load(q, op, b, new)
<1> DEFINE r == booking[b]
           to(status) == [r EXCEPT !.status = status]
<1>1. r \in Scheduleds
  BY DEF TypeInv
<1> HIDE DEF r
<1>2. ASSUME NEW op \in Ops, NEW status \in Statuses,
             status \in AllowedTransitions(r.status),
             op = "submit" => status = "PENDING_REVIEW",
             op = "confirm" => status = "CONFIRMED" /\ r.status = "PENDING_REVIEW",
             op = "close" => status \in Terminal,
             op # "edit"
      PROVE  to(status) \in Scheduleds /\ Written(op, r, to(status))
  <2> DEFINE n == to(status)
  <2>1. /\ n \in Scheduleds /\ n.session = r.session /\ n.status = status
        /\ SameTimes(n, r) /\ (EndFits(r) => EndFits(n))
    BY <1>1, RestatusedRow
  <2> HIDE DEF n
  <2>2. Written(op, r, n)
    BY <1>2, <2>1 DEF Written
  <2> QED BY <2>1, <2>2 DEF n
<1>3. CASE LoadSubmit(q, b)
  <2>1. r.status = "DRAFT" /\ Load(q, "submit", b, to("PENDING_REVIEW"))
    BY <1>3 DEF LoadSubmit, r
  <2>2. to("PENDING_REVIEW") \in Scheduleds /\ Written("submit", r, to("PENDING_REVIEW"))
    BY <1>2, <2>1 DEF Ops, Statuses, AllowedTransitions
  <2> QED BY <2>1, <2>2 DEF r, Ops
<1>4. CASE LoadConfirm(q, b)
  <2>1. /\ "CONFIRMED" \in AllowedTransitions(r.status)
        /\ Load(q, "confirm", b, to("CONFIRMED"))
    BY <1>4 DEF LoadConfirm, r
  <2>2. r.status = "PENDING_REVIEW"
    BY <2>1 DEF AllowedTransitions
  <2>3. to("CONFIRMED") \in Scheduleds /\ Written("confirm", r, to("CONFIRMED"))
    BY <1>2, <2>1, <2>2 DEF Ops, Statuses
  <2> QED BY <2>1, <2>3 DEF r, Ops
<1>5. CASE \E status \in Terminal : LoadClose(q, b, status)
  <2>1. PICK status \in Terminal :
          /\ status \in AllowedTransitions(r.status)
          /\ Load(q, "close", b, to(status))
    BY <1>5 DEF LoadClose, r
  <2>2. to(status) \in Scheduleds /\ Written("close", r, to(status))
    BY <1>2, <2>1 DEF Ops, Statuses, Terminal
  <2> QED BY <2>1, <2>2 DEF r, Ops
<1>6. CASE \E f \in ScheduleFields : LoadEdit(q, b, f)
  <2>1. PICK f \in ScheduleFields : LoadEdit(q, b, f)
    BY <1>6
  <2>2. PICK n \in Updates(r, f) : Load(q, "edit", b, n)
    BY <2>1 DEF LoadEdit, r
  <2>3. n \in Scheduleds /\ Written("edit", r, n)
    BY <1>1, <2>2, EditedRow
  <2> QED BY <2>2, <2>3 DEF r, Ops
<1> QED BY <1>3, <1>4, <1>5, <1>6 DEF Loads

\* What a transaction's step can be.
LEMMA TxCases ==
  ASSUME TypeInv, TxNext
  PROVE  \E q \in Requests :
           \/ \E b \in Bookings, op \in Ops, new \in Scheduleds :
                Written(op, booking[b], new) /\ Load(q, op, b, new)
           \/ Check(q) \/ Rollback(q) \/ Commit(q)
<1>1. PICK q \in Requests : TxStep(q)
  BY DEF TxNext
<1>2. (\E b \in Bookings : Loads(q, b)) \/ Check(q) \/ Rollback(q) \/ Commit(q)
  BY <1>1 DEF TxStep, Loads
<1> QED BY <1>2, LoadsWritten


-----------------------------------------------------------------------------
(* Types *)

LEMMA DraftRow ==
  ASSUME NEW s \in Sessions, NEW t \in Starts, NEW d \in Durations
  PROVE  /\ Draft(s, t, d) \in Scheduleds /\ EndFits(Draft(s, t, d))
         /\ Draft(s, t, d).status = "DRAFT"
<1> DEFINE n == NewDraft(s)
           a == SetStart(n, t)
           r == SetDuration(a, d)
<1>1. /\ n \in Row /\ n.status = "DRAFT" /\ n.session = s
      /\ n.duration = None /\ n.end = None
  BY NewDraftRow DEF NewDraft, NoRow
<1>2. t \in Nat /\ d \in Nat /\ t # None /\ d # None /\ s # None
  BY ConstantsAssumption
<1> HIDE DEF n
<1>3. a = [n EXCEPT !.start = t, !.end = None]
  BY <1>1 DEF SetStart
<1>4. /\ a \in Row /\ a.status = "DRAFT" /\ a.session = s /\ a.start = t
  <2>1. t \in Nat \union {None} /\ None \in Nat \union {None}
    BY <1>2
  <2>2. [n EXCEPT !.start = t, !.end = None] \in Row
    BY <1>1, <2>1, StartRow
  <2> QED BY <1>1, <1>3, <2>2 DEF Row
<1> HIDE DEF a
<1>5. r = [a EXCEPT !.duration = d, !.end = t + d]
  BY <1>2, <1>4 DEF SetDuration
<1>6. /\ r \in Row /\ r.status = "DRAFT" /\ r.session = s /\ r.start = t
      /\ r.duration = d /\ r.end = t + d
  <2>1. d \in Nat \union {None} /\ t + d \in Nat \union {None}
    BY <1>2
  <2>2. [a EXCEPT !.duration = d, !.end = t + d] \in Row
    BY <1>4, <2>1, DurationRow
  <2> QED BY <1>4, <1>5, <2>2 DEF Row
<1> HIDE DEF r
<1>7. Draft(s, t, d) = [r EXCEPT !.type = "incall", !.screening = "passed"]
  BY DEF Draft, r, a, n
<1>8. t + d # None
  BY <1>2, ConstantsAssumption
<1> QED BY <1>2, <1>6, <1>7, <1>8 DEF Scheduleds, Row, EndFits

LEMMA TxInitTypes ==
  ASSUME TxInit
  PROVE  /\ TypeInv
         /\ \A b \in Bookings : EndFits(booking[b]) /\ booking[b].status = "DRAFT"
<1>1. PICK owner \in [Bookings -> Sessions], at \in [Bookings -> Starts], d \in Durations :
        /\ \A b, c \in Bookings : owner[b] = owner[c] => b = c
        /\ booking = [b \in Bookings |-> Draft(owner[b], at[b], d)]
        /\ session = [s \in Sessions |->
             IF \E b \in Bookings : owner[b] = s
             THEN [state |-> "AWAITING_CLIENT_CONFIRMATION",
                   active |-> CHOOSE b \in Bookings : owner[b] = s]
             ELSE [state |-> "IDLE", active |-> None]]
  BY Zenon DEF TxInit
<1>2. \A b \in Bookings :
        /\ booking[b] \in Scheduleds
        /\ EndFits(booking[b]) /\ booking[b].status = "DRAFT"
  BY <1>1, DraftRow
<1>3. booking \in [Bookings -> Scheduleds]
  BY <1>1, <1>2
<1>4. session \in [Sessions -> SessionRow]
  BY <1>1 DEF SessionRow, States
<1>5. TypeOK
  BY <1>2, <1>3, <1>4, ConstantsAssumption
     DEF TypeOK, TxInit, Scheduleds, MediaRow, NoMedia, Exists
<1> QED BY <1>2, <1>3, <1>5 DEF TypeInv, TxInit, InFlight

\* What a commit leaves of the tables and of the other transactions.
LEMMA CommitWrites ==
  ASSUME TypeInv, NEW q \in Requests, Commit(q)
  PROVE  LET t == tx[q] IN
         /\ booking' = [booking EXCEPT ![t.booking] = Merged(@, t.old, t.new)]
         /\ Merged(booking[t.booking], t.old, t.new) \in Scheduleds
         /\ session' \in [Sessions -> SessionRow]
         /\ tx' = [p \in Requests |->
              IF p = q THEN None
              ELSE IF InFlight(p) /\ tx[p].booking = t.booking
                   THEN [tx[p] EXCEPT !.overtaken = TRUE] ELSE tx[p]]
<1> DEFINE t == tx[q]
<1>1. InFlight(q)
  BY DEF Commit
<1>2. /\ t.booking \in Bookings /\ t.op \in Ops
      /\ t.old \in Scheduleds /\ t.new \in Scheduleds
  BY <1>1, FlightFacts
<1>3. booking[t.booking] \in Scheduleds
  BY <1>2 DEF TypeInv
<1>4. Merged(booking[t.booking], t.old, t.new) \in Scheduleds
  BY <1>2, <1>3, MergedRow
<1>5. session' \in [Sessions -> SessionRow]
  <2> DEFINE s == t.old.session
             reviewed == [session[s] EXCEPT !.state = "WAITING_REVIEW"]
  <2>1. s \in Sessions /\ session \in [Sessions -> SessionRow]
    BY <1>2, ScheduledFacts DEF TypeInv, TypeOK
  <2>2. \/ session' = [session EXCEPT ![s] = reviewed]
        \/ session' = session
        \/ session' = [session EXCEPT ![s] = [state |-> "IDLE", active |-> None]]
    BY DEF Commit
  <2>3. reviewed \in SessionRow
    BY <2>1 DEF SessionRow, States
  <2>4. [state |-> "IDLE", active |-> None] \in SessionRow
    BY DEF SessionRow, States
  <2> HIDE DEF s, reviewed
  <2> QED BY <2>1, <2>2, <2>3, <2>4
<1>6. \A p \in Requests :
        tx'[p] = IF p = q THEN None
                 ELSE IF InFlight(p) /\ tx[p].booking = t.booking
                      THEN [tx[p] EXCEPT !.overtaken = TRUE] ELSE tx[p]
  BY DEF Commit
<1>7. tx' = [p \in Requests |->
         IF p = q THEN None
         ELSE IF InFlight(p) /\ tx[p].booking = t.booking
              THEN [tx[p] EXCEPT !.overtaken = TRUE] ELSE tx[p]]
  BY <1>6 DEF Commit
<1> QED BY <1>4, <1>5, <1>7 DEF Commit


\* The same transaction after a step, at most overtaken.
Kept(p) ==
  /\ InFlight(p) /\ tx'[p] \in Transaction
  /\ tx'[p].op = tx[p].op /\ tx'[p].booking = tx[p].booking
  /\ tx'[p].old = tx[p].old /\ tx'[p].new = tx[p].new
  /\ ~tx'[p].overtaken => ~tx[p].overtaken

\* A check, a rollback and a commit start no transaction; only its own check
\* marks one as checked, and a commit overtakes the others of its booking.
LEMMA TxKeeps ==
  ASSUME TypeInv, NEW q \in Requests, Check(q) \/ Rollback(q) \/ Commit(q),
         NEW p \in Requests, InFlight(p)'
  PROVE  /\ Kept(p)
         /\ tx'[p].checked => \/ tx[p].checked
                              \/ p = q /\ Check(q) /\ Available(tx[q].booking, tx[q].new)
         /\ Commit(q) /\ ~tx'[p].overtaken => tx[p].booking # tx[q].booking
<1> tx \in [Requests -> Transaction \union {None}] /\ InFlight(q) /\ tx'[p] # None
  BY DEF TypeInv, Check, Rollback, Commit, InFlight
<1>1. CASE Check(q)
  <2>1. CASE p # q
    <3>1. tx'[p] = tx[p] /\ ~Commit(q)
      <4>1. tx'[p] = tx[p]
        BY <1>1, <2>1 DEF Check
      <4>2. tx'[q] = None \/ tx'[q] = [tx[q] EXCEPT !.checked = TRUE]
        BY <1>1 DEF Check
      <4>3. ASSUME Commit(q) PROVE FALSE
        <5>1. tx[q].op \in CheckedOps => tx[q].checked
          BY <4>3 DEF Commit
        <5> QED BY <1>1, <5>1 DEF Check
      <4> QED BY <4>1, <4>3
    <3> QED BY <3>1 DEF Kept, InFlight
  <2>2. CASE p = q
    <3>1. /\ Available(tx[q].booking, tx[q].new)
          /\ tx'[q] = [tx[q] EXCEPT !.checked = TRUE]
      BY <1>1, <2>2 DEF Check
    <3>2. ~Commit(q)
      BY <1>1 DEF Check, Commit
    <3>3. tx[q] \in Transaction
      BY DEF InFlight
    <3> HIDE DEF Available
    <3>4. Kept(p)
      BY <2>2, <3>1, <3>3 DEF Kept, Transaction
    <3> QED BY <1>1, <2>2, <3>1, <3>2, <3>4
  <2> QED BY <2>1, <2>2
<1>2. CASE Rollback(q)
  <2>1. tx'[p] = tx[p] /\ p # q
    BY <1>2 DEF Rollback
  <2>2. ASSUME Commit(q) PROVE ~tx'[p].overtaken => tx[p].booking # tx[q].booking
    <3>1. tx'[p] = IF p = q THEN None
                   ELSE IF InFlight(p) /\ tx[p].booking = tx[q].booking
                        THEN [tx[p] EXCEPT !.overtaken = TRUE] ELSE tx[p]
      BY <2>2, CommitWrites
    <3>2. tx[p] \in Transaction /\ InFlight(p)
      BY <2>1 DEF InFlight
    <3> QED BY <2>1, <3>1, <3>2 DEF Transaction
  <2> QED BY <2>1, <2>2 DEF Kept, InFlight
<1>3. CASE Commit(q)
  <2>1. tx'[p] = IF p = q THEN None
                 ELSE IF InFlight(p) /\ tx[p].booking = tx[q].booking
                      THEN [tx[p] EXCEPT !.overtaken = TRUE] ELSE tx[p]
    BY <1>3, CommitWrites
  <2>2. InFlight(p) /\ tx[p] \in Transaction
    BY <2>1 DEF InFlight
  <2>3. CASE tx[p].booking = tx[q].booking
    <3>1. tx'[p] = [tx[p] EXCEPT !.overtaken = TRUE]
      BY <2>1, <2>2, <2>3
    <3>2. Kept(p)
      BY <2>2, <3>1 DEF Kept, Transaction
    <3> QED BY <2>2, <3>1, <3>2 DEF Transaction
  <2>4. CASE tx[p].booking # tx[q].booking
    <3>1. tx'[p] = tx[p]
      BY <2>1, <2>4
    <3> QED BY <2>2, <2>4, <3>1 DEF Kept
  <2> QED BY <2>3, <2>4
<1> QED BY <1>1, <1>2, <1>3

\* Loading adds one transaction, unchecked and not overtaken.
LEMMA LoadAdds ==
  ASSUME TypeInv, NEW q \in Requests, NEW b \in Bookings, NEW op \in Ops,
         NEW new \in Scheduleds, Load(q, op, b, new),
         NEW p \in Requests, InFlight(p)'
  PROVE  /\ p # q => tx'[p] = tx[p] /\ InFlight(p)
         /\ p = q => /\ tx'[p] \in Transaction
                     /\ tx'[p].op = op /\ tx'[p].booking = b
                     /\ tx'[p].old = booking[b] /\ tx'[p].new = new
                     /\ ~tx'[p].checked /\ ~tx'[p].overtaken
<1> DEFINE t == [op |-> op, booking |-> b, old |-> booking[b],
                 new |-> new, checked |-> FALSE, overtaken |-> FALSE]
<1>1. booking[b] \in Row /\ new \in Row
  BY DEF TypeInv, Scheduleds
<1>2. /\ t \in Transaction /\ t.op = op /\ t.booking = b /\ t.old = booking[b]
      /\ t.new = new /\ ~t.checked /\ ~t.overtaken
  BY <1>1 DEF Transaction
<1> HIDE DEF t
<1>3. tx' = [tx EXCEPT ![q] = t]
  BY DEF Load, t
<1>4. CASE p = q
  BY <1>2, <1>3, <1>4 DEF TypeInv
<1>5. CASE p # q
  BY <1>3, <1>5 DEF TypeInv, InFlight
<1> QED BY <1>4, <1>5

LEMMA TypesKept ==
  ASSUME TypeInv, [TxNext]_txvars
  PROVE  TypeInv'
<1>1. CASE UNCHANGED txvars
  BY <1>1 DEF txvars, vars, TypeInv, TypeOK, Exists, InFlight
<1>2. CASE TxNext
  <2>1. PICK q \in Requests :
          \/ \E b \in Bookings, op \in Ops, new \in Scheduleds :
               Written(op, booking[b], new) /\ Load(q, op, b, new)
          \/ Check(q) \/ Rollback(q) \/ Commit(q)
    BY <1>2, TxCases
  <2>2. CASE \E b \in Bookings, op \in Ops, new \in Scheduleds : Load(q, op, b, new)
    <3>1. PICK b \in Bookings, op \in Ops, new \in Scheduleds : Load(q, op, b, new)
      BY <2>2
    <3>2. UNCHANGED <<vars, raced, contested>> /\ DOMAIN tx' = Requests
      BY <3>1 DEF Load, TypeInv
    <3>3. \A p \in Requests :
            /\ tx'[p] \in Transaction \union {None}
            /\ InFlight(p)' => tx'[p].old \in Scheduleds /\ tx'[p].new \in Scheduleds
      <4> SUFFICES ASSUME NEW p \in Requests, InFlight(p)'
                   PROVE  /\ tx'[p] \in Transaction
                          /\ tx'[p].old \in Scheduleds /\ tx'[p].new \in Scheduleds
        BY DEF InFlight
      <4>1. CASE p = q
        BY <3>1, <4>1, LoadAdds DEF TypeInv
      <4>2. CASE p # q
        BY <3>1, <4>2, LoadAdds, FlightFacts
      <4> QED BY <4>1, <4>2
    <3>4. tx' \in [Requests -> Transaction \union {None}]
      BY <3>1, <3>3 DEF Load, TypeInv
    <3> QED BY <3>2, <3>3, <3>4 DEF vars, TypeInv, TypeOK, Exists
  <2>3. CASE Check(q) \/ Rollback(q) \/ Commit(q)
    <3>1. \A p \in Requests :
            /\ tx'[p] \in Transaction \union {None}
            /\ InFlight(p)' => tx'[p].old \in Scheduleds /\ tx'[p].new \in Scheduleds
      <4> SUFFICES ASSUME NEW p \in Requests, InFlight(p)'
                   PROVE  /\ tx'[p] \in Transaction
                          /\ tx'[p].old \in Scheduleds /\ tx'[p].new \in Scheduleds
        BY DEF InFlight
      <4>1. Kept(p)
        BY <2>3, TxKeeps
      <4> QED BY <4>1, FlightFacts DEF Kept
    <3>2. CASE Check(q) \/ Rollback(q)
      <4>1. UNCHANGED <<vars, raced, contested>>
        BY <3>2 DEF Check, Rollback
      <4>2. tx' \in [Requests -> Transaction \union {None}]
        BY <3>1, <3>2 DEF Check, Rollback, TypeInv
      <4> QED BY <3>1, <4>1, <4>2 DEF vars, TypeInv, TypeOK, Exists
    <3>3. CASE Commit(q)
      <4> DEFINE t == tx[q]
                 n == Merged(booking[t.booking], t.old, t.new)
      <4>1. /\ booking' = [booking EXCEPT ![t.booking] = n] /\ n \in Scheduleds
            /\ session' \in [Sessions -> SessionRow]
            /\ DOMAIN tx' = Requests
        BY <3>3, CommitWrites
      <4>2. tx' \in [Requests -> Transaction \union {None}]
        BY <3>1, <3>3, CommitWrites
      <4>3. InFlight(q) /\ t.booking \in Bookings
        BY <3>3, FlightFacts DEF Commit
      <4>4. stale' \subseteq Bookings /\ contested' \subseteq Bookings
        BY <3>3, <4>3 DEF Commit, TypeInv, TypeOK
      <4>5. raced' \subseteq SUBSET Bookings
        <5>1. CheckedMeanwhile(q) \subseteq Bookings
          BY FlightFacts DEF CheckedMeanwhile
        <5>2. raced' \subseteq raced \union {{t.booking, c} : c \in CheckedMeanwhile(q)}
          BY <3>3 DEF Commit
        <5>3. \A x \in {{t.booking, c} : c \in CheckedMeanwhile(q)} : x \subseteq Bookings
          BY <4>3, <5>1
        <5> QED BY <5>2, <5>3 DEF TypeInv
      <4> HIDE DEF n
      <4>6. booking' \in [Bookings -> Scheduleds]
        BY <4>1 DEF TypeInv
      <4>7. TypeOK'
        <5>1. UNCHANGED <<media, now, amended>>
          BY <3>3 DEF Commit
        <5>2. \A b \in Bookings : booking'[b] \in Row /\ booking'[b].session # None
          BY <4>6 DEF Scheduleds
        <5> QED BY <4>1, <4>4, <4>6, <5>1, <5>2 DEF TypeInv, TypeOK, Exists
      <4> QED BY <3>1, <4>2, <4>4, <4>5, <4>6, <4>7 DEF TypeInv
    <3> QED BY <2>3, <3>2, <3>3
  <2> QED BY <2>1, <2>2, <2>3
<1> QED BY <1>1, <1>2


-----------------------------------------------------------------------------
(* The loaded copies and the derived end *)

\* A commit that was not overtaken stores what was made of the copy.
LEMMA CommitsNew ==
  ASSUME TypeInv, LoadInv, NEW q \in Requests, Commit(q), ~tx[q].overtaken
  PROVE  booking' = [booking EXCEPT ![tx[q].booking] = tx[q].new]
<1>1. InFlight(q)
  BY DEF Commit
<1>2. tx[q].old \in Row /\ tx[q].new \in Row
  BY <1>1, FlightFacts DEF Scheduleds
<1>3. booking[tx[q].booking] = tx[q].old
  BY <1>1 DEF LoadInv
<1>4. Merged(booking[tx[q].booking], tx[q].old, tx[q].new) = tx[q].new
  BY <1>2, <1>3, MergedOwn
<1> QED BY <1>4, CommitWrites

\* A commit on the booking of another transaction overtakes it.
LEMMA LoadKept ==
  ASSUME TypeInv, LoadInv, [TxNext]_txvars
  PROVE  LoadInv'
<1>1. CASE UNCHANGED txvars
  BY <1>1 DEF txvars, vars, LoadInv, InFlight
<1>2. CASE TxNext
  <2>1. PICK q \in Requests :
          \/ \E b \in Bookings, op \in Ops, new \in Scheduleds :
               Written(op, booking[b], new) /\ Load(q, op, b, new)
          \/ Check(q) \/ Rollback(q) \/ Commit(q)
    BY <1>2, TxCases
  <2> SUFFICES ASSUME NEW p \in Requests, InFlight(p)'
               PROVE  /\ Written(tx'[p].op, tx'[p].old, tx'[p].new)
                      /\ ~tx'[p].overtaken => booking'[tx'[p].booking] = tx'[p].old
    BY DEF LoadInv
  <2>2. ASSUME NEW b \in Bookings, NEW op \in Ops, NEW new \in Scheduleds,
               Written(op, booking[b], new), Load(q, op, b, new)
        PROVE  /\ Written(tx'[p].op, tx'[p].old, tx'[p].new)
               /\ ~tx'[p].overtaken => booking'[tx'[p].booking] = tx'[p].old
    <3>1. booking' = booking
      BY <2>2 DEF Load, vars
    <3>2. CASE p = q
      <4>1. /\ tx'[p].op = op /\ tx'[p].booking = b
            /\ tx'[p].old = booking[b] /\ tx'[p].new = new
        BY <2>2, <3>2, LoadAdds
      <4> QED BY <2>2, <3>1, <4>1
    <3>3. CASE p # q
      <4>1. tx'[p] = tx[p] /\ InFlight(p)
        BY <2>2, <3>3, LoadAdds
      <4> QED BY <3>1, <4>1 DEF LoadInv
    <3> QED BY <3>2, <3>3
  <2>3. CASE Check(q) \/ Rollback(q) \/ Commit(q)
    <3>1. Kept(p) /\ (Commit(q) /\ ~tx'[p].overtaken => tx[p].booking # tx[q].booking)
      BY <2>3, TxKeeps
    <3>2. Written(tx'[p].op, tx'[p].old, tx'[p].new)
      BY <3>1 DEF Kept, LoadInv
    <3>3. ASSUME ~tx'[p].overtaken
          PROVE  booking'[tx'[p].booking] = tx'[p].old
      <4>1. booking[tx[p].booking] = tx[p].old /\ tx[p].booking \in Bookings
        BY <3>1, <3>3, FlightFacts DEF Kept, LoadInv
      <4>2. booking'[tx[p].booking] = booking[tx[p].booking]
        <5>1. CASE Commit(q)
          BY <3>1, <3>3, <4>1, <5>1, CommitWrites DEF TypeInv
        <5>2. CASE Check(q) \/ Rollback(q)
          BY <5>2 DEF Check, Rollback, vars
        <5> QED BY <2>3, <5>1, <5>2
      <4> QED BY <3>1, <4>1, <4>2 DEF Kept
    <3> QED BY <3>2, <3>3
  <2> QED BY <2>1, <2>2, <2>3
<1> QED BY <1>1, <1>2

\* What a commit does to a booking that is not contested.
LEMMA OwnCommit ==
  ASSUME TypeInv, LoadInv, NEW q \in Requests, Commit(q),
         NEW b \in Bookings \ contested'
  PROVE  /\ b \notin contested
         /\ b # tx[q].booking => booking'[b] = booking[b]
         /\ b = tx[q].booking => /\ ~tx[q].overtaken /\ booking'[b] = tx[q].new
                                 /\ booking[b] = tx[q].old
<1>1. InFlight(q) /\ tx[q].booking \in Bookings
  BY FlightFacts DEF Commit
<1>2. contested' = IF tx[q].overtaken THEN contested \union {tx[q].booking} ELSE contested
  BY DEF Commit
<1>3. CASE b # tx[q].booking
  BY <1>1, <1>2, <1>3, CommitWrites DEF TypeInv
<1>4. CASE b = tx[q].booking
  <2>1. ~tx[q].overtaken
    BY <1>2, <1>4
  <2>2. booking[b] = tx[q].old
    BY <1>1, <1>4, <2>1 DEF LoadInv
  <2>3. booking' = [booking EXCEPT ![tx[q].booking] = tx[q].new]
    BY <2>1, CommitsNew
  <2> QED BY <1>1, <1>2, <1>4, <2>1, <2>2, <2>3 DEF TypeInv
<1> QED BY <1>3, <1>4

EndsInv == \A b \in Bookings \ contested : EndFits(booking[b])

LEMMA EndsKept ==
  ASSUME TypeInv, LoadInv, EndsInv, [TxNext]_txvars
  PROVE  EndsInv'
<1>1. CASE UNCHANGED txvars
  BY <1>1 DEF txvars, vars, EndsInv
<1>2. CASE TxNext
  <2>1. PICK q \in Requests :
          \/ \E b \in Bookings, op \in Ops, new \in Scheduleds : Load(q, op, b, new)
          \/ Check(q) \/ Rollback(q) \/ Commit(q)
    BY <1>2, TxCases
  <2>2. CASE Commit(q)
    <3> SUFFICES ASSUME NEW b \in Bookings \ contested'
                 PROVE  EndFits(booking'[b])
      BY DEF EndsInv
    <3>1. b \notin contested
      BY <2>2, OwnCommit
    <3>2. EndFits(booking[b])
      BY <3>1 DEF EndsInv
    <3>3. CASE b = tx[q].booking
      <4>1. booking'[b] = tx[q].new /\ booking[b] = tx[q].old
        BY <2>2, <3>3, OwnCommit
      <4>2. Written(tx[q].op, tx[q].old, tx[q].new)
        BY <2>2 DEF Commit, LoadInv
      <4> QED BY <3>2, <4>1, <4>2 DEF Written
    <3>4. CASE b # tx[q].booking
      BY <2>2, <3>2, <3>4, OwnCommit
    <3> QED BY <3>3, <3>4
  <2>3. CASE ~Commit(q)
    <3>1. UNCHANGED <<vars, contested>>
      BY <2>1, <2>3 DEF Load, Check, Rollback
    <3> QED BY <3>1 DEF vars, EndsInv
  <2> QED BY <2>2, <2>3
<1> QED BY <1>1, <1>2


-----------------------------------------------------------------------------
(* Conflicts and checks in flight together *)

\* A transaction is live because it was, or because it passes its check now.
LEMMA LiveKept ==
  ASSUME TypeInv, NEW q \in Requests, Check(q) \/ Rollback(q) \/ Commit(q),
         NEW p \in Requests, Live(p)'
  PROVE  /\ Kept(p)
         /\ \/ Live(p)
            \/ p = q /\ Check(q) /\ Available(tx[q].booking, tx[q].new)
         /\ Commit(q) => Live(p) /\ p # q /\ tx[p].booking # tx[q].booking
<1>1. InFlight(p)' /\ tx'[p].checked /\ ~tx'[p].overtaken /\ tx'[p].booking \notin contested'
  BY DEF Live
<1>2. /\ Kept(p)
      /\ \/ tx[p].checked
         \/ p = q /\ Check(q) /\ Available(tx[q].booking, tx[q].new)
      /\ Commit(q) => tx[p].booking # tx[q].booking
  BY <1>1, TxKeeps
<1>3. contested \subseteq contested'
  BY DEF Check, Rollback, Commit
<1>4. tx[p].checked => Live(p)
  BY <1>1, <1>2, <1>3 DEF Kept, Live
<1>5. Commit(q) => p # q
  BY <1>2
<1> QED BY <1>2, <1>4, <1>5

\* A request that has found its slot free is apart of every booking that the
\* query can see.
LEMMA FreeIsApart ==
  ASSUME TypeInv, LoadInv, EndsInv, NEW q \in Requests, InFlight(q), ~tx[q].overtaken,
         tx[q].booking \notin contested, Available(tx[q].booking, tx[q].new),
         NEW c \in Bookings, c # tx[q].booking, booking[c].status \in Occupying,
         SameWorker(tx[q].new, booking[c])
  PROVE  Apart(tx[q].new, booking[c])
<1> DEFINE r == tx[q].new
           o == booking[c]
<1>1. /\ r \in Scheduleds /\ tx[q].booking \in Bookings
      /\ booking[tx[q].booking] = tx[q].old /\ Written(tx[q].op, tx[q].old, r)
  BY FlightFacts DEF LoadInv
<1>2. EndFits(r)
  BY <1>1 DEF EndsInv, Written
<1>3. r.start \in Nat /\ r.duration \in Nat /\ r.end = r.start + r.duration
  BY <1>1, <1>2, ScheduledFacts
<1>4. o \in Scheduleds
  BY DEF TypeInv
<1>5. o.start \in Nat /\ o.end \in Nat /\ o.start # None /\ o.end # None
  BY <1>4, ScheduledFacts
<1>6. ~Overlaps(o, r)
  BY DEF Available
<1>7. o.status \in Occupying /\ WorkerOf[o.session] = WorkerOf[r.session]
  BY DEF SameWorker
<1> HIDE DEF o, r
<1>8. Apart(r, o)
  BY <1>3, <1>5, <1>6, <1>7, ConstantsAssumption DEF Overlaps, Apart
<1> QED BY <1>8 DEF o, r

\* A booking other than the one committed keeps its place in the calendar.
LEMMA OtherRow ==
  ASSUME TypeInv, NEW q \in Requests, Commit(q),
         NEW c \in Bookings, c # tx[q].booking
  PROVE  /\ booking'[c] = booking[c] /\ (c \in stale' <=> c \in stale)
         /\ HoldsSlot(c)' <=> HoldsSlot(c)
<1>1. InFlight(q) /\ tx[q].booking \in Bookings
  BY FlightFacts DEF Commit
<1>2. booking'[c] = booking[c]
  BY <1>1, CommitWrites DEF TypeInv
<1>3. c \in stale' <=> c \in stale
  BY DEF Commit
<1> QED BY <1>2, <1>3 DEF HoldsSlot

LEMMA CheckedKept ==
  ASSUME TypeInv, LoadInv, EndsInv, CheckedInv, [TxNext]_txvars
  PROVE  CheckedInv'
<1>1. CASE UNCHANGED txvars
  BY <1>1 DEF txvars, vars, CheckedInv, Live, InFlight, HoldsSlot
<1>2. CASE TxNext
  <2>1. PICK q \in Requests :
          \/ \E b \in Bookings, op \in Ops, new \in Scheduleds : Load(q, op, b, new)
          \/ Check(q) \/ Rollback(q) \/ Commit(q)
    BY <1>2, TxCases
  <2> SUFFICES ASSUME NEW p \in Requests, NEW c \in Bookings \ contested',
                      Live(p)', c # tx'[p].booking, {tx'[p].booking, c} \notin raced',
                      HoldsSlot(c)', SameWorker(tx'[p].new, booking'[c])
               PROVE  Apart(tx'[p].new, booking'[c])
    BY DEF CheckedInv
  <2>2. ASSUME NEW b \in Bookings, NEW op \in Ops, NEW new \in Scheduleds, Load(q, op, b, new)
        PROVE  Apart(tx'[p].new, booking'[c])
    <3>1. InFlight(p)' /\ tx'[p].checked
      BY DEF Live
    <3>2. tx'[p] = tx[p] /\ InFlight(p)
      BY <2>2, <3>1, LoadAdds
    <3>3. UNCHANGED <<vars, raced, contested>>
      BY <2>2 DEF Load
    <3>4. Live(p) /\ HoldsSlot(c)
      BY <3>2, <3>3 DEF Live, HoldsSlot, vars
    <3> QED BY <3>2, <3>3, <3>4 DEF CheckedInv, vars
  <2>3. CASE Check(q) \/ Rollback(q)
    <3>1. UNCHANGED <<vars, raced, contested>>
      BY <2>3 DEF Check, Rollback
    <3>2. HoldsSlot(c) /\ booking' = booking
      BY <3>1 DEF HoldsSlot, vars
    <3>3. /\ Kept(p)
          /\ \/ Live(p)
             \/ p = q /\ Available(tx[q].booking, tx[q].new)
      BY <2>3, LiveKept
    <3>4. CASE Live(p)
      BY <3>1, <3>2, <3>3, <3>4 DEF CheckedInv, Kept
    <3>5. CASE p = q /\ Available(tx[q].booking, tx[q].new)
      <4>1. ~tx[p].overtaken /\ tx[p].booking \notin contested
        BY <3>1, <3>3 DEF Kept, Live
      <4> QED BY <3>2, <3>3, <3>5, <4>1, FreeIsApart DEF Kept, HoldsSlot
    <3> QED BY <3>3, <3>4, <3>5
  <2>4. CASE Commit(q)
    <3>1. Kept(p) /\ Live(p) /\ p # q /\ tx[p].booking # tx[q].booking
      BY <2>4, LiveKept
    <3>2. c \notin contested /\ raced \subseteq raced'
      <4>1. c \notin contested
        BY <2>4, OwnCommit
      <4> QED BY <2>4, <4>1 DEF Commit
    <3>3. CASE c # tx[q].booking
      <4>1. booking'[c] = booking[c] /\ HoldsSlot(c)
        BY <2>4, <3>3, OtherRow
      <4> QED BY <3>1, <3>2, <4>1 DEF CheckedInv, Kept
    <3>4. CASE c = tx[q].booking
      <4>1. booking'[c] = tx[q].new /\ booking[c] = tx[q].old /\ InFlight(q)
        BY <2>4, <3>4, OwnCommit DEF Commit
      <4>2. Written(tx[q].op, tx[q].old, tx[q].new) /\ tx[q].op \in Ops
        BY <4>1, FlightFacts DEF LoadInv
      <4>3. tx[q].op \notin CheckedOps
        <5>1. tx[p].booking \in CheckedMeanwhile(q)
          BY <3>1 DEF CheckedMeanwhile, Live
        <5>2. tx[q].op \in CheckedOps => {tx[q].booking, tx[p].booking} \in raced'
          BY <2>4, <5>1 DEF Commit
        <5>3. {tx[q].booking, tx[p].booking} = {tx'[p].booking, c}
          BY <3>1, <3>4 DEF Kept
        <5> QED BY <5>2, <5>3
      <4>4. tx[q].op # "close"
        BY <4>1, <4>2 DEF Written, HoldsSlot, Occupying, Terminal
      <4>5. tx[q].op # "edit"
        <5>1. ASSUME tx[q].op = "edit" PROVE FALSE
          <6>1. tx[q].old.status \in Occupying
            BY <4>1, <4>2, <5>1 DEF Written, HoldsSlot
          <6>2. c \in stale'
            BY <2>4, <3>4, <5>1, <6>1 DEF Commit, CheckedOps
          <6> QED BY <6>2 DEF HoldsSlot
        <5> QED BY <5>1
      <4> QED BY <4>2, <4>3, <4>4, <4>5 DEF Ops, CheckedOps
    <3> QED BY <3>3, <3>4
  <2> QED BY <2>1, <2>2, <2>3, <2>4
<1> QED BY <1>1, <1>2


LEMMA ApartBoth ==
  ASSUME NEW r, NEW o
  PROVE  (Apart(r, o) <=> Apart(o, r)) /\ (SameWorker(r, o) <=> SameWorker(o, r))
BY DEF Apart, SameWorker

\* A conflict that enters the calendar was checked with its other half in
\* flight.
LEMMA ConflictsKept ==
  ASSUME TypeInv, LoadInv, CheckedInv, ConflictsRaced, [TxNext]_txvars
  PROVE  ConflictsRaced'
<1>1. CASE UNCHANGED txvars
  BY <1>1 DEF txvars, vars, ConflictsRaced, HoldsSlot
<1>2. CASE TxNext
  <2>1. PICK q \in Requests :
          \/ \E b \in Bookings, op \in Ops, new \in Scheduleds : Load(q, op, b, new)
          \/ Check(q) \/ Rollback(q) \/ Commit(q)
    BY <1>2, TxCases
  <2>2. CASE ~Commit(q)
    <3>1. UNCHANGED <<vars, raced, contested>>
      BY <2>1, <2>2 DEF Load, Check, Rollback
    <3> QED BY <3>1 DEF vars, ConflictsRaced, HoldsSlot
  <2>3. CASE Commit(q)
    <3> DEFINE t == tx[q]
    <3>1. InFlight(q) /\ t.booking \in Bookings /\ t.op \in Ops
      BY <2>3, FlightFacts DEF Commit
    <3>2. raced \subseteq raced'
      BY <2>3 DEF Commit
    <3>3. ASSUME NEW b \in Bookings \ contested', NEW c \in Bookings \ contested',
                 b = t.booking, c # b, {b, c} \notin raced',
                 HoldsSlot(b)', HoldsSlot(c)', SameWorker(booking'[b], booking'[c])
          PROVE  Apart(booking'[b], booking'[c])
      <4>1. b \notin contested /\ ~t.overtaken /\ booking'[b] = t.new /\ booking[b] = t.old
        BY <2>3, <3>3, OwnCommit
      <4>2. c \notin contested /\ booking'[c] = booking[c] /\ HoldsSlot(c)
        BY <2>3, <3>3, OwnCommit, OtherRow
      <4>3. Written(t.op, t.old, t.new)
        BY <3>1 DEF LoadInv
      <4>4. t.op \in CheckedOps
        <5>1. t.op # "close"
          BY <3>3, <4>1, <4>3 DEF Written, HoldsSlot, Occupying, Terminal
        <5>2. ASSUME t.op = "edit" PROVE FALSE
          <6>1. t.old.status \in Occupying
            BY <3>3, <4>1, <4>3, <5>2 DEF Written, HoldsSlot
          <6>2. b \in stale'
            BY <2>3, <3>3, <5>2, <6>1 DEF Commit, CheckedOps
          <6> QED BY <3>3, <6>2 DEF HoldsSlot
        <5> QED BY <3>1, <5>1, <5>2 DEF Ops, CheckedOps
      <4>5. Live(q)
        BY <2>3, <3>3, <4>1, <4>4 DEF Commit, Live
      <4> QED BY <3>2, <3>3, <4>1, <4>2, <4>5 DEF CheckedInv
    <3> SUFFICES ASSUME NEW b \in Bookings \ contested', NEW c \in Bookings \ contested',
                        b # c, {b, c} \notin raced',
                        HoldsSlot(b)', HoldsSlot(c)', SameWorker(booking'[b], booking'[c])
                 PROVE  Apart(booking'[b], booking'[c])
      BY DEF ConflictsRaced
    <3>4. CASE b = t.booking
      BY <3>3, <3>4
    <3>5. CASE c = t.booking
      <4>1. {c, b} = {b, c}
        OBVIOUS
      <4>2. SameWorker(booking'[c], booking'[b])
        BY ApartBoth
      <4>3. Apart(booking'[c], booking'[b])
        BY <3>3, <3>5, <4>1, <4>2
      <4> QED BY <4>3, ApartBoth
    <3>6. CASE b # t.booking /\ c # t.booking
      <4>1. /\ booking'[b] = booking[b] /\ HoldsSlot(b) /\ b \notin contested
            /\ booking'[c] = booking[c] /\ HoldsSlot(c) /\ c \notin contested
        BY <2>3, <3>6, OtherRow, OwnCommit
      <4> QED BY <3>2, <4>1 DEF ConflictsRaced
    <3> QED BY <3>4, <3>5, <3>6
  <2> QED BY <2>2, <2>3
<1> QED BY <1>1, <1>2

-----------------------------------------------------------------------------
(* Confirmations *)

\* A booking that a commit confirms was checked for it.
LEMMA ConfirmedByCheck ==
  ASSUME TypeInv, LoadInv, NEW q \in Requests, Commit(q),
         NEW b \in Bookings \ (contested' \union stale'), b = tx[q].booking,
         booking'[b].status = "CONFIRMED"
  PROVE  Confirming(q) /\ booking'[b] = tx[q].new
<1> DEFINE t == tx[q]
<1>1. InFlight(q) /\ t.op \in Ops
  BY FlightFacts DEF Commit
<1>2. b \notin contested /\ ~t.overtaken /\ booking'[b] = t.new /\ booking[b] = t.old
  BY OwnCommit
<1>3. Written(t.op, t.old, t.new)
  BY <1>1 DEF LoadInv
<1>4. t.op # "close" /\ t.op # "submit"
  BY <1>2, <1>3 DEF Written, Terminal
<1>5. ASSUME t.op = "edit" PROVE FALSE
  <2>1. t.old.status \in Occupying
    BY <1>2, <1>3, <1>5 DEF Written, Occupying
  <2>2. b \in stale'
    BY <1>5, <2>1 DEF Commit, CheckedOps
  <2> QED BY <2>2
<1>6. t.op = "confirm"
  BY <1>1, <1>4, <1>5 DEF Ops
<1>7. Live(q)
  BY <1>2, <1>6 DEF Commit, Live, CheckedOps
<1> QED BY <1>2, <1>6, <1>7 DEF Confirming

LEMMA ConfirmingKept ==
  ASSUME TypeInv, LoadInv, EndsInv, ConfirmingInv, RivalsInv, [TxNext]_txvars
  PROVE  ConfirmingInv'
<1>1. CASE UNCHANGED txvars
  BY <1>1 DEF txvars, vars, ConfirmingInv, Confirming, Live, InFlight
<1>2. CASE TxNext
  <2>1. PICK q \in Requests :
          \/ \E b \in Bookings, op \in Ops, new \in Scheduleds : Load(q, op, b, new)
          \/ Check(q) \/ Rollback(q) \/ Commit(q)
    BY <1>2, TxCases
  <2> SUFFICES ASSUME NEW p \in Requests, NEW c \in Bookings \ (contested' \union stale'),
                      Confirming(p)', c # tx'[p].booking,
                      booking'[c].status = "CONFIRMED", SameWorker(tx'[p].new, booking'[c])
               PROVE  Apart(tx'[p].new, booking'[c])
    BY DEF ConfirmingInv
  <2>2. Live(p)' /\ tx'[p].op = "confirm"
    BY DEF Confirming
  <2>3. ASSUME NEW b \in Bookings, NEW op \in Ops, NEW new \in Scheduleds, Load(q, op, b, new)
        PROVE  Apart(tx'[p].new, booking'[c])
    <3>1. InFlight(p)' /\ tx'[p].checked
      BY <2>2 DEF Live
    <3>2. tx'[p] = tx[p] /\ InFlight(p)
      BY <2>3, <3>1, LoadAdds
    <3>3. UNCHANGED <<vars, raced, contested>>
      BY <2>3 DEF Load
    <3>4. Confirming(p)
      BY <2>2, <3>2, <3>3 DEF Live, Confirming
    <3> QED BY <3>2, <3>3, <3>4 DEF ConfirmingInv, vars
  <2>4. CASE Check(q) \/ Rollback(q)
    <3>1. UNCHANGED <<vars, raced, contested>>
      BY <2>4 DEF Check, Rollback
    <3>2. /\ Kept(p)
          /\ \/ Live(p)
             \/ p = q /\ Available(tx[q].booking, tx[q].new)
      BY <2>2, <2>4, LiveKept
    <3>3. CASE Live(p)
      BY <2>2, <3>1, <3>2, <3>3 DEF ConfirmingInv, Confirming, Kept, vars
    <3>4. CASE p = q /\ Available(tx[q].booking, tx[q].new)
      <4>1. ~tx[p].overtaken /\ tx[p].booking \notin contested
        BY <2>2, <3>1, <3>2 DEF Kept, Live
      <4>2. booking' = booking /\ booking[c].status \in Occupying
        BY <3>1 DEF vars, Occupying
      <4> QED BY <3>2, <3>4, <4>1, <4>2, FreeIsApart DEF Kept
    <3> QED BY <3>2, <3>3, <3>4
  <2>5. CASE Commit(q)
    <3>1. Kept(p) /\ Live(p) /\ p # q /\ tx[p].booking # tx[q].booking
      BY <2>2, <2>5, LiveKept
    <3>2. Confirming(p) /\ c \notin contested
      BY <2>2, <2>5, <3>1, OwnCommit DEF Kept, Confirming
    <3>3. CASE c # tx[q].booking
      <4>1. booking'[c] = booking[c] /\ c \notin stale
        BY <2>5, <3>3, OtherRow
      <4> QED BY <3>1, <3>2, <4>1 DEF ConfirmingInv, Kept
    <3>4. CASE c = tx[q].booking
      <4>1. Confirming(q) /\ booking'[c] = tx[q].new
        BY <2>5, <3>4, ConfirmedByCheck
      <4> QED BY <3>1, <3>2, <4>1 DEF RivalsInv, Kept
    <3> QED BY <3>3, <3>4
  <2> QED BY <2>1, <2>3, <2>4, <2>5
<1> QED BY <1>1, <1>2

\* The later of two checks sees the other booking under review.
LEMMA LaterCheck ==
  ASSUME TypeInv, LoadInv, EndsInv, NEW q \in Requests, NEW p \in Requests,
         InFlight(q), ~tx[q].overtaken, tx[q].booking \notin contested,
         Available(tx[q].booking, tx[q].new), Confirming(p),
         tx[p].booking # tx[q].booking, SameWorker(tx[q].new, tx[p].new)
  PROVE  Apart(tx[q].new, tx[p].new)
<1> DEFINE c == tx[p].booking
           o == booking[c]
<1>1. InFlight(p) /\ ~tx[p].overtaken /\ tx[p].op = "confirm" /\ c \in Bookings
  BY FlightFacts DEF Confirming, Live
<1>2. o = tx[p].old /\ Written("confirm", tx[p].old, tx[p].new)
  BY <1>1 DEF LoadInv
<1>3. /\ o.status \in Occupying /\ o.session = tx[p].new.session
      /\ o.start = tx[p].new.start /\ o.end = tx[p].new.end
  BY <1>2 DEF Written, Occupying, SameTimes
<1>4. SameWorker(tx[q].new, o)
  BY <1>3 DEF SameWorker
<1>5. Apart(tx[q].new, o)
  BY <1>1, <1>3, <1>4, FreeIsApart
<1> QED BY <1>3, <1>5 DEF Apart

LEMMA RivalsKept ==
  ASSUME TypeInv, LoadInv, EndsInv, RivalsInv, [TxNext]_txvars
  PROVE  RivalsInv'
<1>1. CASE UNCHANGED txvars
  BY <1>1 DEF txvars, vars, RivalsInv, Confirming, Live, InFlight
<1>2. CASE TxNext
  <2>1. PICK q \in Requests :
          \/ \E b \in Bookings, op \in Ops, new \in Scheduleds : Load(q, op, b, new)
          \/ Check(q) \/ Rollback(q) \/ Commit(q)
    BY <1>2, TxCases
  <2> SUFFICES ASSUME NEW p \in Requests, NEW x \in Requests,
                      Confirming(p)', Confirming(x)', tx'[x].booking # tx'[p].booking,
                      SameWorker(tx'[p].new, tx'[x].new)
               PROVE  Apart(tx'[p].new, tx'[x].new)
    BY DEF RivalsInv
  <2>2. /\ Live(p)' /\ tx'[p].op = "confirm"
        /\ Live(x)' /\ tx'[x].op = "confirm"
    BY DEF Confirming
  <2>3. ASSUME NEW b \in Bookings, NEW op \in Ops, NEW new \in Scheduleds, Load(q, op, b, new)
        PROVE  Apart(tx'[p].new, tx'[x].new)
    <3>1. /\ InFlight(p)' /\ tx'[p].checked
          /\ InFlight(x)' /\ tx'[x].checked
      BY <2>2 DEF Live
    <3>2. /\ tx'[p] = tx[p] /\ InFlight(p)
          /\ tx'[x] = tx[x] /\ InFlight(x)
      BY <2>3, <3>1, LoadAdds
    <3>3. UNCHANGED contested
      BY <2>3 DEF Load
    <3>4. Confirming(p) /\ Confirming(x)
      BY <2>2, <3>2, <3>3 DEF Live, Confirming
    <3> QED BY <3>2, <3>4 DEF RivalsInv
  <2>4. CASE Check(q) \/ Rollback(q) \/ Commit(q)
    <3>1. /\ Kept(p)
          /\ \/ Live(p)
             \/ p = q /\ Check(q) /\ Available(tx[q].booking, tx[q].new)
      BY <2>2, <2>4, LiveKept
    <3>2. /\ Kept(x)
          /\ \/ Live(x)
             \/ x = q /\ Check(q) /\ Available(tx[q].booking, tx[q].new)
      BY <2>2, <2>4, LiveKept
    <3>3. tx[p].op = "confirm" /\ tx[x].op = "confirm" /\ p # x
      BY <2>2, <3>1, <3>2 DEF Kept
    <3>4. CASE Live(p) /\ Live(x)
      BY <3>1, <3>2, <3>3, <3>4 DEF RivalsInv, Confirming, Kept
    <3>5. ASSUME Check(q)
          PROVE  /\ tx'[p].booking \notin contested /\ tx'[x].booking \notin contested
      BY <2>2, <3>5 DEF Live, Check
    <3>6. CASE p = q /\ Check(q) /\ Available(tx[q].booking, tx[q].new)
      <4>1. Confirming(x)
        BY <3>2, <3>3, <3>6 DEF Confirming
      <4>2. ~tx[p].overtaken /\ tx[p].booking \notin contested
        BY <2>2, <3>1, <3>5, <3>6 DEF Kept, Live
      <4> QED BY <3>1, <3>2, <3>6, <4>1, <4>2, LaterCheck DEF Kept
    <3>7. CASE x = q /\ Check(q) /\ Available(tx[q].booking, tx[q].new)
      <4>1. Confirming(p)
        BY <3>1, <3>3, <3>7 DEF Confirming
      <4>2. ~tx[x].overtaken /\ tx[x].booking \notin contested
        BY <2>2, <3>2, <3>5, <3>7 DEF Kept, Live
      <4>3. SameWorker(tx[x].new, tx[p].new)
        BY <3>1, <3>2, ApartBoth DEF Kept
      <4>4. Apart(tx[x].new, tx[p].new)
        BY <3>1, <3>2, <3>7, <4>1, <4>2, <4>3, LaterCheck DEF Kept
      <4> QED BY <3>1, <3>2, <4>4, ApartBoth DEF Kept
    <3> QED BY <3>1, <3>2, <3>4, <3>6, <3>7
  <2> QED BY <2>1, <2>3, <2>4
<1> QED BY <1>1, <1>2

\* A confirmation that commits is apart of what is confirmed.
LEMMA ConfirmedKept ==
  ASSUME TypeInv, LoadInv, ConfirmingInv, ConfirmedApart, [TxNext]_txvars
  PROVE  ConfirmedApart'
<1>1. CASE UNCHANGED txvars
  BY <1>1 DEF txvars, vars, ConfirmedApart
<1>2. CASE TxNext
  <2>1. PICK q \in Requests :
          \/ \E b \in Bookings, op \in Ops, new \in Scheduleds : Load(q, op, b, new)
          \/ Check(q) \/ Rollback(q) \/ Commit(q)
    BY <1>2, TxCases
  <2>2. CASE ~Commit(q)
    <3>1. UNCHANGED <<vars, contested>>
      BY <2>1, <2>2 DEF Load, Check, Rollback
    <3> QED BY <3>1 DEF vars, ConfirmedApart
  <2>3. CASE Commit(q)
    <3>1. ASSUME NEW b \in Bookings \ (contested' \union stale'),
                 NEW c \in Bookings \ (contested' \union stale'),
                 b = tx[q].booking, c # b,
                 booking'[b].status = "CONFIRMED", booking'[c].status = "CONFIRMED",
                 SameWorker(booking'[b], booking'[c])
          PROVE  Apart(booking'[b], booking'[c])
      <4>1. Confirming(q) /\ booking'[b] = tx[q].new
        BY <2>3, <3>1, ConfirmedByCheck
      <4>2. c \notin contested /\ c \notin stale /\ booking'[c] = booking[c]
        BY <2>3, <3>1, OtherRow, OwnCommit
      <4> QED BY <3>1, <4>1, <4>2 DEF ConfirmingInv
    <3> SUFFICES ASSUME NEW b \in Bookings \ (contested' \union stale'),
                        NEW c \in Bookings \ (contested' \union stale'), b # c,
                        booking'[b].status = "CONFIRMED", booking'[c].status = "CONFIRMED",
                        SameWorker(booking'[b], booking'[c])
                 PROVE  Apart(booking'[b], booking'[c])
      BY DEF ConfirmedApart
    <3>2. CASE b = tx[q].booking
      BY <3>1, <3>2
    <3>3. CASE c = tx[q].booking
      <4>1. SameWorker(booking'[c], booking'[b])
        BY ApartBoth
      <4>2. Apart(booking'[c], booking'[b])
        BY <3>1, <3>3, <4>1
      <4> QED BY <4>2, ApartBoth
    <3>4. CASE b # tx[q].booking /\ c # tx[q].booking
      <4>1. /\ booking'[b] = booking[b] /\ b \notin contested /\ b \notin stale
            /\ booking'[c] = booking[c] /\ c \notin contested /\ c \notin stale
        BY <2>3, <3>4, OtherRow, OwnCommit
      <4> QED BY <4>1 DEF ConfirmedApart
    <3> QED BY <3>2, <3>3, <3>4
  <2> QED BY <2>2, <2>3
<1> QED BY <1>1, <1>2


-----------------------------------------------------------------------------
(* The inductive invariant and the theorems *)

Inv ==
  /\ TypeInv /\ LoadInv /\ EndsInv
  /\ CheckedInv /\ ConflictsRaced
  /\ ConfirmingInv /\ RivalsInv /\ ConfirmedApart

LEMMA TxInitInv == TxInit => Inv
<1> SUFFICES ASSUME TxInit PROVE Inv
  OBVIOUS
<1>1. TypeInv /\ EndsInv
  BY TxInitTypes DEF EndsInv
<1>2. \A q \in Requests : ~InFlight(q)
  BY DEF TxInit, InFlight
<1>3. LoadInv /\ CheckedInv /\ ConfirmingInv /\ RivalsInv
  BY <1>2 DEF LoadInv, CheckedInv, ConfirmingInv, RivalsInv, Confirming, Live
<1>4. \A b \in Bookings : booking[b].status = "DRAFT"
  BY TxInitTypes
<1>5. ConflictsRaced /\ ConfirmedApart
  BY <1>4 DEF ConflictsRaced, ConfirmedApart, HoldsSlot, Occupying
<1> QED BY <1>1, <1>3, <1>5 DEF Inv

LEMMA TxStepInv == Inv /\ [TxNext]_txvars => Inv'
<1> SUFFICES ASSUME Inv, [TxNext]_txvars PROVE Inv'
  OBVIOUS
<1> USE DEF Inv
<1>1. TypeInv'
  BY TypesKept
<1>2. LoadInv'
  BY LoadKept
<1>3. EndsInv'
  BY EndsKept
<1>4. CheckedInv'
  BY CheckedKept
<1>5. ConflictsRaced'
  BY ConflictsKept
<1>6. ConfirmingInv'
  BY ConfirmingKept
<1>7. RivalsInv'
  BY RivalsKept
<1>8. ConfirmedApart'
  BY ConfirmedKept
<1> QED BY <1>1, <1>2, <1>3, <1>4, <1>5, <1>6, <1>7, <1>8

LEMMA TxInvariant == TxSpec => []Inv
<1> QED BY TxInitInv, TxStepInv, PTL DEF TxSpec

\* The tables and the copies that transactions hold keep their types.
THEOREM TxTypeCorrect == TxSpec => []TxTypeOK
<1>1. Inv => TxTypeOK
  BY DEF Inv, TypeInv, TxTypeOK
<1> QED BY <1>1, TxInvariant, PTL

\* An end that does not fit its start and duration was written by a request
\* whose copy another one had overtaken (update_field).
THEOREM EndFitsAloneProof == TxSpec => []EndFitsAlone
<1>1. Inv => EndFitsAlone
  BY DEF Inv, EndsInv, EndFitsAlone, EndFits
<1> QED BY <1>1, TxInvariant, PTL

\* Two conflicting bookings under review are never both confirmed, whatever
\* number of requests interleave: an overtaken copy or an edit came between.
THEOREM ConfirmedApartProof == TxSpec => []ConfirmedApart
<1>1. Inv => ConfirmedApart
  BY DEF Inv
<1> QED BY <1>1, TxInvariant, PTL

\* Conflicting bookings in the calendar passed their checks while both were in
\* flight (check_availability before the commit).
THEOREM ConflictsRacedProof == TxSpec => []ConflictsRaced
<1>1. Inv => ConflictsRaced
  BY DEF Inv
<1> QED BY <1>1, TxInvariant, PTL

\* A status moves along ALLOWED_TRANSITIONS unless its row changed between the
\* load and the write (set_status).
THEOREM TransitionsFollowedProof == TxSpec => TransitionsFollowed
<1> DEFINE Follows(b) == booking'[b].status \in
                           {booking[b].status} \union AllowedTransitions(booking[b].status)
<1>1. ASSUME Inv, [TxNext]_txvars
      PROVE  [\A b \in Bookings \ contested' : Follows(b)]_txvars
  <2>1. CASE TxNext
    <3>1. PICK q \in Requests :
            \/ \E b \in Bookings, op \in Ops, new \in Scheduleds : Load(q, op, b, new)
            \/ Check(q) \/ Rollback(q) \/ Commit(q)
      BY <1>1, <2>1, TxCases DEF Inv
    <3> SUFFICES ASSUME NEW b \in Bookings \ contested' PROVE Follows(b)
      OBVIOUS
    <3>2. CASE Commit(q)
      <4>1. CASE b = tx[q].booking
        <5>1. booking'[b] = tx[q].new /\ booking[b] = tx[q].old /\ InFlight(q)
          BY <1>1, <3>2, <4>1, OwnCommit DEF Inv, Commit
        <5>2. Written(tx[q].op, tx[q].old, tx[q].new)
          BY <1>1, <5>1 DEF Inv, LoadInv
        <5> QED BY <5>1, <5>2 DEF Written
      <4>2. CASE b # tx[q].booking
        BY <1>1, <3>2, <4>2, OwnCommit DEF Inv
      <4> QED BY <4>1, <4>2
    <3>3. CASE ~Commit(q)
      BY <3>1, <3>3 DEF Load, Check, Rollback, vars
    <3> QED BY <3>2, <3>3
  <2>2. CASE UNCHANGED txvars
    BY <2>2
  <2> QED BY <1>1, <2>1, <2>2
<1>2. TxSpec => [][\A b \in Bookings \ contested' : Follows(b)]_txvars
  BY <1>1, TxInvariant, PTL DEF TxSpec
<1> QED BY <1>2 DEF TransitionsFollowed


-----------------------------------------------------------------------------
(* The calendar of the confirmed bookings *)

ConfirmedSlots == [b \in Bookings |-> ConfirmedSlot(b)]

\* A booking holds a confirmed slot, with the worker and the times of its row.
ConfirmedFacts(b) ==
  /\ ConfirmedSlot(b) # None <=>
       booking[b].status = "CONFIRMED" /\ b \notin contested \union stale
  /\ ConfirmedSlot(b) # None =>
       /\ ConfirmedSlot(b) \in Confirmed!Slots
       /\ ConfirmedSlot(b).worker = WorkerOf[booking[b].session]
       /\ ConfirmedSlot(b).start = booking[b].start
       /\ ConfirmedSlot(b).end = booking[b].end

LEMMA ConfirmedSlotFacts == TypeInv => \A b \in Bookings : ConfirmedFacts(b)
<1> SUFFICES ASSUME TypeInv, NEW b \in Bookings PROVE ConfirmedFacts(b)
  OBVIOUS
<1> DEFINE x == [worker |-> WorkerOf[booking[b].session],
                 start |-> booking[b].start, end |-> booking[b].end]
<1>1. booking[b] \in Scheduleds BY DEF TypeInv
<1>2. x \in Confirmed!Slots
  BY <1>1, ScheduledFacts, ConstantsAssumption DEF Confirmed!Slots
<1>3. x # None
  <2> HIDE DEF x
  <2> QED BY <1>2, ConstantsAssumption DEF Confirmed!Slots
<1>4. ConfirmedSlot(b) =
        IF booking[b].status = "CONFIRMED" /\ b \notin contested \union stale THEN x ELSE None
  BY <1>1, ScheduledFacts DEF ConfirmedSlot, SlotHeld, HoldsSlot, Occupying
<1> QED BY <1>2, <1>3, <1>4 DEF ConfirmedFacts

LEMMA ConfirmedSlotFactsNext == (TypeInv => \A b \in Bookings : ConfirmedFacts(b))'
BY ConfirmedSlotFacts, PTL

LEMMA ConfirmedReleases ==
  ASSUME \A b \in Bookings : ConfirmedSlot(b)' = ConfirmedSlot(b) \/ ConfirmedSlot(b)' = None
  PROVE  Confirmed!Next
<1> DEFINE S == {b \in Bookings : ConfirmedSlot(b)' = None}
<1>1. ConfirmedSlots' = [b \in Bookings |-> IF b \in S THEN None ELSE ConfirmedSlots[b]]
  BY DEF ConfirmedSlots
<1>2. Confirmed!Release(S)
  BY <1>1 DEF Confirmed!Release, ConfirmedSlots
<1> QED BY <1>2 DEF Confirmed!Next

\* A commit after which its booking holds a confirmed slot has confirmed it, and
\* so reserves the slot; any other releases slots at most.
LEMMA CommitReserves ==
  ASSUME Inv, Inv', NEW q \in Requests, Commit(q)
  PROVE  Confirmed!Next
<1> USE DEF Inv
<1>1. InFlight(q) /\ tx[q].booking \in Bookings
  BY FlightFacts DEF Commit
<1> PICK b \in Bookings : b = tx[q].booking BY <1>1
<1>2. ASSUME NEW c \in Bookings \ {b}
      PROVE  ConfirmedSlot(c)' = ConfirmedSlot(c)
  <2>1. booking'[c] = booking[c] /\ (HoldsSlot(c)' <=> HoldsSlot(c))
    BY OtherRow
  <2>2. c \in contested' <=> c \in contested
    BY DEF Commit
  <2> QED BY <2>1, <2>2 DEF ConfirmedSlot, SlotHeld
<1>3. CASE ConfirmedSlot(b)' = None
  BY <1>2, <1>3, ConfirmedReleases
<1>4. CASE ConfirmedSlot(b)' # None
  <2> DEFINE x == ConfirmedSlot(b)'
  <2>1. \A c \in Bookings : ConfirmedSlot(c)' # None =>
          /\ booking'[c].status = "CONFIRMED" /\ c \notin contested' \union stale'
          /\ ConfirmedSlot(c)' \in Confirmed!Slots
          /\ ConfirmedSlot(c)'.worker = WorkerOf[booking'[c].session]
          /\ ConfirmedSlot(c)'.start = booking'[c].start
          /\ ConfirmedSlot(c)'.end = booking'[c].end
    BY ConfirmedSlotFactsNext DEF ConfirmedFacts
  <2>2. Confirming(q) /\ booking'[b] = tx[q].new
    BY <1>4, <2>1, ConfirmedByCheck
  <2>3. ConfirmedSlot(b) = None
    <3>1. booking[b] = tx[q].old /\ tx[q].old.status = "PENDING_REVIEW"
      BY <1>1, <1>4, <2>1, <2>2, OwnCommit DEF LoadInv, Written, Confirming
    <3> QED BY <3>1, ConfirmedSlotFacts DEF ConfirmedFacts
  <2>4. ASSUME NEW c \in Bookings \ {b}, ConfirmedSlot(c) # None
        PROVE  Confirmed!FarFrom(ConfirmedSlot(c), x)
    <3>1. ConfirmedSlot(c)' = ConfirmedSlot(c) BY <1>2
    <3>2. SameWorker(booking'[c], booking'[b]) => Apart(booking'[c], booking'[b])
      BY <1>4, <2>1, <2>4, <3>1 DEF ConfirmedApart
    <3> QED BY <1>4, <2>1, <2>4, <3>1, <3>2 DEF Confirmed!FarFrom, SameWorker, Apart
  <2>5. ConfirmedSlots' = [ConfirmedSlots EXCEPT ![b] = x]
    BY <1>2 DEF ConfirmedSlots
  <2>6. x \in Confirmed!Slots /\ x = ConfirmedSlots'[b]
    BY <1>4, <2>1 DEF ConfirmedSlots
  <2> HIDE DEF x
  <2>7. Confirmed!Reserve(b)
    BY <2>3, <2>4, <2>5, <2>6 DEF Confirmed!Reserve, ConfirmedSlots
  <2> QED BY <2>7 DEF Confirmed!Next
<1> QED BY <1>3, <1>4

LEMMA ConfirmedStep ==
  ASSUME Inv, Inv', [TxNext]_txvars
  PROVE  [Confirmed!Next]_ConfirmedSlots
<1>1. CASE UNCHANGED <<vars, contested>>
  BY <1>1 DEF vars, ConfirmedSlots, ConfirmedSlot, SlotHeld, HoldsSlot
<1>2. CASE TxNext
  <2>1. PICK q \in Requests :
          \/ \E b \in Bookings, op \in Ops, new \in Scheduleds : Load(q, op, b, new)
          \/ Check(q) \/ Rollback(q) \/ Commit(q)
    BY <1>2, TxCases DEF Inv
  <2>2. CASE Commit(q) BY <2>2, CommitReserves
  <2>3. CASE ~Commit(q) BY <1>1, <2>1, <2>3 DEF Load, Check, Rollback
  <2> QED BY <2>2, <2>3
<1> QED BY <1>1, <1>2 DEF txvars

\* The confirmed bookings implement the calendar, with no row locked between a
\* check and its commit: a confirmation reserves its slot away from the ones
\* held, and no step moves a slot that is held.
THEOREM ImplementsConfirmed == TxSpec => KeepsConfirmed
<1>1. TxInit => Confirmed!Init
  BY TxInitTypes DEF Confirmed!Init, ConfirmedSlot
<1>2. Inv /\ Inv' /\ [TxNext]_txvars => [Confirmed!Next]_ConfirmedSlots
  BY ConfirmedStep
<1>3. ConfirmedSlots = [b \in Bookings |-> ConfirmedSlot(b)]
  BY DEF ConfirmedSlots
<1> QED BY <1>1, <1>2, TxInvariant, PTL
        DEF TxSpec, KeepsConfirmed, Confirmed!Spec, ConfirmedSlots

=============================================================================
