------------------------ MODULE InboundPipelineProofs ------------------------
(***************************************************************************)
(* The safety invariants of InboundPipeline, for any number of messages,   *)
(* sessions and requests in flight and any bounds.                         *)
(***************************************************************************)
EXTENDS InboundPipeline, TLAPS

\* What a request knows at each step: the message it answers until the order
\* check is over, the stamp it will write from there on, and the gateway's
\* answer at the end.
TurnsOK ==
  \A q \in Turns : Running(q) =>
    /\ turn[q].at \in {"received", "claimed", "creating", "switching", "stale"} =>
         turn[q].msg # None
    /\ turn[q].at \in {"ordered", "stale", "entered", "replied"} => turn[q].stamp \in Nat
    /\ turn[q].at = "replied" <=> turn[q].ok # None
    /\ turn[q].msg # None => turn[q].to = SessionOf[turn[q].msg]

TypesInv == TypeOK /\ TurnsOK

-----------------------------------------------------------------------------
(* Types *)

\* A request put into a slot, or taken out of it, leaves the slots typed.
LEMMA SlotTyped ==
  ASSUME TypesInv, NEW q \in Turns, NEW r \in Turn, Keep(q, r),
         r.at \in {"received", "claimed", "creating", "switching", "stale"} => r.msg # None,
         r.at \in {"ordered", "stale", "entered", "replied"} => r.stamp \in Nat,
         r.at = "replied" <=> r.ok # None,
         r.msg # None => r.to = SessionOf[r.msg]
  PROVE  turn' \in [Turns -> Turn \union {None}] /\ TurnsOK'
BY DEF TypesInv, TypeOK, TurnsOK, Keep, Running

LEMMA SlotFreed ==
  ASSUME TypesInv, NEW q \in Turns, Drop(q)
  PROVE  turn' \in [Turns -> Turn \union {None}] /\ TurnsOK'
BY DEF TypesInv, TypeOK, TurnsOK, Drop, Running

\* The record of a running request.
LEMMA RunningTurn ==
  ASSUME TypesInv, NEW q \in Turns, Running(q)
  PROVE  turn[q] \in Turn
BY DEF TypesInv, TypeOK, Running

LEMMA StampTyped ==
  ASSUME TypesInv, NEW m \in Messages
  PROVE  Stamp(m) \in Nat
BY PipelineAssumption DEF TypesInv, TypeOK, Stamp

LEMMA ComparedTypes ==
  ASSUME TypesInv, NEW q \in Turns, Running(q),
         turn[q].at \in {"claimed", "creating", "switching"},
         NEW seen \in Nat \union {None}, NEW made \in BOOLEAN, NEW switched \in BOOLEAN,
         Compared(q, seen, made, switched)
  PROVE  turn' \in [Turns -> Turn \union {None}] /\ TurnsOK'
<1> DEFINE r == [turn[q] EXCEPT
                   !.at = IF OutOfOrder(turn[q].msg, seen) THEN "stale" ELSE "ordered",
                   !.made = made, !.switched = switched, !.seen = seen,
                   !.stamp = Stamp(turn[q].msg)]
<1>1. turn[q] \in Turn BY RunningTurn
<1>2. turn[q].msg \in Messages /\ turn[q].ok = None
      /\ turn[q].to = SessionOf[turn[q].msg]
  BY <1>1 DEF TypesInv, TurnsOK, Turn
<1>3. Stamp(turn[q].msg) \in Nat BY <1>2, StampTyped
<1>4. r \in Turn BY <1>1, <1>3 DEF Turn, Steps
<1>5. r.msg = turn[q].msg /\ r.ok = None /\ r.stamp \in Nat /\ r.to = turn[q].to
      /\ r.at \in {"stale", "ordered"}
  BY <1>1, <1>2, <1>3 DEF Turn
<1>6. Keep(q, r) BY DEF Compared
<1> HIDE DEF r
<1> QED BY <1>2, <1>4, <1>5, <1>6, SlotTyped, PipelineAssumption

\* A request that moves on to another step.
LEMMA MovedTypes ==
  ASSUME TypesInv, NEW q \in Turns, Running(q), NEW step \in Steps, step # "switching",
         Keep(q, [turn[q] EXCEPT !.at = step]),
         step # "replied", turn[q].at # "replied",
         step \in {"received", "claimed", "creating", "stale"} => turn[q].msg # None,
         step \in {"ordered", "stale", "entered"} => turn[q].stamp \in Nat
  PROVE  turn' \in [Turns -> Turn \union {None}] /\ TurnsOK'
<1> DEFINE r == [turn[q] EXCEPT !.at = step]
<1>1. turn[q] \in Turn BY RunningTurn
<1>2. r \in Turn BY <1>1 DEF Turn
<1>3. r.msg = turn[q].msg /\ r.ok = turn[q].ok /\ r.stamp = turn[q].stamp
      /\ r.to = turn[q].to /\ r.at = step
  BY <1>1 DEF Turn
<1>4. turn[q].ok = None /\ (turn[q].msg # None => turn[q].to = SessionOf[turn[q].msg])
  BY DEF TypesInv, TurnsOK
<1>5. Keep(q, r) OBVIOUS
<1> HIDE DEF r
<1> QED BY <1>2, <1>3, <1>4, <1>5, SlotTyped

LEMMA TypesStep ==
  ASSUME TypesInv, [Next]_vars
  PROVE  TypesInv'
<1> USE DEF TypesInv, Stored, Counted
<1>1. ASSUME NEW q \in Turns, NEW m \in Messages, Deliver(q, m)
      PROVE  TypesInv'
  <2> DEFINE r == [msg |-> m, to |-> SessionOf[m], at |-> "received",
                   made |-> FALSE, switched |-> FALSE, seen |-> None, stamp |-> None, ok |-> None]
  <2>1. r \in Turn BY PipelineAssumption DEF Turn, Steps
  <2>2. turn' \in [Turns -> Turn \union {None}] /\ TurnsOK'
    BY <1>1, <2>1, SlotTyped, PipelineAssumption DEF Deliver
  <2> QED BY <1>1, <2>2 DEF Deliver, TypeOK
<1>2. ASSUME NEW q \in Turns, Claim(q)
      PROVE  TypesInv'
  <2>1. Running(q) /\ turn[q].msg # None /\ turn[q].at = "received"
    BY <1>2 DEF Claim, At, TurnsOK, Running
  <2>2. turn' \in [Turns -> Turn \union {None}] /\ TurnsOK'
    <3>1. CASE Drop(q) BY <3>1, SlotFreed
    <3>2. CASE Keep(q, [turn[q] EXCEPT !.at = "claimed"])
      BY <2>1, <3>2, MovedTypes DEF Steps
    <3> QED BY <1>2, <3>1, <3>2 DEF Claim
  <2> QED BY <1>2, <2>2 DEF Claim, TypeOK
<1>3. ASSUME NEW q \in Turns, Load(q)
      PROVE  TypesInv'
  <2>1. Running(q) /\ turn[q].msg # None /\ turn[q].at = "claimed" /\ turn[q] \in Turn
    BY <1>3, RunningTurn DEF Load, At, TurnsOK, Running
  <2>2. turn' \in [Turns -> Turn \union {None}] /\ TurnsOK'
    <3>0. lastIn[Session(q)] \in Nat \union {None} BY <2>1 DEF TypeOK, Session, Turn
    <3>1. CASE Compared(q, lastIn[Session(q)], FALSE, FALSE)
      BY <2>1, <3>0, <3>1, ComparedTypes
    <3>2. CASE Keep(q, [turn[q] EXCEPT !.at = "switching", !.seen = lastIn[Session(q)]])
      <4> DEFINE r == [turn[q] EXCEPT !.at = "switching", !.seen = lastIn[Session(q)]]
      <4>1. r \in Turn BY <2>1, <3>0 DEF Turn, Steps
      <4>2. r.at = "switching" /\ r.msg = turn[q].msg /\ r.ok = turn[q].ok /\ r.to = turn[q].to
        BY <2>1 DEF Turn
      <4>3. turn[q].ok = None /\ (turn[q].msg # None => turn[q].to = SessionOf[turn[q].msg])
        BY <2>1 DEF TurnsOK
      <4> HIDE DEF r
      <4>4. Keep(q, r) BY <3>2 DEF r
      <4> QED BY <2>1, <4>1, <4>2, <4>3, <4>4, SlotTyped
    <3>3. CASE Keep(q, [turn[q] EXCEPT !.at = "creating"])
      BY <2>1, <3>3, MovedTypes DEF Steps
    <3> QED BY <1>3, <3>1, <3>2, <3>3 DEF Load
  <2> QED BY <1>3, <2>2 DEF Load, TypeOK
<1>4. ASSUME NEW q \in Turns, Create(q)
      PROVE  TypesInv'
  <2>1. Running(q) /\ turn[q].at = "creating"
    BY <1>4 DEF Create, At
  <2>2. turn' \in [Turns -> Turn \union {None}] /\ TurnsOK'
    <3>1. CASE Drop(q) BY <3>1, SlotFreed
    <3>2. CASE Compared(q, None, TRUE, FALSE) BY <2>1, <3>2, ComparedTypes
    <3> QED BY <1>4, <3>1, <3>2 DEF Create
  <2> QED BY <1>4, <2>2 DEF Create, TypeOK
<1>4a. ASSUME NEW q \in Turns, Switch(q)
       PROVE  TypesInv'
  <2>1. Running(q) /\ turn[q].at = "switching" /\ turn[q].seen \in Nat \union {None}
    BY <1>4a, RunningTurn DEF Switch, At, Turn
  <2>2. turn' \in [Turns -> Turn \union {None}] /\ TurnsOK'
    BY <1>4a, <2>1, ComparedTypes DEF Switch
  <2> QED BY <1>4a, <2>2 DEF Switch, TypeOK
<1>5. ASSUME NEW q \in Turns, Enter(q)
      PROVE  TypesInv'
  <2>1. Running(q) /\ turn[q].at = "ordered" /\ turn[q].stamp \in Nat
    BY <1>5 DEF Enter, At, TurnsOK, Running
  <2>2. turn' \in [Turns -> Turn \union {None}] /\ TurnsOK'
    BY <1>5, <2>1, MovedTypes DEF Enter, Steps
  <2> QED BY <1>5, <2>2 DEF Enter, TypeOK
<1>6. ASSUME NEW q \in Turns, NEW ok \in BOOLEAN, Reply(q, ok)
      PROVE  TypesInv'
  <2> DEFINE r == [turn[q] EXCEPT !.at = "replied", !.ok = ok]
  <2>1. Running(q) /\ turn[q].at = "entered" /\ turn[q].stamp \in Nat
        /\ (turn[q].msg # None => turn[q].to = SessionOf[turn[q].msg])
        /\ turn[q] \in Turn
    BY <1>6, RunningTurn DEF Reply, At, TurnsOK, Running
  <2>2. r \in Turn BY <2>1 DEF Turn, Steps
  <2>3. r.msg = turn[q].msg /\ r.ok = ok /\ r.stamp = turn[q].stamp
        /\ r.to = turn[q].to /\ r.at = "replied"
    BY <2>1 DEF Turn
  <2>4. Keep(q, r) BY <1>6 DEF Reply
  <2>5. ok # None BY PipelineAssumption
  <2> HIDE DEF r
  <2>6. turn' \in [Turns -> Turn \union {None}] /\ TurnsOK'
    BY <2>1, <2>2, <2>3, <2>4, <2>5, SlotTyped
  <2>7. sends' \in [Messages -> Nat]
    BY <1>6, <2>1 DEF Reply, Sent, TypeOK, Turn
  <2> QED BY <1>6, <2>6, <2>7 DEF Reply, TypeOK
<1>7. ASSUME NEW q \in Turns, Commit(q)
      PROVE  TypesInv'
  <2>1. Running(q) /\ turn[q].msg \in Messages /\ turn[q].stamp \in Nat
        /\ turn[q].to \in Sessions
    BY <1>7, RunningTurn DEF Commit, Answered, Ignored, At, TurnsOK, Turn, Running
  <2>2. turn' \in [Turns -> Turn \union {None}] /\ TurnsOK'
    BY <1>7, SlotFreed DEF Commit
  <2>3. settled' \in [Messages -> Settled \union {None}]
    BY <1>7, <2>1 DEF Commit, Answered, Ignored, TypeOK, Settled
  <2>4. lastIn' \in [Sessions -> Nat \union {None}] /\ retries' \subseteq Messages
    BY <1>7, <2>1 DEF Commit, Answered, Ignored, TypeOK, Stamped, Queued
  <2>5. commits' \in [Messages -> Nat] /\ claimed' \subseteq Messages
    BY <1>7, <2>1 DEF Commit, TypeOK
  <2>6. known' \in [Sessions -> BOOLEAN]
    BY <1>7 DEF Commit, TypeOK
  <2> QED BY <1>7, <2>2, <2>3, <2>4, <2>5, <2>6 DEF Commit, TypeOK
<1>8. ASSUME NEW q \in Turns, Spoken(q)
      PROVE  TypesInv'
  <2>1. turn[q].stamp \in Nat
    BY <1>8 DEF Spoken, At, TurnsOK, Running
  <2>2. turn' \in [Turns -> Turn \union {None}] /\ TurnsOK'
    BY <1>8, SlotFreed DEF Spoken
  <2>3. lastIn' \in [Sessions -> Nat \union {None}] /\ spoken' \in [Sessions -> SUBSET Nat]
    BY <1>8, <2>1 DEF Spoken, TypeOK, Stamped
  <2> QED BY <1>8, <2>2, <2>3 DEF Spoken, TypeOK
<1>9. ASSUME NEW q \in Turns, Abort(q)
      PROVE  TypesInv'
  <2>1. turn' \in [Turns -> Turn \union {None}] /\ TurnsOK'
    BY <1>9, SlotFreed DEF Abort
  <2>2. lost' \in [Messages -> Nat] BY <1>9 DEF Abort, TypeOK
  <2>3. aborts' \in 0..MaxAborts BY <1>9, PipelineAssumption DEF Abort, TypeOK
  <2> QED BY <1>9, <2>1, <2>2, <2>3 DEF Abort, TypeOK
<1>10. ASSUME NEW q \in Turns, NEW s \in Sessions, SendMessage(q, s)
       PROVE  TypesInv'
  <2> DEFINE r == [msg |-> None, to |-> s, at |-> "ordered",
                   made |-> FALSE, switched |-> FALSE, seen |-> lastIn[s], stamp |-> now, ok |-> None]
  <2>1. r \in Turn BY PipelineAssumption DEF Turn, Steps, TypeOK
  <2>2. r.stamp \in Nat BY PipelineAssumption DEF TypeOK
  <2>3. turn' \in [Turns -> Turn \union {None}] /\ TurnsOK'
    BY <1>10, <2>1, <2>2, SlotTyped DEF SendMessage
  <2> QED BY <1>10, <2>3 DEF SendMessage, TypeOK
<1>11. CASE Tick
  BY <1>11, PipelineAssumption DEF Tick, TypeOK, TurnsOK, Running
<1>12. CASE UNCHANGED vars
  BY <1>12 DEF vars, TypeOK, TurnsOK, Running
<1> QED
  BY <1>1, <1>2, <1>3, <1>4, <1>4a, <1>5, <1>6, <1>7, <1>8, <1>9, <1>10, <1>11, <1>12
  DEF Next, Work

\* Every variable of the pipeline keeps its type.
THEOREM TypeCorrect == Spec => []TypeOK
<1>1. Init => TypesInv
  BY PipelineAssumption DEF Init, TypesInv, TypeOK, TurnsOK, Running
<1>2. TypesInv /\ [Next]_vars => TypesInv'
  BY TypesStep
<1>3. TypesInv => TypeOK
  BY DEF TypesInv
<1> QED BY <1>1, <1>2, <1>3, PTL DEF Spec

-----------------------------------------------------------------------------
(* One claim of each message *)

\* A request past its claim, of message m.
Claims(q, m) == Answers(q, m) /\ turn[q].at # "received"

\* A committed claim is a committed turn; no request works on a message that is
\* claimed already, and no two on the same one.
ClaimsInv ==
  \A m \in Messages :
    /\ commits[m] = IF m \in claimed THEN 1 ELSE 0
    /\ \A q \in Turns : Claims(q, m) => m \notin claimed
    /\ \A p, q \in Turns : Claims(p, m) /\ Claims(q, m) => p = q

\* A step that claims nothing: every slot has the claim it had, or none.
LEMMA NothingClaimed ==
  ASSUME ClaimsInv, UNCHANGED <<claimed, commits>>,
         \A q \in Turns, m \in Messages : Claims(q, m)' => Claims(q, m)
  PROVE  ClaimsInv'
BY DEF ClaimsInv

\* A request between its claim and its end keeps its message, or ends.
WorksOn(q) ==
  /\ Running(q) /\ turn[q].at # "received"
  /\ \A p \in Turns \ {q} : turn'[p] = turn[p]
  /\ turn'[q] # None => turn'[q].msg = turn[q].msg /\ turn'[q].to = turn[q].to

LEMMA Keeping ==
  ASSUME TypesInv, NEW q \in Turns, Running(q), turn[q].at # "received",
         NEW r, Keep(q, r), r.msg = turn[q].msg, r.to = turn[q].to
  PROVE  WorksOn(q)
BY DEF WorksOn, Keep, TypesInv, TypeOK

LEMMA Dropping ==
  ASSUME TypesInv, NEW q \in Turns, Running(q), turn[q].at # "received", Drop(q)
  PROVE  WorksOn(q)
BY DEF WorksOn, Drop, TypesInv, TypeOK

LEMMA ComparedKeeps ==
  ASSUME TypesInv, NEW q \in Turns, Running(q), turn[q].at # "received",
         NEW seen, NEW made, NEW switched, Compared(q, seen, made, switched)
  PROVE  WorksOn(q)
<1>1. turn[q] \in Turn BY RunningTurn
<1> QED BY <1>1, Keeping DEF Compared, Turn

LEMMA WorkKeeps ==
  ASSUME TypesInv, NEW q \in Turns,
         \/ Load(q) \/ Switch(q) \/ Create(q) \/ Enter(q)
         \/ \E ok \in BOOLEAN : Reply(q, ok)
  PROVE  WorksOn(q)
<1>1. Running(q) /\ turn[q].at # "received" /\ turn[q] \in Turn
  BY RunningTurn DEF Load, Switch, Create, Enter, Reply, At
<1>2. ASSUME NEW step, Keep(q, [turn[q] EXCEPT !.at = step])
      PROVE  WorksOn(q)
  BY <1>1, <1>2, Keeping DEF Turn
<1>3. CASE Load(q)
  <2>1. ASSUME NEW seen, Keep(q, [turn[q] EXCEPT !.at = "switching", !.seen = seen])
        PROVE  WorksOn(q)
    BY <1>1, <2>1, Keeping DEF Turn
  <2> QED BY <1>1, <1>2, <1>3, <2>1, ComparedKeeps DEF Load
<1>3a. CASE Switch(q)
  BY <1>1, <1>3a, ComparedKeeps DEF Switch
<1>4. CASE Create(q)
  BY <1>1, <1>4, ComparedKeeps, Dropping DEF Create
<1>5. CASE Enter(q)
  BY <1>2, <1>5 DEF Enter
<1>6. CASE \E ok \in BOOLEAN : Reply(q, ok)
  <2> PICK ok \in BOOLEAN : Reply(q, ok) BY <1>6
  <2> QED BY <1>1, Keeping DEF Reply, Turn
<1> QED BY <1>3, <1>3a, <1>4, <1>5, <1>6

LEMMA WorkClaims ==
  ASSUME NEW q \in Turns, WorksOn(q)
  PROVE  \A p \in Turns, m \in Messages : Claims(p, m)' => Claims(p, m)
BY DEF WorksOn, Claims, Answers, Running

\* A slot that starts a request, and one that is freed, claim nothing.
LEMMA StartClaims ==
  ASSUME TypesInv, NEW q \in Turns, NEW r, Keep(q, r),
         r.at = "received" \/ r.msg = None
  PROVE  \A p \in Turns, m \in Messages : Claims(p, m)' => Claims(p, m)
BY PipelineAssumption DEF Claims, Answers, Keep, Running, TypesInv, TypeOK

LEMMA FreedClaims ==
  ASSUME TypesInv, NEW q \in Turns, Drop(q)
  PROVE  /\ \A p \in Turns, m \in Messages : Claims(p, m)' => Claims(p, m)
         /\ \A m \in Messages : ~Claims(q, m)'
BY DEF Claims, Answers, Drop, Running, TypesInv, TypeOK

LEMMA ClaimsStep ==
  ASSUME TypesInv, ClaimsInv, [Next]_vars
  PROVE  ClaimsInv'
<1> USE DEF Stored, Counted
<1>1. ASSUME NEW q \in Turns, NEW m \in Messages, Deliver(q, m)
      PROVE  ClaimsInv'
  BY <1>1, StartClaims, NothingClaimed DEF Deliver
<1>2. ASSUME NEW q \in Turns, Claim(q)
      PROVE  ClaimsInv'
  <2>1. CASE Drop(q) BY <1>2, <2>1, FreedClaims, NothingClaimed DEF Claim
  <2>2. CASE ~Drop(q)
    <3>1. /\ turn[q].msg \notin claimed /\ Running(q) /\ turn[q].at = "received"
          /\ turn' = [turn EXCEPT ![q] = [turn[q] EXCEPT !.at = "claimed"]]
          /\ UNCHANGED <<claimed, commits>>
      BY <1>2, <2>2 DEF Claim, At, Keep
    <3>2. turn[q] \in Turn BY <3>1, RunningTurn
    <3>3. turn[q].msg \in Messages BY <3>1, <3>2 DEF TypesInv, TurnsOK, Turn
    <3>4. \A p \in Turns \ {q} : ~Claims(p, turn[q].msg)
      BY <1>2, <3>3, PipelineAssumption
      DEF Claim, Granted, WaitsFor, Claims, HasClaim, Answers
    <3>5. ASSUME NEW m \in Messages, NEW p \in Turns \ {q}
          PROVE  Claims(p, m)' <=> Claims(p, m)
      BY <3>1 DEF Claims, Answers, Running, TypesInv, TypeOK
    <3>6. ASSUME NEW m \in Messages
          PROVE  Claims(q, m)' => m = turn[q].msg
      BY <3>1, <3>2 DEF Claims, Answers, TypesInv, TypeOK, Turn
    <3> QED BY <3>1, <3>3, <3>4, <3>5, <3>6 DEF ClaimsInv
  <2> QED BY <2>1, <2>2
<1>3. ASSUME NEW q \in Turns,
             \/ Load(q) \/ Switch(q) \/ Create(q) \/ Enter(q)
             \/ \E ok \in BOOLEAN : Reply(q, ok)
      PROVE  ClaimsInv'
  <2>1. UNCHANGED <<claimed, commits>>
    BY <1>3 DEF Load, Switch, Create, Enter, Reply
  <2> QED BY <1>3, <2>1, WorkKeeps, WorkClaims, NothingClaimed
<1>4. ASSUME NEW q \in Turns, Commit(q)
      PROVE  ClaimsInv'
  <2>1. Claims(q, turn[q].msg) /\ turn[q].msg \in Messages
    BY <1>4, RunningTurn
    DEF Commit, Answered, Ignored, At, Claims, Answers, TypesInv, TurnsOK, Turn, Running
  <2>2. turn[q].msg \notin claimed /\ commits[turn[q].msg] = 0
    BY <2>1 DEF ClaimsInv
  <2>3. /\ claimed' = claimed \union {turn[q].msg}
        /\ \A m \in Messages :
             commits'[m] = IF m = turn[q].msg THEN commits[m] + 1 ELSE commits[m]
    BY <1>4, <2>1 DEF Commit, TypesInv, TypeOK
  <2>4. /\ \A p \in Turns, m \in Messages : Claims(p, m)' => Claims(p, m)
        /\ \A m \in Messages : ~Claims(q, m)'
    BY <1>4, FreedClaims DEF Commit
  <2> QED BY <2>1, <2>2, <2>3, <2>4 DEF ClaimsInv
<1>5. ASSUME NEW q \in Turns, Spoken(q) \/ Abort(q)
      PROVE  ClaimsInv'
  BY <1>5, FreedClaims, NothingClaimed DEF Spoken, Abort
<1>6. ASSUME NEW q \in Turns, NEW s \in Sessions, SendMessage(q, s)
      PROVE  ClaimsInv'
  BY <1>6, StartClaims, NothingClaimed DEF SendMessage
<1>7. CASE Tick \/ UNCHANGED vars
  <2>1. UNCHANGED <<claimed, commits, turn>> BY <1>7 DEF Tick, vars
  <2> QED BY <2>1, NothingClaimed DEF Claims, Answers, Running
<1>8. ASSUME NEW q \in Turns, Work(q)
      PROVE  ClaimsInv'
  BY <1>2, <1>3, <1>4, <1>5, <1>8 DEF Work
<1> QED BY <1>1, <1>5, <1>6, <1>7, <1>8 DEF Next

LEMMA ClaimsInvariant == Spec => [](TypesInv /\ ClaimsInv)
<1>1. Init => TypesInv /\ ClaimsInv
  BY PipelineAssumption
  DEF Init, TypesInv, TypeOK, TurnsOK, Running, ClaimsInv, Claims, Answers
<1>2. TypesInv /\ ClaimsInv /\ [Next]_vars => (TypesInv /\ ClaimsInv)'
  BY TypesStep, ClaimsStep
<1> QED BY <1>1, <1>2, PTL DEF Spec

-----------------------------------------------------------------------------
(* Replies *)

\* A request whose reply to m has reached the client.
Delivered(q, m) == Answers(q, m) /\ turn[q].ok = TRUE

\* While a message is open, its replies are those of the lost turns and the one of
\* the turn in flight that has replied, if there is one.
RepliesInv ==
  \A m \in Messages :
    /\ m \notin claimed /\ (\A q \in Turns : ~Delivered(q, m)) => sends[m] = lost[m]
    /\ \A q \in Turns : Delivered(q, m) => sends[m] = lost[m] + 1

\* A step that sends nothing and ends nothing.
LEMMA NothingSent ==
  ASSUME RepliesInv, UNCHANGED <<claimed, sends, lost>>,
         \A q \in Turns, m \in Messages : Delivered(q, m)' <=> Delivered(q, m)
  PROVE  RepliesInv'
BY DEF RepliesInv

\* Putting a request without an answer into a slot that holds none.
LEMMA KeptReplies ==
  ASSUME TypesInv, NEW q \in Turns, NEW r, Keep(q, r), r.ok = None,
         Running(q) => turn[q].ok = None
  PROVE  \A p \in Turns, m \in Messages : Delivered(p, m)' <=> Delivered(p, m)
BY PipelineAssumption DEF Delivered, Answers, Keep, Running, TypesInv, TypeOK

LEMMA DroppedReplies ==
  ASSUME TypesInv, NEW q \in Turns, Drop(q)
  PROVE  \A p \in Turns, m \in Messages :
           Delivered(p, m)' <=> p # q /\ Delivered(p, m)
BY DEF Delivered, Answers, Drop, Running, TypesInv, TypeOK

\* The claim of a message makes its request the only one that can have replied.
LEMMA OneDelivers ==
  ASSUME TypesInv, ClaimsInv, NEW m \in Messages, NEW p \in Turns, Delivered(p, m)
  PROVE  m \notin claimed /\ \A q \in Turns : Claims(q, m) => q = p
<1>1. Claims(p, m)
  BY PipelineAssumption DEF Delivered, Answers, Claims, TypesInv, TurnsOK
<1> QED BY <1>1 DEF ClaimsInv

LEMMA RepliesStep ==
  ASSUME TypesInv, ClaimsInv, RepliesInv, [Next]_vars
  PROVE  RepliesInv'
<1> USE DEF Stored, Counted
<1>1. ASSUME NEW q \in Turns, NEW m \in Messages, Deliver(q, m)
      PROVE  RepliesInv'
  BY <1>1, KeptReplies, NothingSent DEF Deliver
<1>2. ASSUME NEW q \in Turns,
             Claim(q) \/ Load(q) \/ Switch(q) \/ Create(q) \/ Enter(q)
      PROVE  RepliesInv'
  <2>1. /\ Running(q) /\ turn[q] \in Turn /\ turn[q].ok = None
        /\ UNCHANGED <<claimed, sends, lost>>
    BY <1>2, RunningTurn DEF Claim, Load, Switch, Create, Enter, At, TypesInv, TurnsOK
  <2>2. ASSUME Drop(q)
        PROVE  RepliesInv'
    <3>1. \A m \in Messages : ~Delivered(q, m)
      BY <2>1, PipelineAssumption DEF Delivered
    <3>2. \A p \in Turns, m \in Messages : Delivered(p, m)' <=> Delivered(p, m)
      BY <2>2, <3>1, DroppedReplies
    <3> QED BY <2>1, <3>2, NothingSent
  <2>3. ASSUME NEW step, Keep(q, [turn[q] EXCEPT !.at = step])
        PROVE  RepliesInv'
    <3>1. [turn[q] EXCEPT !.at = step].ok = None BY <2>1 DEF Turn
    <3> QED BY <2>1, <2>3, <3>1, KeptReplies, NothingSent
  <2>4. ASSUME NEW seen, NEW made, NEW switched, Compared(q, seen, made, switched)
        PROVE  RepliesInv'
    <3> DEFINE r == [turn[q] EXCEPT
                   !.at = IF OutOfOrder(turn[q].msg, seen) THEN "stale" ELSE "ordered",
                   !.made = made, !.switched = switched, !.seen = seen,
                   !.stamp = Stamp(turn[q].msg)]
    <3>1. Keep(q, r) BY <2>4 DEF Compared
    <3>2. r.ok = None BY <2>1 DEF Turn
    <3> HIDE DEF r
    <3> QED BY <2>1, <3>1, <3>2, KeptReplies, NothingSent
  <2>5. CASE Claim(q) BY <2>2, <2>3, <2>5 DEF Claim
  <2>6. CASE Load(q)
    <3>1. ASSUME NEW seen, Keep(q, [turn[q] EXCEPT !.at = "switching", !.seen = seen])
          PROVE  RepliesInv'
      <4>1. [turn[q] EXCEPT !.at = "switching", !.seen = seen].ok = None BY <2>1 DEF Turn
      <4> QED BY <2>1, <3>1, <4>1, KeptReplies, NothingSent
    <3> QED BY <2>3, <2>4, <2>6, <3>1 DEF Load
  <2>6a. CASE Switch(q) BY <2>4, <2>6a DEF Switch
  <2>7. CASE Create(q) BY <2>2, <2>4, <2>7 DEF Create
  <2>8. CASE Enter(q) BY <2>3, <2>8 DEF Enter
  <2> QED BY <1>2, <2>5, <2>6, <2>6a, <2>7, <2>8
<1>3. ASSUME NEW q \in Turns, NEW ok \in BOOLEAN, Reply(q, ok)
      PROVE  RepliesInv'
  <2>1. /\ Running(q) /\ turn[q] \in Turn /\ turn[q].at = "entered" /\ turn[q].ok = None
        /\ turn' = [turn EXCEPT ![q] = [turn[q] EXCEPT !.at = "replied", !.ok = ok]]
        /\ UNCHANGED <<claimed, lost>>
    BY <1>3, RunningTurn DEF Reply, Keep, At, TypesInv, TurnsOK
  <2>1a. [turn[q] EXCEPT !.at = "replied", !.ok = ok] \in Turn
    BY <2>1 DEF Turn, Steps
  <2>2. \A m \in Messages : ~Delivered(q, m)
    BY <2>1, PipelineAssumption DEF Delivered
  <2>3. \A p \in Turns \ {q}, m \in Messages : Delivered(p, m)' <=> Delivered(p, m)
    BY <2>1 DEF Delivered, Answers, Running, TypesInv, TypeOK
  <2>4. \A m \in Messages : Delivered(q, m)' <=> m = turn[q].msg /\ ok = TRUE
    <3>1. turn'[q] # None
      BY <2>1, <2>1a, RecordsAssumption DEF TypesInv, TypeOK
    <3>2. turn'[q].msg = turn[q].msg /\ turn'[q].ok = ok
      BY <2>1 DEF TypesInv, TypeOK, Turn
    <3> QED BY <3>1, <3>2 DEF Delivered, Answers, Running
  <2>5. CASE turn[q].msg = None \/ ok = FALSE
    <3>1. UNCHANGED sends BY <1>3, <2>5 DEF Reply, Sent
    <3>2. \A m \in Messages : ~Delivered(q, m)' BY <2>4, <2>5, PipelineAssumption
    <3> QED BY <2>1, <2>2, <2>3, <3>1, <3>2, NothingSent
  <2>6. CASE turn[q].msg # None /\ ok = TRUE
    <3> PICK m \in Messages : m = turn[q].msg BY <2>1, <2>6 DEF Turn
    <3>1. m = turn[q].msg OBVIOUS
    <3>2. Claims(q, m) BY <2>1 DEF Claims, Answers
    <3>3. m \notin claimed /\ \A p \in Turns : ~Delivered(p, m)
      BY <2>2, <3>1, <3>2, OneDelivers DEF ClaimsInv
    <3>4. sends[m] = lost[m] BY <3>1, <3>3 DEF RepliesInv
    <3>5. sends' = [sends EXCEPT ![m] = @ + 1] BY <1>3, <2>6 DEF Reply, Sent
    <3>6. \A n \in Messages :
            n # m => /\ sends'[n] = sends[n]
                     /\ \A p \in Turns : Delivered(p, n)' <=> Delivered(p, n)
      BY <2>2, <2>3, <2>4, <3>5 DEF TypesInv, TypeOK
    <3>7. sends'[m] = sends[m] + 1 /\ sends[m] \in Nat /\ lost[m] \in Nat
      BY <3>1, <3>5 DEF TypesInv, TypeOK
    <3>8. Delivered(q, m)' BY <2>4, <2>6, <3>1
    <3>9. ASSUME NEW n \in Messages
          PROVE  /\ n \notin claimed' /\ (\A p \in Turns : ~Delivered(p, n)')
                      => sends'[n] = lost'[n]
                 /\ \A p \in Turns : Delivered(p, n)' => sends'[n] = lost'[n] + 1
      <4>1. CASE n = m
        BY <2>1, <3>4, <3>7, <3>8, <4>1
      <4>2. CASE n # m
        BY <2>1, <3>6, <4>2 DEF RepliesInv
      <4> QED BY <4>1, <4>2
    <3> QED BY <3>9 DEF RepliesInv
  <2> QED BY <2>5, <2>6
<1>4. ASSUME NEW q \in Turns, Commit(q)
      PROVE  RepliesInv'
  <2>0. turn[q].msg \in Messages
    BY <1>4, RunningTurn
    DEF Commit, Answered, Ignored, At, TypesInv, TurnsOK, Turn, Running
  <2> PICK m \in Messages : m = turn[q].msg BY <2>0
  <2>1. /\ Running(q) /\ m = turn[q].msg
        /\ At(q, "replied") \/ At(q, "stale")
        /\ claimed' = claimed \union {m} /\ UNCHANGED <<sends, lost>>
    BY <1>4 DEF Commit, Answered, Ignored, At
  <2>2. \A p \in Turns, n \in Messages : Delivered(p, n)' <=> p # q /\ Delivered(p, n)
    BY <1>4, DroppedReplies DEF Commit
  <2>3. \A n \in Messages : n # m => ~Delivered(q, n) BY <2>1 DEF Delivered, Answers
  <2>4. \A p \in Turns : ~Delivered(p, m)'
    <3> SUFFICES ASSUME NEW p \in Turns, p # q, Delivered(p, m)
                 PROVE  FALSE
      BY <2>1, <2>2
    <3>1. Claims(q, m) BY <2>1 DEF At, Claims, Answers
    <3> QED BY <2>1, <3>1, OneDelivers
  <2>5. ASSUME NEW n \in Messages
        PROVE  /\ n \notin claimed' /\ (\A p \in Turns : ~Delivered(p, n)')
                    => sends'[n] = lost'[n]
               /\ \A p \in Turns : Delivered(p, n)' => sends'[n] = lost'[n] + 1
    BY <2>1, <2>2, <2>3, <2>4 DEF RepliesInv
  <2> QED BY <2>5 DEF RepliesInv
<1>5. ASSUME NEW q \in Turns, Spoken(q)
      PROVE  RepliesInv'
  <2>1. \A m \in Messages : ~Delivered(q, m)
    BY <1>5, PipelineAssumption DEF Spoken, Delivered, Answers
  <2>2. \A p \in Turns, m \in Messages : Delivered(p, m)' <=> Delivered(p, m)
    BY <1>5, <2>1, DroppedReplies DEF Spoken
  <2> QED BY <1>5, <2>2, NothingSent DEF Spoken
<1>6. ASSUME NEW q \in Turns, Abort(q)
      PROVE  RepliesInv'
  <2>1. /\ UNCHANGED <<claimed, sends>>
        /\ \A m \in Messages : lost'[m] = IF Delivered(q, m) THEN lost[m] + 1 ELSE lost[m]
    BY <1>6 DEF Abort, Delivered
  <2>2. \A p \in Turns, m \in Messages : Delivered(p, m)' <=> p # q /\ Delivered(p, m)
    BY <1>6, DroppedReplies DEF Abort
  <2>3. ASSUME NEW m \in Messages
        PROVE  sends[m] \in Nat /\ lost[m] \in Nat
    BY DEF TypesInv, TypeOK
  <2>4. ASSUME NEW m \in Messages
        PROVE  /\ m \notin claimed /\ (\A p \in Turns : ~Delivered(p, m)')
                    => sends[m] = lost'[m]
               /\ \A p \in Turns : Delivered(p, m)' => sends[m] = lost'[m] + 1
    <3>1. CASE Delivered(q, m)
      <4>1. \A p \in Turns : ~Delivered(p, m)'
        <5> SUFFICES ASSUME NEW p \in Turns, p # q, Delivered(p, m)
                     PROVE  FALSE
          BY <2>2
        <5>1. Claims(p, m)
          BY PipelineAssumption DEF Delivered, Answers, Claims, TypesInv, TurnsOK
        <5> QED BY <3>1, <5>1, OneDelivers
      <4> QED BY <2>1, <2>3, <3>1, <4>1 DEF RepliesInv
    <3>2. CASE ~Delivered(q, m)
      BY <2>1, <2>2, <2>3, <3>2 DEF RepliesInv
    <3> QED BY <3>1, <3>2
  <2> QED BY <2>1, <2>2, <2>4 DEF RepliesInv
<1>7. ASSUME NEW q \in Turns, NEW s \in Sessions, SendMessage(q, s)
      PROVE  RepliesInv'
  BY <1>7, KeptReplies, NothingSent DEF SendMessage
<1>8. CASE Tick \/ UNCHANGED vars
  <2>1. UNCHANGED <<claimed, sends, lost, turn>> BY <1>8 DEF Tick, vars
  <2> QED BY <2>1, NothingSent DEF Delivered, Answers, Running
<1>9. ASSUME NEW q \in Turns, Work(q)
      PROVE  RepliesInv'
  BY <1>2, <1>3, <1>4, <1>5, <1>9 DEF Work
<1> QED BY <1>1, <1>6, <1>7, <1>8, <1>9 DEF Next

LEMMA RepliesInvariant == Spec => []RepliesInv
<1>1. Init => RepliesInv
  <2> SUFFICES ASSUME Init PROVE RepliesInv OBVIOUS
  <2>1. \A q \in Turns, m \in Messages : ~Delivered(q, m)
    BY DEF Init, Delivered, Answers, Running
  <2>2. \A m \in Messages : sends[m] = lost[m] BY DEF Init
  <2> QED BY <2>1, <2>2 DEF RepliesInv
<1>2. TypesInv /\ ClaimsInv /\ RepliesInv /\ [Next]_vars => RepliesInv'
  BY RepliesStep
<1> QED BY <1>1, <1>2, ClaimsInvariant, PTL DEF Spec

-----------------------------------------------------------------------------
(* Messages out of order *)

\* Message n was answered and left the stamp x in its session.
AnsweredAt(n, x) ==
  settled[n] # None /\ settled[n].as = "answered" /\ settled[n].stamp = x

\* The time x in a session comes from staff or from an answered message.
Accounted(s, x) ==
  \/ x \in spoken[s]
  \/ \E n \in Messages : SessionOf[n] = s /\ AnsweredAt(n, x)

\* Every stored or loaded last_inbound_at is accounted for; a request found its
\* message stale against the time it had loaded; what is settled is claimed.
StoredInv ==
  \A s \in Sessions, x \in Nat : lastIn[s] = x => Accounted(s, x)
LoadedInv ==
  \A q \in Turns, s \in Sessions, x \in Nat :
    Running(q) /\ turn[q].to = s /\ turn[q].seen = x => Accounted(s, x)
StaleInv ==
  \A q \in Turns : At(q, "stale") => OutOfOrder(turn[q].msg, turn[q].seen)
SettledInv ==
  \A m \in Messages : settled[m] # None => m \in claimed

OrderInv == StoredInv /\ LoadedInv /\ StaleInv /\ SettledInv /\ IgnoredForReason

\* What is accounted for stays so while nothing settled is rewritten.
LEMMA AccountsGrow ==
  ASSUME \A m \in Messages : settled[m] # None => settled'[m] = settled[m],
         \A s \in Sessions : spoken[s] \subseteq spoken'[s],
         NEW s \in Sessions, NEW x, Accounted(s, x)
  PROVE  Accounted(s, x)'
BY DEF Accounted, AnsweredAt

\* A time accounted for that is later than a message is a reason to ignore it.
Reason(m) ==
  \/ \E t \in spoken[SessionOf[m]] : t > EventTime[m]
  \/ \E n \in Messages :
       /\ SessionOf[n] = SessionOf[m]
       /\ settled[n] # None /\ settled[n].as = "answered"
       /\ settled[n].stamp > EventTime[m]

LEMMA StaleHasReason ==
  ASSUME NEW m \in Messages, NEW seen, OutOfOrder(m, seen), Accounted(SessionOf[m], seen)
  PROVE  Reason(m)
<1>1. seen > EventTime[m] BY PipelineAssumption DEF OutOfOrder
<1> QED BY <1>1 DEF Reason, Accounted, AnsweredAt

LEMMA ReasonsGrow ==
  ASSUME \A m \in Messages : settled[m] # None => settled'[m] = settled[m],
         \A s \in Sessions : spoken[s] \subseteq spoken'[s],
         NEW m \in Messages, Reason(m)
  PROVE  Reason(m)'
<1>1. SessionOf[m] \in Sessions BY PipelineAssumption
<1> QED BY <1>1 DEF Reason

\* A step that settles nothing and stamps nothing.
LEMMA NothingSettled ==
  ASSUME OrderInv, UNCHANGED <<settled, spoken, lastIn, claimed>>,
         NEW q \in Turns, \A p \in Turns \ {q} : turn'[p] = turn[p],
         turn'[q] # None =>
           /\ \A s \in Sessions, x \in Nat :
                turn'[q].to = s /\ turn'[q].seen = x => Accounted(s, x)
           /\ turn'[q].at = "stale" => OutOfOrder(turn'[q].msg, turn'[q].seen)
  PROVE  OrderInv'
<1>1. ASSUME NEW s, NEW x
      PROVE  Accounted(s, x)' <=> Accounted(s, x)
  BY DEF Accounted, AnsweredAt
<1>2. StoredInv' BY <1>1 DEF OrderInv, StoredInv
<1>3. LoadedInv' BY <1>1 DEF OrderInv, LoadedInv, Running
<1>4. StaleInv' BY DEF OrderInv, StaleInv, At, Running, OutOfOrder
<1>5. SettledInv' BY DEF OrderInv, SettledInv
<1>6. IgnoredForReason' BY DEF OrderInv, IgnoredForReason
<1> QED BY <1>2, <1>3, <1>4, <1>5, <1>6 DEF OrderInv

\* A stamp changes no session but the request's own.
LEMMA StampedSessions ==
  ASSUME TypesInv, NEW q \in Turns, lastIn' = Stamped(q), NEW s \in Sessions
  PROVE  lastIn'[s] = lastIn[s] \/ (s = turn[q].to /\ lastIn'[s] = turn[q].stamp)
<1> DEFINE new == IF Writes(q) THEN turn[q].stamp ELSE lastIn[turn[q].to]
<1>1. lastIn' = [lastIn EXCEPT ![turn[q].to] = new] BY DEF Stamped, Session
<1>2. DOMAIN lastIn = Sessions BY DEF TypesInv, TypeOK
<1>3. new = turn[q].stamp \/ new = lastIn[turn[q].to] OBVIOUS
<1> HIDE DEF new
<1>4. lastIn'[s] = IF s = turn[q].to THEN new ELSE lastIn[s] BY <1>1, <1>2
<1> QED BY <1>3, <1>4

\* A turn that commits settles its message, which was open, and no other.
LEMMA CommitSettles ==
  ASSUME TypesInv, ClaimsInv, SettledInv, NEW q \in Turns, Commit(q)
  PROVE  /\ turn[q].msg \in Messages /\ Claims(q, turn[q].msg)
         /\ settled[turn[q].msg] = None
         /\ settled'[turn[q].msg] # None
         /\ settled'[turn[q].msg].stamp = turn[q].stamp
         /\ settled'[turn[q].msg].as = IF turn[q].at = "stale" THEN "ignored" ELSE "answered"
         /\ \A n \in Messages \ {turn[q].msg} : settled'[n] = settled[n]
<1>1. turn[q].msg \in Messages
  BY RunningTurn
  DEF Commit, Answered, Ignored, At, TypesInv, TurnsOK, Turn, Running
<1>2. Running(q) /\ turn[q].at \in {"replied", "stale"} /\ turn[q].stamp \in Nat
  BY DEF Commit, Answered, Ignored, At, TypesInv, TurnsOK
<1>3. Claims(q, turn[q].msg) BY <1>2 DEF Claims, Answers
<1>4. settled[turn[q].msg] = None BY <1>1, <1>3 DEF ClaimsInv, SettledInv
<1>5. [as |-> "ignored", stamp |-> turn[q].stamp] # None
      /\ [as |-> "answered", stamp |-> turn[q].stamp] # None
  BY <1>2, RecordsAssumption DEF Settled
<1>6. settled \in [Messages -> Settled \union {None}] BY DEF TypesInv, TypeOK
<1>7. CASE Answered(q) BY <1>1, <1>3, <1>4, <1>5, <1>6, <1>7 DEF Answered, At
<1>8. CASE Ignored(q) BY <1>1, <1>3, <1>4, <1>5, <1>6, <1>8 DEF Ignored, At
<1> QED BY <1>7, <1>8 DEF Commit

LEMMA OrderStep ==
  ASSUME TypesInv, ClaimsInv, OrderInv, [Next]_vars
  PROVE  OrderInv'
<1> USE DEF Stored, Counted
<1>0. \A q \in Turns : Running(q) => turn[q] \in Turn /\ turn[q].to \in Sessions
  BY RunningTurn DEF Turn
<1>1. ASSUME NEW q \in Turns, NEW m \in Messages, Deliver(q, m)
      PROVE  OrderInv'
  <2>1. turn'[q].seen = None /\ turn'[q].at = "received"
        /\ \A p \in Turns \ {q} : turn'[p] = turn[p]
    BY <1>1 DEF Deliver, Keep, TypesInv, TypeOK
  <2> QED BY <1>1, <2>1, NothingSettled, PipelineAssumption DEF Deliver
<1>2. ASSUME NEW q \in Turns, NEW s \in Sessions, SendMessage(q, s)
      PROVE  OrderInv'
  <2>1. turn'[q].seen = lastIn[s] /\ turn'[q].at = "ordered" /\ turn'[q].to = s
        /\ \A p \in Turns \ {q} : turn'[p] = turn[p]
    BY <1>2 DEF SendMessage, Keep, TypesInv, TypeOK
  <2>2. \A x \in Nat : lastIn[s] = x => Accounted(s, x) BY DEF OrderInv, StoredInv
  <2> QED BY <1>2, <2>1, <2>2, NothingSettled DEF SendMessage
<1>3. ASSUME NEW q \in Turns, Drop(q), UNCHANGED <<settled, spoken, lastIn, claimed>>
      PROVE  OrderInv'
  <2>1. turn'[q] = None /\ \A p \in Turns \ {q} : turn'[p] = turn[p]
    BY <1>3 DEF Drop, TypesInv, TypeOK
  <2> QED BY <1>3, <2>1, NothingSettled
<1>4. ASSUME NEW q \in Turns, Running(q), NEW step, step # "stale",
             Keep(q, [turn[q] EXCEPT !.at = step]),
             UNCHANGED <<settled, spoken, lastIn, claimed>>
      PROVE  OrderInv'
  <2>1. turn'[q].seen = turn[q].seen /\ turn'[q].at = step /\ turn'[q].to = turn[q].to
        /\ \A p \in Turns \ {q} : turn'[p] = turn[p]
    BY <1>0, <1>4 DEF Keep, TypesInv, TypeOK, Turn
  <2>2. \A s \in Sessions, x \in Nat :
          turn'[q].to = s /\ turn'[q].seen = x => Accounted(s, x)
    BY <1>4, <2>1 DEF OrderInv, LoadedInv
  <2> QED BY <1>4, <2>1, <2>2, NothingSettled
<1>5. ASSUME NEW q \in Turns, Running(q), NEW seen, NEW made, NEW switched,
             Compared(q, seen, made, switched),
             \A x \in Nat : seen = x => Accounted(turn[q].to, x),
             UNCHANGED <<settled, spoken, lastIn, claimed>>
      PROVE  OrderInv'
  <2>1. turn'[q].seen = seen /\ turn'[q].to = turn[q].to /\ turn'[q].msg = turn[q].msg
        /\ \A p \in Turns \ {q} : turn'[p] = turn[p]
    BY <1>0, <1>5 DEF Compared, Keep, TypesInv, TypeOK, Turn
  <2>2. turn'[q].at = IF OutOfOrder(turn[q].msg, seen) THEN "stale" ELSE "ordered"
    BY <1>0, <1>5 DEF Compared, Keep, TypesInv, TypeOK, Turn
  <2>3. turn'[q].at = "stale" => OutOfOrder(turn[q].msg, seen)
    BY <2>2
  <2> QED BY <1>5, <2>1, <2>3, NothingSettled
<1>6. ASSUME NEW q \in Turns, Claim(q)
      PROVE  OrderInv'
  BY <1>3, <1>4, <1>6 DEF Claim, At
<1>7. ASSUME NEW q \in Turns, Load(q)
      PROVE  OrderInv'
  <2>1. Running(q) /\ turn[q].to \in Sessions BY <1>0, <1>7 DEF Load, At
  <2>2. \A x \in Nat : lastIn[turn[q].to] = x => Accounted(turn[q].to, x)
    BY <2>1 DEF OrderInv, StoredInv
  <2>3. ASSUME Keep(q, [turn[q] EXCEPT !.at = "switching", !.seen = lastIn[turn[q].to]])
        PROVE  OrderInv'
    <3>1. /\ turn'[q].seen = lastIn[turn[q].to] /\ turn'[q].at = "switching"
          /\ turn'[q].to = turn[q].to
          /\ \A p \in Turns \ {q} : turn'[p] = turn[p]
      BY <1>0, <2>1, <2>3 DEF Keep, TypesInv, TypeOK, Turn
    <3> QED BY <1>7, <2>2, <3>1, NothingSettled DEF Load
  <2> QED BY <1>4, <1>5, <1>7, <2>1, <2>2, <2>3 DEF Load, Session
<1>7a. ASSUME NEW q \in Turns, Switch(q)
       PROVE  OrderInv'
  <2>1. Running(q) /\ turn[q].to \in Sessions BY <1>0, <1>7a DEF Switch, At
  <2>2. \A x \in Nat : turn[q].seen = x => Accounted(turn[q].to, x)
    BY <2>1 DEF OrderInv, LoadedInv
  <2> QED BY <1>5, <1>7a, <2>1, <2>2 DEF Switch
<1>8. ASSUME NEW q \in Turns, Create(q)
      PROVE  OrderInv'
  <2>1. \A x \in Nat : x # None BY PipelineAssumption
  <2> QED BY <1>3, <1>5, <1>8, <2>1 DEF Create, At
<1>9. ASSUME NEW q \in Turns, Enter(q)
      PROVE  OrderInv'
  BY <1>4, <1>9 DEF Enter, At
<1>10. ASSUME NEW q \in Turns, NEW ok \in BOOLEAN, Reply(q, ok)
       PROVE  OrderInv'
  <2>1. Running(q) BY <1>10 DEF Reply, At
  <2>2. turn'[q].seen = turn[q].seen /\ turn'[q].at = "replied" /\ turn'[q].to = turn[q].to
        /\ \A p \in Turns \ {q} : turn'[p] = turn[p]
    BY <1>0, <1>10, <2>1 DEF Reply, Keep, TypesInv, TypeOK, Turn
  <2>3. \A s \in Sessions, x \in Nat :
          turn'[q].to = s /\ turn'[q].seen = x => Accounted(s, x)
    BY <2>1, <2>2 DEF OrderInv, LoadedInv
  <2> QED BY <1>10, <2>2, <2>3, NothingSettled DEF Reply
<1>11. ASSUME NEW q \in Turns, Commit(q)
       PROVE  OrderInv'
  <2>0. turn[q].msg \in Messages BY <1>11, CommitSettles DEF OrderInv
  <2> PICK m \in Messages : m = turn[q].msg BY <2>0
  <2>1. /\ Running(q) /\ turn[q].at \in {"replied", "stale"} /\ m = turn[q].msg
        /\ claimed' = claimed \union {m} /\ UNCHANGED spoken
    BY <1>11 DEF Commit, Answered, Ignored, At
  <2>1a. turn[q].to = SessionOf[m] /\ SessionOf[m] \in Sessions
    BY <2>1, PipelineAssumption DEF TypesInv, TurnsOK
  <2>1b. turn'[q] = None /\ \A p \in Turns \ {q} : turn'[p] = turn[p]
    BY <1>11 DEF Commit, Drop, TypesInv, TypeOK
  <2>2. settled[m] = None
    BY <1>11, <2>1, CommitSettles DEF OrderInv
  <2>3. /\ settled'[m] # None /\ settled'[m].stamp = turn[q].stamp
        /\ settled'[m].as = IF turn[q].at = "stale" THEN "ignored" ELSE "answered"
        /\ \A n \in Messages \ {m} : settled'[n] = settled[n]
    BY <1>11, <2>1, CommitSettles DEF OrderInv
  <2>4. \A n \in Messages : settled[n] # None => settled'[n] = settled[n]
    BY <2>2, <2>3
  <2>5. ASSUME NEW s \in Sessions, NEW x, Accounted(s, x)
        PROVE  Accounted(s, x)'
    BY <2>1, <2>4, <2>5, AccountsGrow
  <2>6. StoredInv'
    <3>1. CASE lastIn' = lastIn
      BY <2>5, <3>1 DEF OrderInv, StoredInv
    <3>2. CASE lastIn' # lastIn
      <4>1. Answered(q) BY <1>11, <3>2 DEF Commit, Ignored
      <4>2. turn[q].at = "replied" BY <4>1 DEF Answered, At
      <4>3. \A x \in Nat : x = turn[q].stamp => AnsweredAt(m, x)'
        BY <2>3, <4>2 DEF AnsweredAt
      <4>4. \A x \in Nat : x = turn[q].stamp => Accounted(SessionOf[m], x)'
        BY <4>3 DEF Accounted
      <4>5. \A s \in Sessions :
              lastIn'[s] = lastIn[s] \/ (s = SessionOf[m] /\ lastIn'[s] = turn[q].stamp)
        BY <2>1a, <4>1, StampedSessions DEF Answered
      <4> QED BY <2>5, <4>4, <4>5 DEF OrderInv, StoredInv
    <3> QED BY <3>1, <3>2
  <2>7. LoadedInv'
    BY <2>1b, <2>5 DEF OrderInv, LoadedInv, Running
  <2>8. StaleInv'
    BY <2>1b DEF OrderInv, StaleInv, At, Running, OutOfOrder
  <2>9. SettledInv'
    BY <2>1, <2>3 DEF OrderInv, SettledInv
  <2>10. ASSUME NEW n \in Messages, settled'[n] # None, settled'[n].as = "ignored"
         PROVE  Reason(n)'
    <3>1. Reason(n)
      <4>1. CASE n = m
        <5>1. turn[q].at = "stale" BY <2>3, <2>10, <4>1
        <5>2. OutOfOrder(m, turn[q].seen)
          BY <2>1, <5>1 DEF OrderInv, StaleInv, At
        <5>3. turn[q].seen \in Nat
          BY <2>1, <5>2, RunningTurn DEF OutOfOrder, Turn
        <5>4. Accounted(SessionOf[m], turn[q].seen)
          BY <2>1, <2>1a, <5>3 DEF OrderInv, LoadedInv
        <5> QED BY <4>1, <5>2, <5>4, StaleHasReason
      <4>2. CASE n # m
        BY <2>3, <2>10, <4>2 DEF OrderInv, IgnoredForReason, Reason
      <4> QED BY <4>1, <4>2
    <3> QED BY <2>1, <2>4, <3>1, ReasonsGrow
  <2>11. IgnoredForReason'
    BY <2>10 DEF IgnoredForReason, Reason
  <2> QED BY <2>6, <2>7, <2>8, <2>9, <2>11 DEF OrderInv
<1>12. ASSUME NEW q \in Turns, Spoken(q)
       PROVE  OrderInv'
  <2>1. CASE turn[q].ok # TRUE
    BY <1>3, <1>12, <2>1 DEF Spoken
  <2>2. CASE turn[q].ok = TRUE
    <3>1. /\ Running(q) /\ UNCHANGED <<settled, claimed>> /\ turn[q].to \in Sessions
          /\ turn'[q] = None /\ \A p \in Turns \ {q} : turn'[p] = turn[p]
      BY <1>0, <1>12 DEF Spoken, At, Drop, TypesInv, TypeOK
    <3>2. /\ spoken' = [spoken EXCEPT ![turn[q].to] = @ \union {turn[q].stamp}]
          /\ lastIn' = Stamped(q)
      BY <1>12, <2>2 DEF Spoken, Session
    <3>3. /\ \A s \in Sessions : spoken[s] \subseteq spoken'[s]
          /\ turn[q].stamp \in spoken'[turn[q].to]
      BY <3>1, <3>2 DEF TypesInv, TypeOK
    <3>4. ASSUME NEW s \in Sessions, NEW x, Accounted(s, x)
          PROVE  Accounted(s, x)'
      BY <3>1, <3>3, <3>4, AccountsGrow
    <3>5. StoredInv'
      <4>1. \A s \in Sessions :
              lastIn'[s] = lastIn[s] \/ (s = turn[q].to /\ lastIn'[s] = turn[q].stamp)
        BY <3>2, StampedSessions
      <4> QED BY <3>3, <3>4, <4>1 DEF OrderInv, StoredInv, Accounted
    <3>6. LoadedInv'
      BY <3>1, <3>4 DEF OrderInv, LoadedInv, Running
    <3>7. StaleInv'
      BY <3>1 DEF OrderInv, StaleInv, At, Running, OutOfOrder
    <3>8. SettledInv'
      BY <3>1 DEF OrderInv, SettledInv
    <3>9. ASSUME NEW n \in Messages, settled'[n] # None, settled'[n].as = "ignored"
          PROVE  Reason(n)'
      <4>1. Reason(n) BY <3>1, <3>9 DEF OrderInv, IgnoredForReason, Reason
      <4> QED BY <3>1, <3>3, <4>1, ReasonsGrow
    <3>10. IgnoredForReason'
      BY <3>9 DEF IgnoredForReason, Reason
    <3> QED BY <3>5, <3>6, <3>7, <3>8, <3>10 DEF OrderInv
  <2> QED BY <2>1, <2>2
<1>13. ASSUME NEW q \in Turns, Abort(q)
       PROVE  OrderInv'
  BY <1>3, <1>13 DEF Abort
<1>14. CASE Tick \/ UNCHANGED vars
  <2>1. UNCHANGED <<settled, spoken, lastIn, claimed, turn>> BY <1>14 DEF Tick, vars
  <2>2. ASSUME NEW s, NEW x
        PROVE  Accounted(s, x)' <=> Accounted(s, x)
    BY <2>1 DEF Accounted, AnsweredAt
  <2>3. StoredInv' /\ LoadedInv' BY <2>1, <2>2 DEF OrderInv, StoredInv, LoadedInv, Running
  <2>4. StaleInv' /\ SettledInv'
    BY <2>1 DEF OrderInv, StaleInv, SettledInv, At, Running, OutOfOrder
  <2>5. IgnoredForReason' BY <2>1 DEF OrderInv, IgnoredForReason
  <2> QED BY <2>3, <2>4, <2>5 DEF OrderInv
<1>15. ASSUME NEW q \in Turns, Work(q)
       PROVE  OrderInv'
  BY <1>6, <1>7, <1>7a, <1>8, <1>9, <1>10, <1>11, <1>12, <1>15 DEF Work
<1> QED BY <1>1, <1>2, <1>13, <1>14, <1>15 DEF Next

LEMMA OrderInvariant == Spec => []OrderInv
<1>1. Init => OrderInv
  BY PipelineAssumption
  DEF Init, OrderInv, StoredInv, LoadedInv, StaleInv, SettledInv, At, Running, IgnoredForReason
<1>2. TypesInv /\ ClaimsInv /\ OrderInv /\ [Next]_vars => OrderInv'
  BY OrderStep
<1> QED BY <1>1, <1>2, ClaimsInvariant, PTL DEF Spec

\* A message is ignored only if a newer one of its session was answered or staff
\* wrote to the client after it.
THEOREM IgnoredWithReason == Spec => []IgnoredForReason
<1>1. OrderInv => IgnoredForReason
  BY DEF OrderInv
<1> QED BY <1>1, OrderInvariant, PTL

-----------------------------------------------------------------------------
(* The order kept *)

\* A request at time t: neither its message nor what it has loaded and will write
\* is further ahead than the provider's clock, and past the order check the stamp
\* is not before the time it has loaded, unless it is the server's: then it may
\* be, by as much as the provider's clock is ahead.
Forward(r, t) ==
  /\ r.msg # None /\ EventTime[r.msg] # None => EventTime[r.msg] <= t + Ahead
  /\ r.seen # None => r.seen <= t + Ahead
  /\ r.stamp # None => r.stamp <= t + Ahead
  /\ r.at \in {"ordered", "entered", "replied"} /\ r.seen # None =>
       \/ r.stamp >= r.seen
       \/ (r.msg = None \/ EventTime[r.msg] = None) /\ r.stamp + Ahead >= r.seen

ForwardInv ==
  /\ \A s \in Sessions : lastIn[s] # None => lastIn[s] <= now + Ahead
  /\ \A q \in Turns : Running(q) => Forward(turn[q], now)

\* A step that stores no stamp and lets one request, at most, go on.
LEMMA NothingStamped ==
  ASSUME ForwardInv, UNCHANGED <<lastIn, now>>,
         NEW q \in Turns, \A p \in Turns \ {q} : turn'[p] = turn[p],
         turn'[q] # None => Forward(turn'[q], now)
  PROVE  ForwardInv'
BY DEF ForwardInv, Running, Forward

\* The order check lets a message pass only forward.
LEMMA ComparedForward ==
  ASSUME TypesInv, ForwardInv, UNCHANGED <<lastIn, now>>,
         NEW q \in Turns, Running(q), turn[q].at \in {"claimed", "creating", "switching"},
         NEW seen \in Nat \union {None}, seen # None => seen <= now + Ahead,
         NEW made \in BOOLEAN, NEW switched \in BOOLEAN, Compared(q, seen, made, switched)
  PROVE  ForwardInv'
<1>1. turn[q] \in Turn /\ turn[q].msg \in Messages
  BY RunningTurn DEF TypesInv, TurnsOK, Turn
<1> PICK m \in Messages : m = turn[q].msg BY <1>1
<1>7. EventTime[m] # None => EventTime[m] <= now + Ahead
  BY PipelineAssumption DEF ForwardInv, Forward
<1>2. Stamp(m) \in Nat /\ Stamp(m) <= now + Ahead
  BY <1>7, PipelineAssumption DEF Stamp, TypesInv, TypeOK
<1>3. ~OutOfOrder(m, seen) /\ seen # None =>
        Stamp(m) >= seen \/ (EventTime[m] = None /\ Stamp(m) + Ahead >= seen)
  BY PipelineAssumption DEF OutOfOrder, Stamp, TypesInv, TypeOK
<1>4. \A p \in Turns \ {q} : turn'[p] = turn[p]
  BY DEF Compared, Keep, TypesInv, TypeOK
<1>5. turn'[q] = [turn[q] EXCEPT
                    !.at = IF OutOfOrder(m, seen) THEN "stale" ELSE "ordered",
                    !.made = made, !.switched = switched, !.seen = seen,
                    !.stamp = Stamp(m)]
  BY DEF Compared, Keep, TypesInv, TypeOK
<1>6. /\ turn'[q].msg = m /\ turn'[q].seen = seen /\ turn'[q].stamp = Stamp(m)
      /\ turn'[q].at = "ordered" => ~OutOfOrder(m, seen)
      /\ turn'[q].at \in {"stale", "ordered"}
  BY <1>1, <1>5 DEF Turn
<1>8. Forward(turn'[q], now) BY <1>2, <1>3, <1>6, <1>7 DEF Forward
<1> QED BY <1>4, <1>8, NothingStamped

\* A request that moves on with the stamp and the time it has.
LEMMA MovedForward ==
  ASSUME TypesInv, ForwardInv, UNCHANGED <<lastIn, now>>,
         NEW q \in Turns, Running(q), NEW r, Keep(q, r),
         r.msg = turn[q].msg, r.seen = turn[q].seen, r.stamp = turn[q].stamp,
         \/ r.at \in {"claimed", "creating"}
         \/ turn[q].at \in {"ordered", "entered"}
  PROVE  ForwardInv'
<1>1. turn'[q] = r /\ \A p \in Turns \ {q} : turn'[p] = turn[p]
  BY DEF Keep, TypesInv, TypeOK
<1>2. Forward(r, now) BY DEF ForwardInv, Forward
<1> QED BY <1>1, <1>2, NothingStamped

\* A request that ends, perhaps storing its stamp.
LEMMA EndedForward ==
  ASSUME TypesInv, ForwardInv, UNCHANGED now, NEW q \in Turns, Running(q), Drop(q),
         lastIn' = lastIn \/ (turn[q].at = "replied" /\ lastIn' = Stamped(q))
  PROVE  ForwardInv'
<1>1. turn'[q] = None /\ \A p \in Turns \ {q} : turn'[p] = turn[p]
  BY DEF Drop, TypesInv, TypeOK
<1>2. ASSUME NEW s \in Sessions, lastIn'[s] # None
      PROVE  lastIn'[s] <= now + Ahead
  <2>1. CASE lastIn'[s] = lastIn[s] BY <1>2, <2>1 DEF ForwardInv
  <2>2. CASE lastIn'[s] # lastIn[s]
    <3>1. lastIn'[s] = turn[q].stamp BY <2>2, StampedSessions
    <3> QED BY <1>2, <3>1 DEF ForwardInv, Forward
  <2> QED BY <2>1, <2>2
<1> QED BY <1>1, <1>2 DEF ForwardInv, Running

LEMMA ForwardStep ==
  ASSUME TypesInv, ForwardInv, [Next]_vars
  PROVE  ForwardInv'
<1> USE DEF Stored, Counted
<1>0. \A q \in Turns : Running(q) => turn[q] \in Turn BY RunningTurn
<1>1. ASSUME NEW q \in Turns, NEW m \in Messages, Deliver(q, m)
      PROVE  ForwardInv'
  <2>1. /\ turn'[q].msg = m /\ turn'[q].stamp = None /\ turn'[q].at = "received"
        /\ turn'[q].seen = None
        /\ \A p \in Turns \ {q} : turn'[p] = turn[p]
    BY <1>1 DEF Deliver, Keep, TypesInv, TypeOK
  <2>2. Forward(turn'[q], now) BY <1>1, <2>1 DEF Deliver, Forward
  <2> QED BY <1>1, <2>1, <2>2, NothingStamped DEF Deliver
<1>2. ASSUME NEW q \in Turns, NEW s \in Sessions, SendMessage(q, s)
      PROVE  ForwardInv'
  <2>1. /\ turn'[q].msg = None /\ turn'[q].stamp = now /\ turn'[q].seen = lastIn[s]
        /\ \A p \in Turns \ {q} : turn'[p] = turn[p]
    BY <1>2 DEF SendMessage, Keep, TypesInv, TypeOK
  <2>2. lastIn[s] # None => lastIn[s] \in Nat /\ lastIn[s] <= now + Ahead
    BY DEF ForwardInv, TypesInv, TypeOK
  <2>3. now \in Nat /\ Ahead \in Nat BY PipelineAssumption DEF TypesInv, TypeOK
  <2>4. Forward(turn'[q], now) BY <2>1, <2>2, <2>3 DEF Forward
  <2> QED BY <1>2, <2>1, <2>4, NothingStamped DEF SendMessage
<1>3. ASSUME NEW q \in Turns, NEW step, Keep(q, [turn[q] EXCEPT !.at = step]), Running(q),
             step \in {"claimed", "creating"} \/ turn[q].at \in {"ordered", "entered"},
             UNCHANGED <<lastIn, now>>
      PROVE  ForwardInv'
  <2> DEFINE r == [turn[q] EXCEPT !.at = step]
  <2>1. /\ r.msg = turn[q].msg /\ r.seen = turn[q].seen /\ r.stamp = turn[q].stamp
        /\ r.at = step
    BY <1>0, <1>3 DEF Turn
  <2>2. Keep(q, r) BY <1>3
  <2> HIDE DEF r
  <2> QED BY <1>3, <2>1, <2>2, MovedForward
<1>4. ASSUME NEW q \in Turns, Claim(q)
      PROVE  ForwardInv'
  BY <1>3, <1>4, EndedForward DEF Claim, At
<1>5. ASSUME NEW q \in Turns, Load(q)
      PROVE  ForwardInv'
  <2>1. Running(q) /\ turn[q].at = "claimed" /\ Session(q) \in Sessions
    BY <1>0, <1>5 DEF Load, At, Session, Turn
  <2>2. lastIn[Session(q)] \in Nat \union {None}
        /\ (lastIn[Session(q)] # None => lastIn[Session(q)] <= now + Ahead)
    BY <2>1 DEF ForwardInv, TypesInv, TypeOK
  <2>3. ASSUME Keep(q, [turn[q] EXCEPT !.at = "switching", !.seen = lastIn[Session(q)]])
        PROVE  ForwardInv'
    <3>1. /\ turn'[q].msg = turn[q].msg /\ turn'[q].stamp = turn[q].stamp
          /\ turn'[q].at = "switching" /\ turn'[q].seen = lastIn[Session(q)]
          /\ \A p \in Turns \ {q} : turn'[p] = turn[p]
      BY <1>0, <2>1, <2>3 DEF Keep, TypesInv, TypeOK, Turn
    <3>2. Forward(turn[q], now) BY <2>1 DEF ForwardInv
    <3>3. Forward(turn'[q], now) BY <2>2, <3>1, <3>2 DEF Forward
    <3> QED BY <1>5, <3>1, <3>3, NothingStamped DEF Load
  <2> QED BY <1>3, <1>5, <2>1, <2>2, <2>3, ComparedForward DEF Load
<1>5a. ASSUME NEW q \in Turns, Switch(q)
       PROVE  ForwardInv'
  <2>1. Running(q) /\ turn[q].at = "switching" BY <1>5a DEF Switch, At
  <2>2. turn[q].seen \in Nat \union {None}
        /\ (turn[q].seen # None => turn[q].seen <= now + Ahead)
    BY <1>0, <2>1 DEF ForwardInv, Forward, Turn
  <2> QED BY <1>5a, <2>1, <2>2, ComparedForward DEF Switch
<1>6. ASSUME NEW q \in Turns, Create(q)
      PROVE  ForwardInv'
  <2>1. Running(q) /\ turn[q].at = "creating" BY <1>6 DEF Create, At
  <2> QED BY <1>6, <2>1, ComparedForward, EndedForward DEF Create
<1>7. ASSUME NEW q \in Turns, Enter(q)
      PROVE  ForwardInv'
  BY <1>3, <1>7 DEF Enter, At
<1>8. ASSUME NEW q \in Turns, NEW ok \in BOOLEAN, Reply(q, ok)
      PROVE  ForwardInv'
  <2> DEFINE r == [turn[q] EXCEPT !.at = "replied", !.ok = ok]
  <2>1. Running(q) /\ turn[q].at = "entered" BY <1>8 DEF Reply, At
  <2>2. r.msg = turn[q].msg /\ r.seen = turn[q].seen /\ r.stamp = turn[q].stamp
    BY <1>0, <2>1 DEF Turn
  <2>3. Keep(q, r) /\ UNCHANGED <<lastIn, now>> BY <1>8 DEF Reply
  <2> HIDE DEF r
  <2> QED BY <2>1, <2>2, <2>3, MovedForward
<1>9. ASSUME NEW q \in Turns, Commit(q)
      PROVE  ForwardInv'
  BY <1>9, EndedForward DEF Commit, Answered, Ignored, At
<1>10. ASSUME NEW q \in Turns, Spoken(q)
       PROVE  ForwardInv'
  BY <1>10, EndedForward DEF Spoken, At
<1>11. ASSUME NEW q \in Turns, Abort(q)
       PROVE  ForwardInv'
  BY <1>11, EndedForward DEF Abort
<1>12. CASE Tick
  <2>1. now \in Nat /\ now' = now + 1 /\ UNCHANGED <<lastIn, turn>>
    BY <1>12 DEF Tick, TypesInv, TypeOK
  <2>2. ASSUME NEW q \in Turns, Running(q)
        PROVE  Forward(turn[q], now')
    <3>1. turn[q] \in Turn /\ Forward(turn[q], now) BY <1>0, <2>2 DEF ForwardInv
    <3>2. turn[q].stamp \in Nat \union {None} /\ turn[q].seen \in Nat \union {None}
          /\ Ahead \in Nat
      BY <3>1, PipelineAssumption DEF Turn
    <3>3. turn[q].msg # None => EventTime[turn[q].msg] \in Nat \union {None}
      BY <3>1, PipelineAssumption DEF Turn
    <3> QED BY <2>1, <3>1, <3>2, <3>3 DEF Forward
  <2>3. \A s \in Sessions : lastIn[s] # None => lastIn[s] <= now' + Ahead
    BY <2>1, PipelineAssumption DEF ForwardInv, TypesInv, TypeOK
  <2> QED BY <2>1, <2>2, <2>3 DEF ForwardInv, Running
<1>13. CASE UNCHANGED vars
  BY <1>13 DEF vars, ForwardInv, Running, Forward
<1>14. ASSUME NEW q \in Turns, Work(q)
       PROVE  ForwardInv'
  BY <1>4, <1>5, <1>5a, <1>6, <1>7, <1>8, <1>9, <1>10, <1>14 DEF Work
<1> QED BY <1>1, <1>2, <1>11, <1>12, <1>13, <1>14 DEF Next

\* The stamp that a request stores is not before the one it has loaded, or only by
\* the lead of the provider's clock, so only a request that others have overtaken
\* moves last_inbound_at back further.
LEMMA StampsForward ==
  ASSUME TypesInv, ForwardInv, NEW q \in Turns, At(q, "replied"), Drop(q),
         lastIn' = Stamped(q), NEW s \in Sessions, lastIn[s] # None
  PROVE  \/ lastIn'[s] >= lastIn[s]
         \/ \E p \in Turns :
              /\ Running(p) /\ turn'[p] = None /\ Session(p) = s
              /\ \/ turn[p].seen # lastIn[s]
                 \/ StampedHere(p) /\ lastIn'[s] + Ahead >= lastIn[s]
<1>1. Running(q) /\ turn[q].at = "replied" /\ turn'[q] = None
  BY DEF At, Drop, TypesInv, TypeOK
<1>2. lastIn[s] \in Nat BY DEF TypesInv, TypeOK
<1>3. CASE lastIn'[s] = lastIn[s] BY <1>2, <1>3
<1>4. CASE lastIn'[s] # lastIn[s]
  <2>1. s = turn[q].to /\ lastIn'[s] = turn[q].stamp BY <1>4, StampedSessions
  <2>2. CASE turn[q].seen = lastIn[s]
    BY <1>1, <2>1, <2>2 DEF ForwardInv, Forward, StampedHere, Session
  <2>3. CASE turn[q].seen # lastIn[s]
    BY <1>1, <2>1, <2>3 DEF Session
  <2> QED BY <2>2, <2>3
<1> QED BY <1>3, <1>4

\* last_inbound_at goes back only when a turn commits that another request had
\* overtaken after it loaded the session, or with the server's time and no further
\* than the provider's clock is ahead.
THEOREM OrderKept == Spec => OrderKeptUnlessOverlapped
<1> DEFINE Kept(s) ==
      lastIn[s] # None =>
        \/ lastIn'[s] >= lastIn[s]
        \/ \E q \in Turns :
             /\ Running(q) /\ turn'[q] = None /\ Session(q) = s
             /\ \/ turn[q].seen # lastIn[s]
                \/ StampedHere(q) /\ lastIn'[s] + Ahead >= lastIn[s]
<1>1. Init => ForwardInv
  BY PipelineAssumption DEF Init, ForwardInv, Running
<1>2. TypesInv /\ ForwardInv /\ [Next]_vars => ForwardInv'
  BY ForwardStep
<1>3. ASSUME TypesInv, ForwardInv, Next, NEW s \in Sessions
      PROVE  Kept(s)
  <2> USE <1>3 DEF Stored, Counted
  <2>1. CASE UNCHANGED lastIn BY <2>1 DEF TypesInv, TypeOK
  <2>2. ASSUME NEW q \in Turns, Commit(q)
        PROVE  Kept(s)
    BY <2>1, <2>2, StampsForward DEF Commit, Answered, Ignored
  <2>3. ASSUME NEW q \in Turns, Spoken(q)
        PROVE  Kept(s)
    BY <2>1, <2>3, StampsForward DEF Spoken
  <2>4. ASSUME NEW q \in Turns, Work(q)
        PROVE  Kept(s)
    BY <2>1, <2>2, <2>3, <2>4 DEF Work, Claim, Load, Switch, Create, Enter, Reply
  <2> HIDE DEF Kept
  <2> QED BY <2>1, <2>4 DEF Next, Deliver, Abort, SendMessage, Tick
<1>4. TypesInv /\ ForwardInv /\ [Next]_vars => [\A s \in Sessions : Kept(s)]_vars
  BY <1>3
<1> QED BY <1>1, <1>2, <1>4, ClaimsInvariant, PTL DEF Spec, OrderKeptUnlessOverlapped

-----------------------------------------------------------------------------
(* The ledger *)

\* The account of a message a turn has claimed: it is open, and beyond the
\* replies of the turns that failed only that turn's own has come.
LEMMA ClaimedAccount ==
  ASSUME TypesInv, ClaimsInv, RepliesInv, SettledInv,
         NEW q \in Turns, NEW m \in Messages, Claims(q, m)
  PROVE  /\ settled[m] = None
         /\ Ledger!Stands(m) <=> Delivered(q, m)
<1>1. settled[m] = None /\ m \notin claimed BY DEF ClaimsInv, SettledInv
<1>2. sends[m] \in Nat /\ lost[m] \in Nat BY DEF TypesInv, TypeOK
<1>3. CASE Delivered(q, m)
  BY <1>1, <1>2, <1>3 DEF RepliesInv, Ledger!Stands
<1>4. CASE ~Delivered(q, m)
  <2>1. \A p \in Turns : ~Delivered(p, m) BY <1>4, OneDelivers
  <2> QED BY <1>1, <1>2, <1>4, <2>1 DEF RepliesInv, Ledger!Stands
<1> QED BY <1>1, <1>3, <1>4

\* A reply that reaches the client while no other stands.
LEMMA ReplyLedgered ==
  ASSUME TypesInv, ClaimsInv, RepliesInv, SettledInv,
         NEW q \in Turns, NEW ok \in BOOLEAN, Reply(q, ok)
  PROVE  [Ledger!Next]_(Ledger!ledger)
<1>1. Running(q) /\ turn[q] \in Turn /\ turn[q].at = "entered" /\ turn[q].ok = None
  BY RunningTurn DEF Reply, At, TypesInv, TurnsOK
<1>2. UNCHANGED <<settled, retries, lost, commits>> BY DEF Reply, Stored
<1>3. CASE turn[q].msg = None \/ ok = FALSE
  <2>1. UNCHANGED sends BY <1>3 DEF Reply, Sent
  <2> QED BY <1>2, <2>1 DEF Ledger!ledger
<1>4. CASE turn[q].msg # None /\ ok = TRUE
  <2> PICK m \in Messages : m = turn[q].msg BY <1>1, <1>4 DEF Turn
  <2>1. m = turn[q].msg OBVIOUS
  <2>2. Claims(q, m) /\ ~Delivered(q, m)
    BY <1>1, <2>1, PipelineAssumption DEF Claims, Answers, Delivered
  <2>3. settled[m] = None /\ ~Ledger!Stands(m) BY <2>2, ClaimedAccount
  <2>4. sends' = [sends EXCEPT ![m] = @ + 1] BY <1>4, <2>1 DEF Reply, Sent
  <2>5. Ledger!Reply(m) BY <1>2, <2>3, <2>4 DEF Ledger!Reply
  <2> QED BY <2>5 DEF Ledger!Next
<1> QED BY <1>3, <1>4

\* A committed turn answers its message, and owes a reply if its own has not
\* come; or it ignores it, and has sent none.
LEMMA CommitLedgered ==
  ASSUME TypesInv, ClaimsInv, RepliesInv, SettledInv, NEW q \in Turns, Commit(q)
  PROVE  [Ledger!Next]_(Ledger!ledger)
<1> DEFINE Outcome == [n \in Messages |-> IF settled[n] = None THEN None ELSE settled[n].as]
<1>1. turn[q].msg \in Messages BY CommitSettles
<1> PICK m \in Messages : m = turn[q].msg BY <1>1
<1>2. /\ m = turn[q].msg /\ Claims(q, m) /\ settled[m] = None /\ settled'[m] # None
      /\ settled'[m].as = IF turn[q].at = "stale" THEN "ignored" ELSE "answered"
      /\ \A n \in Messages \ {m} : settled'[n] = settled[n]
  BY CommitSettles
<1>3. Ledger!Stands(m) <=> Delivered(q, m) BY <1>2, ClaimedAccount
<1>4. Running(q) /\ turn[q] \in Turn BY <1>2, RunningTurn DEF Claims, Answers
<1>5. /\ commits' = [commits EXCEPT ![m] = @ + 1]
      /\ UNCHANGED <<sends, lost>>
  BY <1>2 DEF Commit
<1>6. Outcome' = [Outcome EXCEPT ![m] =
                    IF turn[q].at = "stale" THEN "ignored" ELSE "answered"]
  BY <1>2
<1>7. CASE Answered(q)
  <2>1. turn[q].at = "replied" /\ turn[q].ok \in BOOLEAN
    BY <1>4, <1>7 DEF Answered, At, TypesInv, TurnsOK, Turn
  <2>2. Delivered(q, m) <=> turn[q].ok = TRUE
    BY <1>2, <1>4 DEF Delivered, Answers
  <2>3. retries' = IF Ledger!Stands(m) THEN retries ELSE retries \union {m}
    BY <1>2, <1>3, <1>7, <2>1, <2>2 DEF Answered, Queued
  <2>4. Outcome' = [Outcome EXCEPT ![m] = "answered"] BY <1>6, <2>1
  <2>5. Ledger!Answer(m) BY <1>2, <1>5, <2>3, <2>4 DEF Ledger!Answer
  <2> QED BY <2>5 DEF Ledger!Next
<1>8. CASE Ignored(q)
  <2>1. turn[q].at = "stale" /\ turn[q].ok = None /\ retries' = retries
    BY <1>4, <1>8 DEF Ignored, At, TypesInv, TurnsOK
  <2>2. ~Ledger!Stands(m) BY <1>3, <2>1, PipelineAssumption DEF Delivered
  <2>3. Outcome' = [Outcome EXCEPT ![m] = "ignored"] BY <1>6, <2>1
  <2>4. Ledger!Ignore(m) BY <1>2, <1>5, <2>1, <2>2, <2>3 DEF Ledger!Ignore
  <2> QED BY <2>4 DEF Ledger!Next
<1> QED BY <1>7, <1>8 DEF Commit

\* A turn that fails after its reply has come fails that reply.
LEMMA AbortLedgered ==
  ASSUME TypesInv, ClaimsInv, RepliesInv, SettledInv, NEW q \in Turns, Abort(q)
  PROVE  [Ledger!Next]_(Ledger!ledger)
<1>1. UNCHANGED <<settled, retries, sends, commits>> BY DEF Abort, Stored
<1>2. /\ lost' = [m \in Messages |-> IF Delivered(q, m) THEN lost[m] + 1 ELSE lost[m]]
      /\ lost \in [Messages -> Nat]
  BY DEF Abort, Delivered, TypesInv, TypeOK
<1>3. CASE \A m \in Messages : ~Delivered(q, m)
  <2>1. lost' = lost BY <1>2, <1>3
  <2> QED BY <1>1, <2>1 DEF Ledger!ledger
<1>4. ASSUME NEW m \in Messages, Delivered(q, m)
      PROVE  Ledger!Fail(m)
  <2>1. Claims(q, m)
    BY <1>4, PipelineAssumption DEF Delivered, Answers, Claims, TypesInv, TurnsOK
  <2>2. settled[m] = None /\ Ledger!Stands(m) BY <1>4, <2>1, ClaimedAccount
  <2>3. lost' = [lost EXCEPT ![m] = @ + 1]
    BY <1>2, <1>4 DEF Delivered, Answers
  <2> QED BY <1>1, <2>2, <2>3 DEF Ledger!Fail
<1> QED BY <1>3, <1>4 DEF Ledger!Next

LEMMA LedgerStep ==
  ASSUME TypesInv, ClaimsInv, RepliesInv, SettledInv, [Next]_vars
  PROVE  [Ledger!Next]_(Ledger!ledger)
<1>1. CASE UNCHANGED <<settled, commits, sends, lost, retries>>
  BY <1>1 DEF Ledger!ledger
<1>2. ASSUME NEW q \in Turns, Work(q)
      PROVE  [Ledger!Next]_(Ledger!ledger)
  <2>1. CASE Claim(q) \/ Load(q) \/ Switch(q) \/ Create(q) \/ Enter(q) \/ Spoken(q)
    BY <1>1, <2>1 DEF Claim, Load, Switch, Create, Enter, Spoken, Stored, Counted
  <2> QED BY <1>2, <2>1, ReplyLedgered, CommitLedgered DEF Work
<1>3. ASSUME NEW q \in Turns, Abort(q)
      PROVE  [Ledger!Next]_(Ledger!ledger)
  BY <1>3, AbortLedgered
<1>4. CASE \/ \E q \in Turns, m \in Messages : Deliver(q, m)
           \/ \E q \in Turns, s \in Sessions : SendMessage(q, s)
           \/ Tick \/ UNCHANGED vars
  BY <1>1, <1>4 DEF Deliver, SendMessage, Tick, vars, Stored, Counted
<1> QED BY <1>2, <1>3, <1>4 DEF Next

LEMMA LedgerInit == Init => Ledger!Init
BY DEF Init, Ledger!Init

\* The pipeline implements the ledger: whatever is delivered again, overlaps,
\* crashes or fails to send, one turn is made of a message, a reply comes again
\* only for a turn that failed, and an answer without one leaves one owed.
THEOREM ImplementsLedger == Spec => KeepsLedger
<1>1. TypesInv /\ ClaimsInv /\ RepliesInv /\ OrderInv /\ [Next]_vars
        => [Ledger!Next]_(Ledger!ledger)
  BY LedgerStep DEF OrderInv
<1> QED BY <1>1, LedgerInit, ClaimsInvariant, RepliesInvariant, OrderInvariant, PTL
        DEF Spec, KeepsLedger, Ledger!Spec


\* The ledger's account of one message, by its outcome, turns, replies, failed
\* ones, and whether a reply is owed.
Account(outcome, turns, replies, failed, owed) ==
  /\ replies \in {failed, failed + 1}
  /\ turns = IF outcome = None THEN 0 ELSE 1
  /\ outcome = "answered" => replies > failed \/ owed

Became(m) == IF settled[m] = None THEN None ELSE settled[m].as

LEMMA BalancedAccounts ==
  Ledger!Balanced <=>
    \A m \in Messages : Account(Became(m), commits[m], sends[m], lost[m], m \in retries)
BY DEF Ledger!Balanced, Ledger!Stands, Account, Became

\* The ledger's steps keep its accounts.
LEMMA BalancedStep ==
  ASSUME TypesInv, Ledger!Balanced, [Ledger!Next]_(Ledger!ledger)
  PROVE  Ledger!Balanced'
<1>1. ASSUME NEW n \in Messages
      PROVE  /\ sends[n] \in Nat /\ lost[n] \in Nat /\ commits[n] \in Nat
             /\ Account(Became(n), commits[n], sends[n], lost[n], n \in retries)
  BY BalancedAccounts DEF TypesInv, TypeOK
<1>2. /\ sends \in [Messages -> Nat] /\ lost \in [Messages -> Nat]
      /\ commits \in [Messages -> Nat]
  BY DEF TypesInv, TypeOK
<1>3. SUFFICES ASSUME NEW n \in Messages
               PROVE  Account(Became(n), commits[n], sends[n], lost[n], n \in retries)'
  BY DEF Ledger!Balanced, Ledger!Stands, Account, Became
<1>4. CASE UNCHANGED <<Became(n), commits[n], sends[n], lost[n], n \in retries>>
  BY <1>1, <1>4 DEF Account
<1>5. ASSUME NEW m \in Messages, Ledger!Reply(m) \/ Ledger!Fail(m)
      PROVE  Account(Became(n), commits[n], sends[n], lost[n], n \in retries)'
  <2>1. UNCHANGED <<Became(n), commits[n], n \in retries>> /\ Became(m) = None
    BY <1>5 DEF Ledger!Reply, Ledger!Fail, Became
  <2>2. CASE n # m
    BY <1>2, <1>4, <1>5, <2>1, <2>2 DEF Ledger!Reply, Ledger!Fail
  <2>3. CASE n = m
    BY <1>1, <1>2, <1>5, <2>1, <2>3, PipelineAssumption
    DEF Ledger!Reply, Ledger!Fail, Ledger!Stands, Account
  <2> QED BY <2>2, <2>3
<1>6. ASSUME NEW m \in Messages, Ledger!Answer(m) \/ Ledger!Ignore(m)
      PROVE  Account(Became(n), commits[n], sends[n], lost[n], n \in retries)'
  <2>1. UNCHANGED <<sends[n], lost[n]>> /\ Became(m) = None
    BY <1>6 DEF Ledger!Answer, Ledger!Ignore, Became
  <2>2. CASE n # m
    <3>1. UNCHANGED Became(n)
      BY <1>6, <2>2 DEF Ledger!Answer, Ledger!Ignore, Became
    <3>2. UNCHANGED <<commits[n], n \in retries>>
      BY <1>2, <1>6, <2>2 DEF Ledger!Answer, Ledger!Ignore
    <3> QED BY <1>4, <2>1, <3>1, <3>2
  <2>3. CASE n = m
    <3>1. Became(n)' \in {"answered", "ignored"} /\ commits'[n] = commits[n] + 1
      BY <1>2, <1>6, <2>3 DEF Ledger!Answer, Ledger!Ignore, Became
    <3>2. Became(n)' = "answered" => sends[n] > lost[n] \/ n \in retries'
      BY <1>6, <2>3 DEF Ledger!Answer, Ledger!Ignore, Ledger!Stands, Became
    <3> QED BY <1>1, <2>1, <2>3, <3>1, <3>2, PipelineAssumption DEF Account
  <2> QED BY <2>2, <2>3
<1>7. CASE UNCHANGED Ledger!ledger
  BY <1>4, <1>7 DEF Ledger!ledger, Became
<1> QED BY <1>5, <1>6, <1>7 DEF Ledger!Next

\* However often and however concurrently a message is delivered, one turn is
\* committed for it at most; it has one reply more than its lost turns sent, at
\* most; and once it is answered that one was sent or is queued for retry.
THEOREM LedgerIsBalanced == Spec => []Ledger!Balanced
<1>1. Init => Ledger!Balanced
  BY BalancedAccounts, PipelineAssumption DEF Init, Account, Became
<1>2. TypesInv /\ ClaimsInv /\ RepliesInv /\ OrderInv /\ [Next]_vars
        => (Ledger!Balanced => Ledger!Balanced')
  BY LedgerStep, BalancedStep DEF OrderInv
<1> QED BY <1>1, <1>2, ClaimsInvariant, RepliesInvariant, OrderInvariant, PTL DEF Spec

-----------------------------------------------------------------------------
(* The waits *)

\* A request that has inserted the session, or has its row for the channel, is past
\* the order check.
Later == {"ordered", "stale", "entered", "replied"}
Holds(r) == r.made \/ r.switched
HoldsInv == \A q \in Turns : Running(q) /\ Holds(turn[q]) => turn[q].at \in Later

LEMMA KeptHolds ==
  ASSUME TypesInv, HoldsInv, NEW q \in Turns, NEW r, Keep(q, r), Holds(r) => r.at \in Later
  PROVE  HoldsInv'
BY DEF HoldsInv, Keep, Running, TypesInv, TypeOK

LEMMA DroppedHolds ==
  ASSUME TypesInv, HoldsInv, NEW q \in Turns, Drop(q)
  PROVE  HoldsInv'
BY DEF HoldsInv, Drop, Running, TypesInv, TypeOK

LEMMA ComparedHolds ==
  ASSUME TypesInv, HoldsInv, NEW q \in Turns, Running(q), NEW seen, NEW made,
         NEW switched, Compared(q, seen, made, switched)
  PROVE  HoldsInv'
<1> DEFINE r == [turn[q] EXCEPT
                   !.at = IF OutOfOrder(turn[q].msg, seen) THEN "stale" ELSE "ordered",
                   !.made = made, !.switched = switched, !.seen = seen,
                   !.stamp = Stamp(turn[q].msg)]
<1>1. Keep(q, r) BY DEF Compared
<1>2. r.at \in Later BY RunningTurn DEF Turn, Later
<1> HIDE DEF r
<1> QED BY <1>1, <1>2, KeptHolds

LEMMA HoldsStep ==
  ASSUME TypesInv, HoldsInv, [Next]_vars
  PROVE  HoldsInv'
<1>1. ASSUME NEW q \in Turns, Running(q), NEW step,
             Keep(q, [turn[q] EXCEPT !.at = step]), Holds(turn[q]) => step \in Later
      PROVE  HoldsInv'
  <2>1. (Holds([turn[q] EXCEPT !.at = step]) <=> Holds(turn[q]))
        /\ [turn[q] EXCEPT !.at = step].at = step
    BY <1>1, RunningTurn DEF Turn, Holds
  <2> QED BY <1>1, <2>1, KeptHolds
<1>2. ASSUME NEW q \in Turns, Claim(q)
      PROVE  HoldsInv'
  <2>1. Running(q) /\ ~Holds(turn[q]) BY <1>2 DEF Claim, At, HoldsInv, Later
  <2> QED BY <1>1, <1>2, <2>1, DroppedHolds DEF Claim
<1>3. ASSUME NEW q \in Turns, Load(q)
      PROVE  HoldsInv'
  <2>1. Running(q) /\ ~Holds(turn[q]) BY <1>3 DEF Load, At, HoldsInv, Later
  <2>2. ASSUME NEW seen, Keep(q, [turn[q] EXCEPT !.at = "switching", !.seen = seen])
        PROVE  HoldsInv'
    <3>1. ~Holds([turn[q] EXCEPT !.at = "switching", !.seen = seen])
      BY <2>1, RunningTurn DEF Turn, Holds
    <3> QED BY <2>2, <3>1, KeptHolds
  <2> QED BY <1>1, <1>3, <2>1, <2>2, ComparedHolds DEF Load
<1>3a. ASSUME NEW q \in Turns, Switch(q)
       PROVE  HoldsInv'
  BY <1>3a, ComparedHolds DEF Switch, At
<1>4. ASSUME NEW q \in Turns, Create(q)
      PROVE  HoldsInv'
  BY <1>4, ComparedHolds, DroppedHolds DEF Create, At
<1>5. ASSUME NEW q \in Turns, Enter(q)
      PROVE  HoldsInv'
  BY <1>1, <1>5 DEF Enter, At, Later
<1>6. ASSUME NEW q \in Turns, NEW ok \in BOOLEAN, Reply(q, ok)
      PROVE  HoldsInv'
  <2> DEFINE r == [turn[q] EXCEPT !.at = "replied", !.ok = ok]
  <2>1. r.at \in Later BY <1>6, RunningTurn DEF Reply, At, Turn, Later
  <2>2. Keep(q, r) BY <1>6 DEF Reply
  <2> HIDE DEF r
  <2> QED BY <2>1, <2>2, KeptHolds
<1>7. ASSUME NEW q \in Turns, Commit(q) \/ Spoken(q) \/ Abort(q)
      PROVE  HoldsInv'
  BY <1>7, DroppedHolds DEF Commit, Spoken, Abort
<1>8. ASSUME NEW q \in Turns, NEW m \in Messages, Deliver(q, m)
      PROVE  HoldsInv'
  BY <1>8, KeptHolds DEF Deliver, Holds
<1>9. ASSUME NEW q \in Turns, NEW s \in Sessions, SendMessage(q, s)
      PROVE  HoldsInv'
  BY <1>9, KeptHolds DEF SendMessage, Holds
<1>10. CASE Tick \/ UNCHANGED vars
  BY <1>10 DEF Tick, vars, HoldsInv, Running
<1>11. ASSUME NEW q \in Turns, Work(q)
       PROVE  HoldsInv'
  BY <1>2, <1>3, <1>3a, <1>4, <1>5, <1>6, <1>7, <1>11 DEF Work
<1> QED BY <1>7, <1>8, <1>9, <1>10, <1>11 DEF Next

\* A request waits only for one that is further on, and for one that goes on if it
\* waits for the session row after the order check.
LEMMA WaitsForLater ==
  ASSUME TypesInv, HoldsInv, NEW q \in Turns, NEW p \in Turns, WaitsFor(q, p)
  PROVE  /\ Running(p) /\ turn[p].at \in Steps
         /\ turn[q].at \in {"received", "creating", "switching", "ordered"}
         /\ turn[q].at = "received" => turn[p].at # "received"
         /\ turn[q].at = "creating" => turn[p].at \in Later
         /\ turn[q].at \in {"switching", "ordered"} => HoldsRow(p)
         /\ ~HoldsRow(q)
<1>1. Running(p) BY DEF WaitsFor, Answers, HoldsRow, At
<1>2. turn[p].at \in Steps BY <1>1, RunningTurn DEF Turn
<1>3. CASE At(q, "received") /\ HasClaim(p)
  BY <1>1, <1>2, <1>3 DEF At, HasClaim, HoldsRow, HoldsInv, Holds, Later
<1>4. CASE At(q, "creating") /\ turn[p].made
  BY <1>1, <1>2, <1>4 DEF At, HoldsInv, HoldsRow, Holds, Later
<1>5. CASE /\ At(q, "switching") \/ (At(q, "ordered") /\ ~turn[q].switched)
           /\ HoldsRow(p)
  BY <1>1, <1>2, <1>5 DEF At, HoldsRow, HoldsInv, Holds, Later
<1> QED BY <1>3, <1>4, <1>5 DEF WaitsFor

\* Nobody waits in a circle: a request at the claim waits for one past it, one
\* that creates its client for one past the order check, and one at the session
\* row for the one that has it, which waits for nobody.
THEOREM WaitsAreFinite == Spec => []WaitsEnd
<1>1. Init => HoldsInv
  BY DEF Init, HoldsInv, Running
<1>2. TypesInv /\ HoldsInv /\ [Next]_vars => HoldsInv'
  BY HoldsStep
<1>3. ASSUME TypesInv, HoldsInv
      PROVE  WaitsEnd
  <2> USE <1>3
  <2>1. ASSUME NEW q \in Turns, Running(q)
        PROVE  GoesOn(q) \/ \E p \in Turns : WaitsFor(q, p)
    BY <2>1 DEF GoesOn, Granted
  <2>2. ASSUME NEW q \in Turns, HoldsRow(q)
        PROVE  GoesOn(q)
    BY <2>1, <2>2, WaitsForLater DEF HoldsRow
  <2>3. ASSUME NEW q \in Turns, Running(q), turn[q].at \in Later \union {"switching"}
        PROVE  GoesOn(q) \/ \E p \in Turns : WaitsFor(q, p) /\ GoesOn(p)
    BY <2>1, <2>2, <2>3, WaitsForLater DEF Later
  <2>4. ASSUME NEW q \in Turns, Running(q), turn[q].at # "received"
        PROVE  \/ GoesOn(q)
               \/ \E p \in Turns : WaitsFor(q, p) /\
                    \/ GoesOn(p)
                    \/ \E r \in Turns : WaitsFor(p, r) /\ GoesOn(r)
    <3>1. CASE turn[q].at \in Later \union {"switching"} BY <2>3, <2>4, <3>1
    <3>2. CASE turn[q].at = "claimed" BY <2>1, <2>4, <3>2, WaitsForLater
    <3>3. CASE turn[q].at = "creating" BY <2>1, <2>3, <2>4, <3>3, WaitsForLater
    <3> QED BY <2>4, <3>1, <3>2, <3>3, RunningTurn DEF Turn, Steps, Later
  <2>5. ASSUME NEW q \in Turns, Running(q), turn[q].at = "received", ~GoesOn(q)
        PROVE  \E p \in Turns : WaitsFor(q, p) /\
                 \/ GoesOn(p)
                 \/ \E r \in Turns : WaitsFor(p, r) /\
                      \/ GoesOn(r)
                      \/ \E o \in Turns : WaitsFor(r, o) /\ GoesOn(o)
    <3> PICK p \in Turns : WaitsFor(q, p) BY <2>1, <2>5
    <3>1. Running(p) /\ turn[p].at # "received" BY <2>5, WaitsForLater
    <3> QED BY <2>4, <3>1
  <2>6. ASSUME NEW q \in Turns, Running(q), turn[q].at # "received", ~GoesOn(q)
        PROVE  \E p \in Turns : WaitsFor(q, p) /\
                 \/ GoesOn(p)
                 \/ \E r \in Turns : WaitsFor(p, r) /\ GoesOn(r)
    BY <2>4, <2>6
  <2> QED BY <2>5, <2>6 DEF WaitsEnd
<1> QED BY <1>1, <1>2, <1>3, ClaimsInvariant, PTL DEF Spec


=============================================================================
