-------------------------- MODULE EventStreamProofs --------------------------
(***************************************************************************)
(* The safety properties of EventStream, for any clients, subjects, length *)
(* of the history and bounds.                                              *)
(***************************************************************************)
EXTENDS EventStream, TLAPS

-----------------------------------------------------------------------------
(* Types *)

\* The audience of a client is a set of subjects, and its view counts changes.
LEMMA FollowsTyped ==
  ASSUME NEW c \in Clients
  PROVE  Follows[c] \subseteq Subjects
BY StreamAssumption

\* A panel loads some of what it is told of.
LEMMA LoadedTyped ==
  ASSUME NEW c \in Clients
  PROVE  Loaded(c) \subseteq Follows[c] /\ Loaded(c) \subseteq Subjects
BY FollowsTyped DEF Loaded

LEMMA SeenTyped ==
  ASSUME TypeOK, NEW c \in Clients
  PROVE  Seen(c) \in View
BY DEF TypeOK, Seen, View

LEMMA TypesStep ==
  ASSUME TypeOK, [Next]_vars
  PROVE  TypeOK'
<1> USE DEF TypeOK, server, stream, page, aux, Ids
<1>1. ASSUME NEW s \in Subjects, Change(s)
      PROVE  TypeOK'
  <2>1. log' = Append(log, s) /\ Len(log') = Len(log) + 1 /\ Len(log) \in Nat
        /\ log' \in Seq(Subjects)
    BY <1>1 DEF Change
  <2>2. Ids \subseteq Ids' /\ Len(log) + 1 \in Ids'
    BY <2>1
  <2>3. pending' \in [Clients -> SUBSET Ids'] /\ gap' \in [Clients -> SUBSET Ids']
    BY <1>1, <2>2 DEF Change
  <2>4. open' \subseteq Subjects /\ heard' \in [Clients -> SUBSET Ids']
    BY <1>1, <2>2 DEF Change
  <2> QED BY <1>1, <2>1, <2>3, <2>4 DEF Change
<1>2. ASSUME NEW s \in Subjects, End(s)
      PROVE  TypeOK'
  <2>1. CASE Commit(s)
    <3>1. stored' \in [Subjects -> Nat]
      <4>1. stored \in [Subjects -> Nat] BY DEF View
      <4> QED BY <2>1, <4>1 DEF Commit
    <3>2. open' \subseteq Subjects BY <2>1 DEF Commit
    <3> QED BY <2>1, <3>1, <3>2 DEF Commit, View
  <2>2. CASE Rollback(s)
    BY <2>2 DEF Rollback
  <2> QED BY <1>2, <2>1, <2>2 DEF End
<1>3. ASSUME NEW c \in Clients, Connect(c)
      PROVE  TypeOK'
  <2>1. pending' \in [Clients -> SUBSET Ids] /\ gap' \in [Clients -> SUBSET Ids]
    BY <1>3 DEF Connect, Meant, HistorySince, Kept
  <2> QED BY <1>3, <2>1 DEF Connect
<1>4. ASSUME NEW c \in Clients, Subscribe(c)
      PROVE  TypeOK'
  BY <1>4 DEF Subscribe
<1>5. ASSUME NEW c \in Clients, NEW i \in pending[c], Receive(c, i)
      PROVE  TypeOK'
  <2>1. i \in Ids /\ i \in Nat OBVIOUS
  <2>2. asked' \in [Clients -> Nat] BY <1>5 DEF Receive, Refetches
  <2> QED BY <1>5, <2>1, <2>2 DEF Receive
<1>6. ASSUME NEW c \in Clients, Answer(c)
      PROVE  TypeOK'
  <2>1. asked' \in [Clients -> Nat] BY <1>6 DEF Answer
  <2>2. answers' \in [Clients -> SUBSET View] BY <1>6, SeenTyped DEF Answer
  <2> QED BY <1>6, <2>1, <2>2 DEF Answer
<1>7. ASSUME NEW c \in Clients, NEW view \in answers[c], Show(c, view)
      PROVE  TypeOK'
  <2>1. screen' \in [Clients -> View] /\ answers' \in [Clients -> SUBSET View]
    BY <1>7 DEF Show, View
  <2>2. late' \in [Clients -> SUBSET Subjects] BY <1>7, LoadedTyped DEF Show
  <2> QED BY <1>7, <2>1, <2>2 DEF Show
<1>8. ASSUME NEW c \in Clients, NEW all \in BOOLEAN, Break(c, all)
      PROVE  TypeOK'
  <2>1. asked' \in [Clients -> Nat] BY <1>8 DEF Break
  <2>2. late' \in [Clients -> SUBSET Subjects]
    BY <1>8, LoadedTyped DEF Break, Unanswered
  <2>3. breaks' \in Nat BY <1>8 DEF Break
  <2> QED BY <1>8, <2>1, <2>2, <2>3 DEF Break
<1>9. CASE Restart
  <2>1. late' \in [Clients -> SUBSET Subjects]
    <3>1. ASSUME NEW c \in Clients
          PROVE  Unanswered(c)
                   \union ({log[i] : i \in Meant(c) \ heard[c]} \intersect Sections)
                   \subseteq Subjects
      BY LoadedTyped, StreamAssumption DEF Unanswered
    <3> QED BY <1>9, <3>1 DEF Restart
  <2>2. log' \in Seq(Subjects) /\ breaks' \in Nat BY <1>9 DEF Restart
  <2>3. old' \subseteq Clients BY <1>9 DEF Restart
  <2> QED BY <1>9, <2>1, <2>2, <2>3 DEF Restart, Queues
<1>10. CASE UNCHANGED vars
  BY <1>10 DEF vars
<1>11. ASSUME NEW c \in Clients, Reload(c)
       PROVE  TypeOK'
  <2>1. screen' \in [Clients -> View]
    BY <1>11 DEF Reload, View
  <2> QED BY <1>11, <2>1 DEF Reload
<1> QED
  BY <1>1, <1>2, <1>3, <1>4, <1>5, <1>6, <1>7, <1>8, <1>9, <1>10, <1>11 DEF Next, Panel

\* Every variable of the server, the streams and the panels keeps its type, and
\* only what the server published in this life is on its way.
THEOREM TypeCorrect == Spec => []TypeOK
<1>1. Init => TypeOK
  BY DEF Init, TypeOK, Ids, View
<1>2. TypeOK /\ [Next]_vars => TypeOK'
  BY TypesStep
<1> QED BY <1>1, <1>2, PTL DEF Spec

-----------------------------------------------------------------------------
(* What is on its way *)

\* A client whose Last-Event-ID is of this life of the server.
Fresh(c) == c \notin old /\ last[c] # None

\* What is on its way to a client has not been heard and follows lastEventId;
\* whatever does not follow it has been heard or is excused; and a client whose
\* lastEventId is of an earlier life has heard nothing in this one.
StreamOK(c) ==
  /\ pending[c] \subseteq Meant(c) \ heard[c]
  /\ phase[c] = "off" => pending[c] = {}
  /\ phase[c] # "off" => Meant(c) \subseteq heard[c] \union pending[c] \union gap[c]
  /\ c \in old => last[c] # None
  /\ ~Fresh(c) => heard[c] = {}
  /\ Fresh(c) =>
       /\ last[c] \in Ids
       /\ \A i \in heard[c] : i <= last[c]
       /\ \A i \in pending[c] : i > last[c]
       /\ \A i \in Meant(c) : i <= last[c] => i \in heard[c] \union gap[c]

StreamInv == TypeOK /\ \A c \in Clients : StreamOK(c)

LEMMA LastTyped ==
  ASSUME TypeOK, NEW c \in Clients
  PROVE  /\ last[c] # None => last[c] \in Nat
         /\ Ids \subseteq Nat /\ Len(log) \in Nat
BY StreamAssumption DEF TypeOK, Ids

\* A client that an action says nothing about.
LEMMA StreamKept ==
  ASSUME StreamInv, NEW c \in Clients,
         log' = log, phase'[c] = phase[c], pending'[c] = pending[c],
         last'[c] = last[c], heard'[c] = heard[c], gap'[c] = gap[c],
         c \in old' <=> c \in old
  PROVE  StreamOK(c)'
<1>1. Ids' = Ids /\ Meant(c)' = Meant(c) BY DEF Ids, Meant
<1> QED BY <1>1 DEF StreamInv, StreamOK, Fresh

LEMMA StreamChange ==
  ASSUME StreamInv, NEW s \in Subjects, Change(s), NEW c \in Clients
  PROVE  StreamOK(c)'
<1> DEFINE i == Len(log) + 1
<1> USE DEF StreamInv
<1>1. /\ log' = Append(log, s) /\ Len(log) \in Nat /\ Len(log') = i /\ i \in Nat
      /\ i \notin Ids
  BY DEF TypeOK, Change, Ids
<1>2. Ids' = Ids \union {i} /\ \A j \in Ids : log'[j] = log[j]
  BY <1>1 DEF TypeOK, Ids
<1>3. log'[i] = s
  BY <1>1 DEF TypeOK
<1>4. Meant(c)' = IF s \in Follows[c] THEN Meant(c) \union {i} ELSE Meant(c)
  BY <1>1, <1>2, <1>3 DEF Meant
<1>5. pending'[c] = IF s \in Follows[c] /\ phase[c] = "live"
                    THEN pending[c] \union {i} ELSE pending[c]
  BY DEF Change, TypeOK, Visible, Subscribed
<1>6. gap'[c] = IF s \in Follows[c] /\ phase[c] = "replay"
                THEN gap[c] \union {i} ELSE gap[c]
  BY DEF Change, TypeOK
<1>7. /\ phase' = phase /\ last' = last /\ heard' = heard /\ old' = old
      /\ phase[c] \in {"off", "replay", "live"}
      /\ heard[c] \subseteq Ids
  BY DEF Change, TypeOK
<1>8. Fresh(c)' <=> Fresh(c) BY <1>7 DEF Fresh
<1>9. StreamOK(c) OBVIOUS
<1>10. Fresh(c) => last[c] \in Ids /\ last[c] < i
  BY <1>1, <1>9, LastTyped DEF StreamOK, Ids
<1>11. pending'[c] \subseteq Meant(c)' \ heard'[c]
  BY <1>1, <1>4, <1>5, <1>7, <1>9 DEF StreamOK
<1>12. phase'[c] # "off" =>
         Meant(c)' \subseteq heard'[c] \union pending'[c] \union gap'[c]
  BY <1>4, <1>5, <1>6, <1>7, <1>9 DEF StreamOK
<1>13. Fresh(c) => /\ last'[c] \in Ids'
                   /\ \A j \in pending'[c] : j > last'[c]
  BY <1>1, <1>2, <1>5, <1>7, <1>9, <1>10, LastTyped DEF StreamOK
<1>14. Fresh(c) => \A j \in Meant(c)' : j <= last'[c] => j \in heard'[c] \union gap'[c]
  BY <1>1, <1>4, <1>6, <1>7, <1>9, <1>10, LastTyped DEF StreamOK
<1> HIDE DEF i
<1> QED BY <1>5, <1>7, <1>8, <1>9, <1>11, <1>12, <1>13, <1>14 DEF StreamOK

LEMMA StreamConnect ==
  ASSUME StreamInv, NEW c \in Clients, Connect(c)
  PROVE  StreamOK(c)'
<1> USE DEF StreamInv
<1>1. /\ log' = log /\ last' = last /\ heard' = heard /\ old' = old
      /\ phase'[c] = "replay"
      /\ pending'[c] = {i \in HistorySince(last[c]) : Visible(c, log[i])}
      /\ gap'[c] = gap[c] \union {i \in Meant(c) \ heard[c] :
                     i \notin Kept \/ (c \in old /\ i <= last[c])}
  BY DEF Connect, server, page, TypeOK
<1>2. Ids' = Ids /\ Meant(c)' = Meant(c) /\ (Fresh(c)' <=> Fresh(c))
  BY <1>1 DEF Ids, Meant, Fresh
<1>3. StreamOK(c) OBVIOUS
<1>4. pending'[c] = {i \in Meant(c) \intersect Kept : last[c] = None \/ i > last[c]}
  BY <1>1 DEF HistorySince, Kept, Visible, Meant
<1>5. pending'[c] \subseteq Meant(c) \ heard[c]
  BY <1>3, <1>4, LastTyped DEF StreamOK, Fresh, Meant
<1>6. Meant(c) \subseteq heard[c] \union pending'[c] \union gap'[c]
  <2> SUFFICES ASSUME NEW i \in Meant(c), i \notin heard[c], i \notin pending'[c]
               PROVE  i \in gap'[c]
    OBVIOUS
  <2>1. i \in Ids /\ i \in Nat BY LastTyped DEF Meant
  <2>2. CASE i \notin Kept BY <1>1, <2>2
  <2>3. CASE i \in Kept
    <3>1. last[c] # None /\ last[c] \in Nat /\ i <= last[c]
      BY <1>4, <2>1, <2>3, LastTyped
    <3>2. CASE c \in old BY <1>1, <3>1, <3>2
    <3>3. CASE Fresh(c) BY <1>1, <1>3, <3>1, <3>3 DEF StreamOK
    <3> QED BY <3>1, <3>2, <3>3 DEF Fresh
  <2> QED BY <2>2, <2>3
<1>7. Fresh(c) => \A i \in pending'[c] : i > last[c]
  BY <1>4 DEF Fresh
<1> QED BY <1>1, <1>2, <1>3, <1>5, <1>6, <1>7 DEF StreamOK

LEMMA StreamReceive ==
  ASSUME StreamInv, NEW c \in Clients, NEW i \in pending[c], Receive(c, i)
  PROVE  /\ StreamOK(c)'
         /\ Fresh(c) => last'[c] > last[c]
<1> USE DEF StreamInv
<1>1. /\ log' = log /\ phase' = phase
      /\ pending'[c] = pending[c] \ {i} /\ last'[c] = i
      /\ heard'[c] = heard[c] \union {i} /\ gap'[c] = gap[c] \ {i}
      /\ c \notin old' /\ \A j \in pending[c] : i <= j
  BY DEF Receive, Oldest, TypeOK, server
<1>2. Ids' = Ids /\ Meant(c)' = Meant(c) BY <1>1 DEF Ids, Meant
<1>3. StreamOK(c) OBVIOUS
<1>4. i \in Meant(c) /\ i \in Ids /\ i \in Nat /\ i \notin heard[c]
  BY <1>3, LastTyped DEF StreamOK, Meant
<1>5. Fresh(c)'
  BY <1>1, <1>4, StreamAssumption DEF Fresh
<1>6. phase[c] # "off" /\ Meant(c) \subseteq heard[c] \union pending[c] \union gap[c]
  BY <1>3 DEF StreamOK
<1>7. \A j \in heard'[c] : j <= i
  <2>1. Fresh(c) => \A j \in heard[c] : j <= i
    BY <1>3, <1>4, LastTyped DEF StreamOK, Fresh, TypeOK
  <2> QED BY <1>1, <1>3, <1>4, <2>1 DEF StreamOK
<1>8. \A j \in pending'[c] : j > i
  <2> SUFFICES ASSUME NEW j \in pending'[c] PROVE j > i
    OBVIOUS
  <2>1. j \in Ids /\ j \in Nat BY <1>1, <1>3, LastTyped DEF StreamOK, Meant
  <2> QED BY <1>1, <1>4, <2>1
<1>9. \A j \in Meant(c) : j <= i => j \in heard'[c] \union gap'[c]
  <2> SUFFICES ASSUME NEW j \in Meant(c), j <= i
               PROVE  j \in heard'[c] \union gap'[c]
    OBVIOUS
  <2>1. j \in Nat BY LastTyped DEF Meant
  <2>2. j \notin pending'[c] BY <1>4, <1>8, <2>1
  <2> QED BY <1>1, <1>6, <2>2
<1>10. StreamOK(c)'
  <2>1. pending'[c] \subseteq Meant(c)' \ heard'[c]
    BY <1>1, <1>2, <1>3 DEF StreamOK
  <2>2. Meant(c)' \subseteq heard'[c] \union pending'[c] \union gap'[c]
    BY <1>1, <1>2, <1>6
  <2>3. phase'[c] # "off" BY <1>1, <1>6
  <2>4. /\ last'[c] \in Ids'
        /\ \A j \in heard'[c] : j <= last'[c]
        /\ \A j \in pending'[c] : j > last'[c]
        /\ \A j \in Meant(c)' : j <= last'[c] => j \in heard'[c] \union gap'[c]
    BY <1>1, <1>2, <1>4, <1>7, <1>8, <1>9
  <2> QED BY <1>1, <1>5, <2>1, <2>2, <2>3, <2>4 DEF StreamOK
<1>11. Fresh(c) => last'[c] > last[c]
  BY <1>1, <1>3 DEF StreamOK
<1> QED BY <1>10, <1>11

LEMMA StreamRestart ==
  ASSUME StreamInv, Restart, NEW c \in Clients
  PROVE  StreamOK(c)'
<1>1. /\ log' = <<>> /\ phase'[c] = "off" /\ pending'[c] = {} /\ heard'[c] = {}
      /\ last' = last /\ old' = {d \in Clients : last[d] # None}
  BY DEF Restart, Queues
<1>2. ~Fresh(c)' BY <1>1 DEF Fresh
<1> QED BY <1>1, <1>2 DEF StreamOK

LEMMA StreamStep ==
  ASSUME StreamInv, [Next]_vars
  PROVE  StreamInv'
<1> SUFFICES ASSUME NEW c \in Clients PROVE StreamOK(c)'
  BY TypesStep DEF StreamInv
<1> USE DEF server, stream, page, aux
<1>1. ASSUME NEW s \in Subjects, Change(s)
      PROVE  StreamOK(c)'
  BY <1>1, StreamChange
<1>2. ASSUME NEW s \in Subjects, End(s)
      PROVE  StreamOK(c)'
  BY <1>2, StreamKept DEF End, Commit, Rollback
<1>3. ASSUME NEW d \in Clients, Connect(d)
      PROVE  StreamOK(c)'
  <2>1. d # c => StreamOK(c)'
    BY <1>3, StreamKept DEF Connect, StreamInv, TypeOK
  <2> QED BY <1>3, <2>1, StreamConnect
<1>4. ASSUME NEW d \in Clients, Subscribe(d)
      PROVE  StreamOK(c)'
  <2>1. d # c => StreamOK(c)'
    BY <1>4, StreamKept DEF Subscribe, StreamInv, TypeOK
  <2>2. d = c => StreamOK(c)'
    <3>1. d = c => phase[c] = "replay" /\ phase'[c] = "live"
      BY <1>4 DEF Subscribe, StreamInv, TypeOK
    <3>2. Ids' = Ids /\ Meant(c)' = Meant(c) /\ (Fresh(c)' <=> Fresh(c))
      BY <1>4 DEF Subscribe, Ids, Meant, Fresh
    <3> QED BY <1>4, <3>1, <3>2 DEF Subscribe, StreamInv, StreamOK
  <2> QED BY <2>1, <2>2
<1>5. ASSUME NEW d \in Clients, NEW i \in pending[d], Receive(d, i)
      PROVE  StreamOK(c)'
  <2>1. d # c => StreamOK(c)'
    BY <1>5, StreamKept DEF Receive, StreamInv, TypeOK
  <2> QED BY <1>5, <2>1, StreamReceive
<1>6. ASSUME NEW d \in Clients, Answer(d)
      PROVE  StreamOK(c)'
  BY <1>6, StreamKept DEF Answer
<1>7. ASSUME NEW d \in Clients, NEW view \in answers[d], Show(d, view)
      PROVE  StreamOK(c)'
  BY <1>7, StreamKept DEF Show
<1>8. ASSUME NEW d \in Clients, NEW all \in BOOLEAN, Break(d, all)
      PROVE  StreamOK(c)'
  <2>1. d # c => StreamOK(c)'
    BY <1>8, StreamKept DEF Break, StreamInv, TypeOK
  <2>2. d = c => StreamOK(c)'
    <3>1. d = c => phase'[c] = "off" /\ pending'[c] = {}
      BY <1>8 DEF Break, StreamInv, TypeOK
    <3>2. Ids' = Ids /\ Meant(c)' = Meant(c) /\ (Fresh(c)' <=> Fresh(c))
      BY <1>8 DEF Break, Ids, Meant, Fresh
    <3> QED BY <1>8, <3>1, <3>2 DEF Break, StreamInv, StreamOK
  <2> QED BY <2>1, <2>2
<1>9. CASE Restart
  BY <1>9, StreamRestart
<1>10. CASE UNCHANGED vars
  BY <1>10, StreamKept DEF vars
<1>11. ASSUME NEW d \in Clients, Reload(d)
       PROVE  StreamOK(c)'
  BY <1>11, StreamKept DEF Reload
<1> QED
  BY <1>1, <1>2, <1>3, <1>4, <1>5, <1>6, <1>7, <1>8, <1>9, <1>10, <1>11 DEF Next, Panel

LEMMA StreamInit ==
  ASSUME Init
  PROVE  StreamInv
<1>1. TypeOK BY DEF Init, TypeOK, Ids, View
<1> QED BY <1>1 DEF Init, StreamInv, StreamOK, Fresh

THEOREM StreamInvariant == Spec => []StreamInv
BY StreamInit, StreamStep, PTL DEF Spec

\* Nothing a client should be shown is lost without an excuse, for as long as
\* its stream is open and through all reconnections.
THEOREM NothingLostProof == Spec => []NothingLost
<1>1. StreamInv => NothingLost BY DEF StreamInv, StreamOK, NothingLost
<1> QED BY <1>1, StreamInvariant, PTL

\* No event is put on its way to a client twice, and none that it may not see.
THEOREM NoRepeatProof == Spec => []NoRepeat
<1>1. StreamInv => NoRepeat BY DEF StreamInv, StreamOK, NoRepeat
<1> QED BY <1>1, StreamInvariant, PTL

\* Within a life of the server a client hears events in the order of their
\* publication, also across reconnections.
THEOREM InOrderProof == Spec => InOrder
<1> DEFINE Ordered(c) == heard'[c] # heard[c] /\ c \notin old /\ last[c] # None
                         /\ log' = log => last'[c] > last[c]
<1>1. ASSUME StreamInv, [Next]_vars, NEW c \in Clients
      PROVE  Ordered(c)
  <2> USE <1>1 DEF server, stream, page, aux
  <2>1. ASSUME NEW i \in pending[c], Receive(c, i)
        PROVE  Ordered(c)
    BY <2>1, StreamReceive DEF Fresh
  <2>2. ASSUME NEW d \in Clients, NEW i \in pending[d], Receive(d, i), d # c
        PROVE  heard'[c] = heard[c]
    BY <2>2 DEF Receive, StreamInv, TypeOK
  <2>3. CASE Restart
    <3>1. log' = log => heard'[c] = heard[c]
      BY <2>3 DEF Restart, StreamInv, TypeOK, Ids
    <3> QED BY <3>1
  <2>4. ASSUME \A d \in Clients : \A i \in pending[d] : ~Receive(d, i), ~Restart
        PROVE  heard' = heard
    BY <2>4 DEF Next, Change, End, Commit, Rollback, Panel, Connect, Subscribe,
                Answer, Show, Reload, Break, vars
  <2> QED BY <2>1, <2>2, <2>3, <2>4
<1>2. StreamInv /\ [Next]_vars =>
        [\A c \in Clients : Ordered(c)]_vars
  BY <1>1
<1> QED BY <1>2, StreamInvariant, PTL DEF Spec, InOrder

-----------------------------------------------------------------------------
(* What a panel shows *)

\* An event about s that the client has still to hear.
Unheard(c, s) == \E i \in Meant(c) \ heard[c] : log[i] = s

\* If a section on the screen is not right, something will make it right or is
\* excused; and a change of one that is not committed yet is sure to be announced
\* or asked for later.
ShownOK(c) ==
  /\ \A view \in answers[c], s \in Subjects : view[s] <= stored[s]
  /\ \A s \in Loaded(c) :
       \/ s \in late[c] \/ Unheard(c, s) \/ asked[c] > 0
       \/ \E view \in answers[c] : view[s] = stored[s]
       \/ screen[c][s] = stored[s]
  /\ \A s \in Loaded(c) \intersect open :
       s \in late[c] \/ Unheard(c, s) \/ asked[c] > 0

ShownInv == StreamInv /\ \A c \in Clients : ShownOK(c)

\* A client's side of an action that leaves its requests alone, and the sections
\* on its screen.
LEMMA ShownKept ==
  ASSUME ShownInv, NEW c \in Clients,
         stored' = stored, open' \subseteq open, log' = log,
         heard'[c] = heard[c], asked'[c] = asked[c], answers'[c] = answers[c],
         \A s \in Loaded(c) : screen'[c][s] = screen[c][s], late'[c] = late[c]
  PROVE  ShownOK(c)'
<1>1. Meant(c)' = Meant(c) BY DEF Ids, Meant
<1>2. \A s : Unheard(c, s)' <=> Unheard(c, s) BY <1>1 DEF Unheard
<1> QED BY <1>2 DEF ShownInv, ShownOK

LEMMA ShownChange ==
  ASSUME ShownInv, NEW s \in Subjects, Change(s), NEW c \in Clients
  PROVE  ShownOK(c)'
<1> DEFINE i == Len(log) + 1
<1> USE DEF ShownInv, StreamInv
<1>1. /\ log' = Append(log, s) /\ Len(log') = i /\ Len(log) \in Nat
      /\ open' = open \union {s} /\ stored' = stored
      /\ asked' = asked /\ answers' = answers /\ screen' = screen
      /\ heard' = heard /\ late' = late
  BY DEF Change, TypeOK, page
<1>2. i \notin Ids /\ Ids' = Ids \union {i} /\ (\A j \in Ids : log'[j] = log[j])
      /\ log'[i] = s
  BY <1>1 DEF TypeOK, Ids
<1>3. ASSUME NEW r, Unheard(c, r) PROVE Unheard(c, r)'
  BY <1>1, <1>2, <1>3 DEF Unheard, Meant
<1>4. s \in Follows[c] => Unheard(c, s)'
  <2>1. heard'[c] \subseteq Ids BY <1>1 DEF TypeOK
  <2> QED BY <1>2, <2>1 DEF Unheard, Meant
<1>5. Loaded(c) \subseteq Follows[c] BY LoadedTyped
<1> HIDE DEF i
<1> QED BY <1>1, <1>3, <1>4, <1>5 DEF ShownOK

LEMMA ShownCommit ==
  ASSUME ShownInv, NEW s \in Subjects, Commit(s), NEW c \in Clients
  PROVE  ShownOK(c)'
<1> USE DEF ShownInv, StreamInv
<1>1. /\ log' = log /\ heard' = heard /\ asked' = asked /\ answers' = answers
      /\ screen' = screen /\ late' = late /\ open' = open \ {s} /\ s \in open
  BY DEF Commit, stream, page, aux
<1>2. stored \in [Subjects -> Nat] /\ stored' = [stored EXCEPT ![s] = @ + 1]
  BY DEF Commit, TypeOK, View
<1>3. Meant(c)' = Meant(c) /\ (\A r : Unheard(c, r)' <=> Unheard(c, r))
  BY <1>1 DEF Unheard, Meant, Ids
<1>4. ASSUME NEW view \in answers[c], NEW r \in Subjects
      PROVE  view[r] <= stored'[r]
  <2>1. view[r] \in Nat BY DEF TypeOK, View
  <2>2. view[r] <= stored[r] BY DEF ShownOK
  <2> QED BY <1>2, <2>1, <2>2
<1>5. \A r \in Subjects : r # s => stored'[r] = stored[r]
  BY <1>2
<1>6. Loaded(c) \subseteq Subjects BY LoadedTyped
<1> QED BY <1>1, <1>3, <1>4, <1>5, <1>6 DEF ShownOK

LEMMA ShownReceive ==
  ASSUME ShownInv, NEW c \in Clients, NEW i \in pending[c], Receive(c, i)
  PROVE  ShownOK(c)'
<1> USE DEF ShownInv, StreamInv
<1>1. /\ stored' = stored /\ open' = open /\ log' = log
      /\ answers' = answers /\ screen' = screen /\ late' = late
      /\ heard'[c] = heard[c] \union {i}
      /\ asked[c] \in Nat
      /\ asked'[c] = IF log[i] \in Sections THEN asked[c] + 1 ELSE asked[c]
  BY DEF Receive, Refetches, server, TypeOK
<1>2. asked[c] > 0 => asked'[c] > 0
  BY <1>1
<1>3. ASSUME NEW s \in Loaded(c), Unheard(c, s)
      PROVE  Unheard(c, s)' \/ asked'[c] > 0
  <2>1. Meant(c)' = Meant(c) BY <1>1 DEF Meant, Ids
  <2>2. PICK j \in Meant(c) \ heard[c] : log[j] = s
    BY <1>3 DEF Unheard
  <2>3. CASE j = i
    <3>1. log[i] \in Sections BY <2>2, <2>3 DEF Loaded
    <3> QED BY <1>1, <3>1
  <2>4. CASE j # i
    BY <1>1, <2>1, <2>2, <2>4 DEF Unheard
  <2> QED BY <2>3, <2>4
<1>4. ShownOK(c) OBVIOUS
<1> QED BY <1>1, <1>2, <1>3, <1>4 DEF ShownOK

LEMMA ShownAnswer ==
  ASSUME ShownInv, NEW c \in Clients, Answer(c)
  PROVE  ShownOK(c)'
<1> USE DEF ShownInv, StreamInv
<1>1. /\ stored' = stored /\ open' = open /\ log' = log /\ heard' = heard
      /\ screen' = screen
      /\ answers'[c] = answers[c] \union {Seen(c)}
      /\ late'[c] = late[c] \union (open \intersect Loaded(c))
  BY DEF Answer, server, stream, TypeOK
<1>2. \A s \in Loaded(c) : Seen(c)[s] = stored[s]
  BY LoadedTyped DEF Seen
<1>3. \A s \in Subjects : Seen(c)[s] <= stored[s]
  BY DEF Seen, TypeOK, View
<1> QED BY <1>1, <1>2, <1>3 DEF ShownOK

LEMMA ShownShow ==
  ASSUME ShownInv, NEW c \in Clients, NEW view \in answers[c], Show(c, view)
  PROVE  ShownOK(c)'
<1> USE DEF ShownInv, StreamInv
<1>1. /\ stored' = stored /\ open' = open /\ log' = log /\ heard' = heard
      /\ asked' = asked /\ answers'[c] = answers[c] \ {view}
      /\ \A s \in Loaded(c) : screen'[c][s] = view[s]
      /\ late'[c] = (late[c] \union {s \in Loaded(c) : view[s] < screen[c][s]})
                      \ {s \in Loaded(c) \ open : view[s] = stored[s]}
  BY LoadedTyped DEF Show, server, stream, TypeOK
<1>2. \A s : Unheard(c, s)' <=> Unheard(c, s)
  BY <1>1 DEF Unheard, Meant, Ids
<1>3. ShownOK(c) /\ Loaded(c) \subseteq Subjects BY LoadedTyped
<1>4. \A s \in Subjects : view[s] \in Nat /\ screen[c][s] \in Nat /\ stored[s] \in Nat
                          /\ view[s] <= stored[s]
  BY <1>3 DEF TypeOK, View, ShownOK
<1>5. ASSUME NEW s \in Loaded(c)
      PROVE  \/ s \in late'[c] \/ Unheard(c, s)' \/ asked'[c] > 0
             \/ \E other \in answers'[c] : other[s] = stored'[s]
             \/ screen'[c][s] = stored'[s]
  <2>1. CASE view[s] = stored[s] BY <1>1, <2>1
  <2>2. CASE view[s] # stored[s] /\ s \in late[c] BY <1>1, <1>3, <2>2
  <2>3. CASE view[s] # stored[s] /\ (Unheard(c, s) \/ asked[c] > 0)
    BY <1>1, <1>2, <2>3
  <2>4. CASE view[s] # stored[s] /\ \E other \in answers[c] : other[s] = stored[s]
    BY <1>1, <2>4
  <2>5. CASE view[s] # stored[s] /\ screen[c][s] = stored[s]
    <3>1. view[s] < screen[c][s] BY <1>3, <1>4, <2>5
    <3> QED BY <1>1, <1>3, <2>5, <3>1
  <2> QED BY <1>3, <2>1, <2>2, <2>3, <2>4, <2>5 DEF ShownOK
<1>6. ASSUME NEW s \in Loaded(c) \intersect open
      PROVE  s \in late'[c] \/ Unheard(c, s)' \/ asked'[c] > 0
  BY <1>1, <1>2, <1>3 DEF ShownOK
<1>7. \A other \in answers'[c], s \in Subjects : other[s] <= stored'[s]
  BY <1>1, <1>3 DEF ShownOK
<1> QED BY <1>1, <1>5, <1>6, <1>7 DEF ShownOK

\* A request that fails counts as one that came too late.
LEMMA ShownBreak ==
  ASSUME ShownInv, NEW c \in Clients, NEW all \in BOOLEAN, Break(c, all)
  PROVE  ShownOK(c)'
<1> USE DEF ShownInv, StreamInv
<1>1. /\ stored' = stored /\ open' = open /\ log' = log /\ heard' = heard
      /\ screen' = screen /\ answers' = answers
  BY DEF Break, server
<1>2. CASE all
  <2>1. late'[c] = late[c] \union (IF asked[c] > 0 THEN Loaded(c) ELSE {})
    BY <1>2 DEF Break, TypeOK, Unanswered
  <2>2. \A s : Unheard(c, s)' <=> Unheard(c, s)
    BY <1>1 DEF Unheard, Meant, Ids
  <2> QED BY <1>1, <2>1, <2>2 DEF ShownOK
<1>3. CASE ~all
  BY <1>1, <1>3, ShownKept DEF Break
<1> QED BY <1>2, <1>3

LEMMA ShownRestart ==
  ASSUME ShownInv, Restart, NEW c \in Clients
  PROVE  ShownOK(c)'
<1> USE DEF ShownInv, StreamInv
<1>1. /\ stored' = stored /\ open' = {} /\ screen' = screen /\ answers' = answers
      /\ late'[c] = late[c] \union Unanswered(c)
                      \union ({log[i] : i \in Meant(c) \ heard[c]} \intersect Sections)
  BY DEF Restart
<1>2. \A s \in Loaded(c) : Unheard(c, s) => s \in late'[c]
  BY <1>1 DEF Unheard, Loaded
<1>3. asked[c] > 0 => Loaded(c) \subseteq late'[c]
  BY <1>1 DEF Unanswered
<1> QED BY <1>1, <1>2, <1>3 DEF ShownOK

LEMMA ShownStep ==
  ASSUME ShownInv, [Next]_vars
  PROVE  ShownInv'
<1> SUFFICES ASSUME NEW c \in Clients PROVE ShownOK(c)'
  BY StreamStep DEF ShownInv
<1> USE DEF server, stream, page, aux
<1>1. ASSUME NEW s \in Subjects, Change(s)
      PROVE  ShownOK(c)'
  BY <1>1, ShownChange
<1>2. ASSUME NEW s \in Subjects, End(s)
      PROVE  ShownOK(c)'
  <2>1. Rollback(s) => ShownOK(c)' BY ShownKept DEF Rollback
  <2> QED BY <1>2, <2>1, ShownCommit DEF End
<1>3. ASSUME NEW d \in Clients, Connect(d) \/ Subscribe(d)
      PROVE  ShownOK(c)'
  BY <1>3, ShownKept DEF Connect, Subscribe
<1>4. ASSUME NEW d \in Clients, NEW i \in pending[d], Receive(d, i)
      PROVE  ShownOK(c)'
  <2>1. d # c => ShownOK(c)'
    BY <1>4, ShownKept DEF Receive, ShownInv, StreamInv, TypeOK
  <2> QED BY <1>4, <2>1, ShownReceive
<1>5. ASSUME NEW d \in Clients, Answer(d)
      PROVE  ShownOK(c)'
  <2>1. d # c => ShownOK(c)'
    BY <1>5, ShownKept DEF Answer, ShownInv, StreamInv, TypeOK
  <2> QED BY <1>5, <2>1, ShownAnswer
<1>6. ASSUME NEW d \in Clients, NEW view \in answers[d], Show(d, view)
      PROVE  ShownOK(c)'
  <2>1. d # c => ShownOK(c)'
    BY <1>6, ShownKept DEF Show, ShownInv, StreamInv, TypeOK
  <2> QED BY <1>6, <2>1, ShownShow
<1>7. ASSUME NEW d \in Clients, NEW all \in BOOLEAN, Break(d, all)
      PROVE  ShownOK(c)'
  <2>1. d # c => asked'[c] = asked[c] /\ late'[c] = late[c]
    BY <1>7 DEF Break, ShownInv, StreamInv, TypeOK
  <2>2. d # c => ShownOK(c)'
    BY <1>7, <2>1, ShownKept DEF Break
  <2> QED BY <1>7, <2>2, ShownBreak
<1>8. CASE Restart
  BY <1>8, ShownRestart
<1>9. CASE UNCHANGED vars
  BY <1>9, ShownKept DEF vars
<1>10. ASSUME NEW d \in Clients, Reload(d)
       PROVE  ShownOK(c)'
  <2>1. \A s \in Loaded(c) : screen'[c][s] = screen[c][s]
    BY <1>10, LoadedTyped DEF Reload, ShownInv, StreamInv, TypeOK
  <2> QED BY <1>10, <2>1, ShownKept DEF Reload
<1> QED
  BY <1>1, <1>2, <1>3, <1>4, <1>5, <1>6, <1>7, <1>8, <1>9, <1>10 DEF Next, Panel

THEOREM ShownInvariant == Spec => []ShownInv
<1>1. Init => ShownInv
  <2> SUFFICES ASSUME Init PROVE ShownInv
    OBVIOUS
  <2>1. StreamInv BY StreamInit
  <2>2. ASSUME NEW c \in Clients PROVE screen[c] = stored /\ answers[c] = {} /\ open = {}
    BY DEF Init
  <2> QED BY <2>1, <2>2 DEF ShownInv, ShownOK
<1> QED BY <1>1, ShownStep, PTL DEF Spec

\* A panel with nothing on its way shows its sections as they are stored, but for
\* a lost event, a failed or overtaken request, or one that read before the commit.
THEOREM ScreenRightProof == Spec => []ScreenRight
<1>1. ASSUME ShownInv PROVE ScreenRight
  <2> SUFFICES ASSUME NEW c \in Clients, Settled(c), NEW s \in Loaded(c),
                      screen[c][s] # stored[s], s \notin late[c]
               PROVE  \E i \in gap[c] : log[i] = s
    BY DEF ScreenRight, Excused
  <2>1. Unheard(c, s) BY <1>1 DEF ShownInv, ShownOK, Settled
  <2>2. Meant(c) \subseteq heard[c] \union gap[c]
    BY <1>1 DEF ShownInv, StreamInv, StreamOK, Settled
  <2> QED BY <2>1, <2>2 DEF Unheard
<1> QED BY <1>1, ShownInvariant, PTL

=============================================================================
