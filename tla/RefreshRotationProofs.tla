------------------------ MODULE RefreshRotationProofs ------------------------
(***************************************************************************)
(* The properties of RefreshRotation, for any browsers, tabs and calls and *)
(* any number of refreshes and faults.                                     *)
(***************************************************************************)
EXTENDS RefreshRotation, TLAPS

-----------------------------------------------------------------------------
(* Types *)

LEMMA InTyped ==
  ASSUME NEW c \in Calls
  PROVE  TabOf[c] \in Tabs /\ In(c) \in Browsers
BY RotationAssumption DEF In

\* What was issued stays issued.
LEMMA IssuedGrows ==
  ASSUME TypeOK, issued' \in {issued, issued + 1}
  PROVE  /\ issued' \in Nat /\ Issued \subseteq Issued'
         /\ request \in [Calls -> Requests'] /\ call \in [Calls -> ClientCalls']
         /\ answer \in [Calls -> (Issued \union {Refused, Failed})']
         /\ store \in [Browsers -> Issued'] /\ jti \in Issued'
<1>1. issued' \in Nat /\ Issued \subseteq Issued' BY DEF TypeOK, Issued
<1>2. Requests \subseteq Requests' BY <1>1 DEF Requests, Steps
<1>3. ClientCalls \subseteq ClientCalls' BY <1>1 DEF ClientCalls
<1>4. request \in [Calls -> Requests'] BY <1>2 DEF TypeOK
<1>5. call \in [Calls -> ClientCalls'] BY <1>3 DEF TypeOK
<1>6. answer \in [Calls -> (Issued \union {Refused, Failed})']
  BY <1>1 DEF TypeOK, Refused, Failed
<1>7. store \in [Browsers -> Issued'] /\ jti \in Issued' BY <1>1 DEF TypeOK
<1> QED BY <1>1, <1>4, <1>5, <1>6, <1>7

LEMMA NullTyped ==
  NoRequest \in Requests /\ NoCall \in ClientCalls /\ None \in Issued
BY DEF NoRequest, Requests, Steps, NoCall, ClientCalls, Issued

LEMMA ServerTypes ==
  ASSUME TypeOK, NEW c \in Calls, ServerNext(c)
  PROVE  TypeOK'
<1> USE NullTyped
<1>1. CASE Load(c)
  <2>1. Issued' = Issued /\ Requests' = Requests /\ ClientCalls' = ClientCalls
    BY <1>1 DEF Load, Issued, Requests, ClientCalls, Steps
  <2>2. request' \in [Calls -> Requests]
    <3>1. [request[c] EXCEPT !.step = "loaded"] \in Requests BY DEF TypeOK, Requests, Steps
    <3>2. CASE Accepted(c) BY <1>1, <3>1, <3>2 DEF Load, TypeOK
    <3>3. CASE ~Accepted(c) BY <1>1, <3>3 DEF Load, TypeOK
    <3> QED BY <3>2, <3>3
  <2>3. answer' \in [Calls -> Issued \union {Refused, Failed}] BY <1>1 DEF Load, TypeOK
  <2>4. reasons' \subseteq {"login", "overlap", "fault"} BY <1>1 DEF Load, TypeOK, Because
  <2> QED BY <1>1, <2>1, <2>2, <2>3, <2>4 DEF Load, TypeOK, browser, Refused, Failed
<1>2. CASE Flush(c)
  <2>1. issued' \in {issued, issued + 1} BY <1>2 DEF Flush
  <2>2. /\ issued' \in Nat /\ Issued \subseteq Issued'
        /\ request \in [Calls -> Requests'] /\ call \in [Calls -> ClientCalls']
        /\ answer \in [Calls -> (Issued \union {Refused, Failed})']
        /\ store \in [Browsers -> Issued'] /\ jti \in Issued'
    BY <2>1, IssuedGrows
  <2>3. NewToken(c) \in Issued' /\ (request[c].op # "logout" => issued + 1 \in Issued')
    BY <1>2 DEF Flush, NewToken, TypeOK, Issued
  <2>4. request[c].token \in Issued' BY <2>2 DEF Requests
  <2>5. request' \in [Calls -> Requests'] BY <1>2, <2>2, <2>3 DEF Flush, Requests, Steps
  <2>6. answer' \in [Calls -> (Issued \union {Refused, Failed})']
    BY <1>2, <2>2, <2>3, <2>4 DEF Flush
  <2> QED BY <1>2, <2>2, <2>5, <2>6 DEF Flush, TypeOK, browser, aux
<1>3. CASE Commit(c)
  <2>1. Issued' = Issued /\ Requests' = Requests /\ ClientCalls' = ClientCalls
    BY <1>3 DEF Commit, Issued, Requests, ClientCalls, Steps
  <2>2. request' \in [Calls -> Requests] BY <1>3 DEF Commit, TypeOK
  <2>3. jti' \in Issued BY <1>3 DEF Commit, TypeOK, Requests
  <2> QED BY <1>3, <2>1, <2>2, <2>3 DEF Commit, TypeOK, browser, aux, Refused, Failed
<1>4. CASE Abort(c)
  <2>1. Issued' = Issued /\ Requests' = Requests /\ ClientCalls' = ClientCalls
    BY <1>4 DEF Abort, Issued, Requests, ClientCalls, Steps
  <2>2. request' \in [Calls -> Requests] BY <1>4 DEF Abort, TypeOK
  <2>3. answer' \in [Calls -> Issued \union {Refused, Failed}] BY <1>4 DEF Abort, TypeOK
  <2> QED BY <1>4, <2>1, <2>2, <2>3 DEF Abort, TypeOK, browser, Refused, Failed
<1> QED BY <1>1, <1>2, <1>3, <1>4 DEF ServerNext

\* The pieces of the types a client's step touches.
LEMMA TokensTyped ==
  ASSUME TypeOK, NEW c \in Calls, NEW id \in Issued, Tokens(c, id)
  PROVE  store' \in [Browsers -> Issued] /\ fresh' \subseteq Browsers
BY InTyped DEF Tokens, TypeOK

LEMMA EndsTyped ==
  ASSUME TypeOK, NEW c \in Calls, Ends(c)
  PROVE  call' \in [Calls -> ClientCalls]
BY NullTyped DEF Ends, TypeOK

LEMMA ThrowOutTyped ==
  ASSUME TypeOK, NEW c \in Calls, ThrowOut(c)
  PROVE  /\ call' \in [Calls -> ClientCalls]
         /\ store' \in [Browsers -> Issued] /\ fresh' \subseteq Browsers
         /\ screen' \in [Tabs -> {"out", "loading", "in"}]
<1>1. Ends(c) /\ Tokens(c, None) /\ Shows(c, "out") BY DEF ThrowOut
<1>2. screen' \in [Tabs -> {"out", "loading", "in"}] BY <1>1, InTyped DEF Shows, TypeOK
<1> QED BY <1>1, <1>2, TokensTyped, EndsTyped, NullTyped

LEMMA SendTyped ==
  ASSUME TypeOK, NEW c \in Calls, NEW op \in {"login", "refresh", "logout"},
         NEW id \in Issued, Send(c, op, id)
  PROVE  request' \in [Calls -> Requests]
BY DEF Send, TypeOK, Requests, Steps


LEMMA ClientTypes ==
  ASSUME TypeOK, NEW c \in Calls, ClientNext(c)
  PROVE  TypeOK'
<1> USE NullTyped
<1>a. /\ Issued' = Issued /\ Requests' = Requests /\ ClientCalls' = ClientCalls
      /\ issued' = issued /\ jti' = jti
  BY DEF ClientNext, Ask, Refresh, Refreshed, RefreshRefused, Proceed, Enter, Reload, Login,
         LoginAnswered, Logout, LogoutAgain, LogoutAnswered, Lose, server,
         Issued, Requests, ClientCalls, Steps
<1>b. call[c] \in ClientCalls /\ store[In(c)] \in Issued BY InTyped DEF TypeOK
<1>c. SUFFICES /\ request' \in [Calls -> Requests]
               /\ answer' \in [Calls -> Issued \union {Refused, Failed}]
               /\ store' \in [Browsers -> Issued] /\ fresh' \subseteq Browsers
               /\ screen' \in [Tabs -> {"out", "loading", "in"}]
               /\ call' \in [Calls -> ClientCalls]
               /\ faults' \in Nat
               /\ owner' \in Browsers \union {None}
               /\ reasons' \subseteq {"login", "overlap", "fault"}
  BY <1>a DEF TypeOK, Refused, Failed
<1>d. /\ request \in [Calls -> Requests]
      /\ answer \in [Calls -> Issued \union {Refused, Failed}]
      /\ store \in [Browsers -> Issued] /\ fresh \subseteq Browsers
      /\ screen \in [Tabs -> {"out", "loading", "in"}]
      /\ call \in [Calls -> ClientCalls]
      /\ faults \in Nat
      /\ owner \in Browsers \union {None}
      /\ reasons \subseteq {"login", "overlap", "fault"}
  BY DEF TypeOK
<1>e. ASSUME Takes(c) PROVE answer' \in [Calls -> Issued \union {Refused, Failed}]
  BY <1>e, <1>d DEF Takes
<1>1. CASE Ask(c)
  <2>1. [NoCall EXCEPT !.goal = "page", !.step = "denied"] \in ClientCalls
    BY DEF NoCall, ClientCalls
  <2> QED BY <1>1, <1>d, <2>1 DEF Ask, server, browser, aux
<1>2. CASE Refresh(c)
  <2>1. CASE Token(c) = None
    BY <1>2, <1>d, <2>1, ThrowOutTyped DEF Refresh
  <2>2. CASE Token(c) # None
    <3>1. request' \in [Calls -> Requests] BY <1>2, <2>2, <1>b, SendTyped DEF Token, Refresh
    <3>2. call' \in [Calls -> ClientCalls] BY <1>2, <2>2, <1>d, <1>b DEF Refresh, ClientCalls
    <3>3. reasons' \subseteq {"login", "overlap", "fault"}
      BY <1>2, <2>2, <1>d DEF Refresh, Because
    <3> QED BY <1>2, <2>2, <1>d, <3>1, <3>2, <3>3 DEF Refresh, browser
  <2> QED BY <2>1, <2>2
<1>3. CASE Refreshed(c)
  <2>1. answer[c] \in Issued /\ answer[c] # None
    BY <1>3, <1>d DEF Refreshed, Refused, Failed
  <2>2. Takes(c) /\ Tokens(c, answer[c]) BY <1>3 DEF Refreshed
  <2>3. call' \in [Calls -> ClientCalls] BY <1>3, <1>d, <1>b DEF Refreshed, ClientCalls
  <2> QED BY <1>3, <1>d, <1>e, <2>1, <2>2, <2>3, TokensTyped DEF Refreshed, server, aux
<1>4. CASE RefreshRefused(c)
  BY <1>4, <1>d, <1>e, ThrowOutTyped DEF RefreshRefused, server, aux
<1>5. CASE Proceed(c)
  <2>1. CASE ThrowOut(c) BY <1>5, <1>d, <2>1, ThrowOutTyped DEF Proceed, server, aux
  <2>2. CASE Ends(c) /\ UNCHANGED <<browser, screen>>
    BY <1>5, <1>d, <2>2, EndsTyped DEF Proceed, server, browser, aux
  <2>3. ASSUME NEW s \in {"granted", "denied"}, call' = [call EXCEPT ![c].step = s],
               UNCHANGED <<browser, screen>>
        PROVE  call' \in [Calls -> ClientCalls]
    BY <2>3, <1>d, <1>b DEF ClientCalls
  <2>4. CASE UNCHANGED <<browser, screen>> /\ call' = [call EXCEPT ![c].step = "granted"]
    BY <1>5, <1>d, <2>3, <2>4 DEF Proceed, server, browser, aux
  <2>5. CASE UNCHANGED <<browser, screen>> /\ call' = [call EXCEPT ![c].step = "denied"]
    BY <1>5, <1>d, <2>3, <2>5 DEF Proceed, server, browser, aux
  <2> QED BY <1>5, <2>1, <2>2, <2>4, <2>5 DEF Proceed
<1>6. CASE Enter(c)
  <2>1. screen' \in [Tabs -> {"out", "loading", "in"}] BY <1>6, <1>d, InTyped DEF Enter, Shows
  <2> QED BY <1>6, <1>d, <2>1, EndsTyped DEF Enter, server, browser, aux
<1>7. CASE Reload(c)
  <2> DEFINE dropped == [d \in Calls |-> IF TabOf[d] = TabOf[c] THEN NoCall ELSE call[d]]
  <2>1. answer' \in [Calls -> Issued \union {Refused, Failed}] BY <1>7, <1>d DEF Reload
  <2>2. dropped \in [Calls -> ClientCalls] BY <1>d
  <2>3. screen' \in [Tabs -> {"out", "loading", "in"}] BY <1>7, <1>d, InTyped DEF Reload, Shows
  <2>4. reasons' \subseteq {"login", "overlap", "fault"} BY <1>7, <1>d DEF Reload, Because
  <2>5. CASE store[In(c)] = None
    <3>1. call' = dropped /\ request' = request BY <1>7, <2>5 DEF Reload
    <3> QED BY <1>7, <1>d, <2>1, <2>2, <2>3, <2>4, <3>1 DEF Reload, browser
  <2>6. CASE store[In(c)] # None
    <3>1. Send(c, "refresh", store[In(c)])
      BY <1>7, <2>6 DEF Reload
    <3>2. call' = [dropped EXCEPT ![c] = [NoCall EXCEPT !.goal = "boot", !.step = "refreshing"]]
      BY <1>7, <2>6 DEF Reload
    <3>3. [NoCall EXCEPT !.goal = "boot", !.step = "refreshing"] \in ClientCalls
      BY DEF NoCall, ClientCalls
    <3>4. call' \in [Calls -> ClientCalls] BY <2>2, <3>2, <3>3
    <3>5. request' \in [Calls -> Requests] BY <1>b, <3>1, SendTyped
    <3> QED BY <1>7, <1>d, <2>1, <2>3, <2>4, <3>4, <3>5 DEF Reload, browser
  <2> QED BY <2>5, <2>6
<1>8. CASE Login(c)
  <2>1. [NoCall EXCEPT !.goal = "login", !.step = "posting"] \in ClientCalls
    BY DEF NoCall, ClientCalls
  <2>2. call' \in [Calls -> ClientCalls] BY <1>8, <1>d, <2>1 DEF Login
  <2>3. request' \in [Calls -> Requests] BY <1>8, SendTyped DEF Login
  <2>4. reasons' \subseteq {"login", "overlap", "fault"} BY <1>8 DEF Login, Because
  <2> QED BY <1>8, <1>d, <2>2, <2>3, <2>4 DEF Login, browser
<1>9. CASE LoginAnswered(c)
  <2>0. answer[c] \in Int BY <1>9, <1>d DEF LoginAnswered, TypeOK, Issued, Refused, Failed
  <2>1. CASE answer[c] > 0
    <3>1. answer[c] \in Issued BY <1>9, <2>0, <2>1, <1>d DEF LoginAnswered, Refused, Failed
    <3>2. Tokens(c, answer[c]) /\ Takes(c) BY <1>9, <2>0, <2>1 DEF LoginAnswered
    <3>3. call' \in [Calls -> ClientCalls]
      BY <1>9, <2>0, <2>1, <1>d, <1>b DEF LoginAnswered, ClientCalls
    <3>4. owner' \in Browsers \union {None} /\ reasons' \subseteq {"login", "overlap", "fault"}
      BY <1>9, <2>0, <2>1, <1>d, InTyped DEF LoginAnswered
    <3> QED BY <1>9, <1>d, <1>e, <3>1, <3>2, <3>3, <3>4, TokensTyped DEF LoginAnswered, server
  <2>2. CASE ~(answer[c] > 0)
    BY <1>9, <1>d, <1>e, <2>0, <2>2, EndsTyped DEF LoginAnswered, server, browser, aux
  <2> QED BY <2>1, <2>2
<1>10. CASE Logout(c)
  <2>1. owner' \in Browsers \union {None} BY <1>10, <1>d DEF Logout
  <2>2. CASE Token(c) = None
    BY <1>10, <1>d, <2>1, <2>2, ThrowOutTyped DEF Logout
  <2>3. CASE Token(c) # None
    <3>1. request' \in [Calls -> Requests] BY <1>10, <2>3, <1>b, SendTyped DEF Token, Logout
    <3>2. [NoCall EXCEPT !.goal = "logout", !.step = "posting", !.body = Token(c)] \in ClientCalls
      BY <1>b DEF NoCall, ClientCalls, Token
    <3>3. call' \in [Calls -> ClientCalls] BY <1>10, <2>3, <1>d, <3>2 DEF Logout
    <3>4. reasons' \subseteq {"login", "overlap", "fault"} BY <1>10, <2>3, <1>d DEF Logout, Because
    <3> QED BY <1>10, <2>3, <1>d, <2>1, <3>1, <3>3, <3>4 DEF Logout, browser
  <2> QED BY <2>2, <2>3
<1>11. CASE LogoutAgain(c)
  <2>1. call[c].body \in Issued BY <1>b DEF ClientCalls
  <2>2. request' \in [Calls -> Requests] BY <1>11, <2>1, SendTyped DEF LogoutAgain
  <2>3. call' \in [Calls -> ClientCalls] BY <1>11, <1>d, <1>b DEF LogoutAgain, ClientCalls
  <2>4. reasons' \subseteq {"login", "overlap", "fault"} BY <1>11, <1>d DEF LogoutAgain, Because
  <2> QED BY <1>11, <1>d, <2>2, <2>3, <2>4 DEF LogoutAgain, browser
<1>12. CASE LogoutAnswered(c)
  <2>1. CASE ThrowOut(c)
    BY <1>12, <1>d, <1>e, <2>1, ThrowOutTyped DEF LogoutAnswered, server, aux
  <2>2. CASE call' = [call EXCEPT ![c].step = "denied"] /\ UNCHANGED <<browser, screen>>
    <3>1. call' \in [Calls -> ClientCalls] BY <2>2, <1>d, <1>b DEF ClientCalls
    <3> QED BY <1>12, <1>d, <1>e, <2>2, <3>1 DEF LogoutAnswered, server, browser, aux
  <2> QED BY <1>12, <2>1, <2>2 DEF LogoutAnswered
<1>13. CASE Lose(c)
  <2>1. faults' \in Nat /\ reasons' \subseteq {"login", "overlap", "fault"}
    BY <1>13, <1>d DEF Lose
  <2>2. CASE ThrowOut(c)
    BY <1>13, <1>d, <1>e, <2>1, <2>2, ThrowOutTyped DEF Lose, server
  <2>3. CASE Ends(c) /\ UNCHANGED <<browser, screen>>
    BY <1>13, <1>d, <1>e, <2>1, <2>3, EndsTyped DEF Lose, server, browser
  <2> QED BY <1>13, <2>2, <2>3 DEF Lose
<1> QED BY <1>1, <1>2, <1>3, <1>4, <1>5, <1>6, <1>7, <1>8, <1>9, <1>10, <1>11, <1>12, <1>13
        DEF ClientNext

LEMMA TypeStep == TypeOK /\ [Next]_vars => TypeOK'
<1> SUFFICES ASSUME TypeOK, [Next]_vars PROVE TypeOK' OBVIOUS
<1>1. CASE UNCHANGED vars
  BY <1>1 DEF vars, server, browser, aux, TypeOK, Issued, Requests, ClientCalls, Steps
<1>2. ASSUME NEW b \in Browsers, Expire(b) PROVE TypeOK'
  BY <1>2 DEF Expire, server, aux, TypeOK, Issued, Requests, ClientCalls, Steps
<1> QED BY <1>1, <1>2, ServerTypes, ClientTypes DEF Next

\* Who holds a token holds one that was issued, and every record keeps its form.
THEOREM TypeCorrect == Spec => []TypeOK
<1>1. Init => TypeOK
  BY NullTyped DEF Init, TypeOK, Requests, ClientCalls, Steps, Issued
<1> QED BY <1>1, TypeStep, PTL DEF Spec


-----------------------------------------------------------------------------
(* One session at a time.  Without an excuse, at most one request changes  *)
(* the row at a time, and only the browser that is logged in has the token *)
(* its next request needs.                                                 *)

Asked(c) == request[c].step \in {"sent", "loaded"}
Taken(c) == request[c].step \in {"loaded", "flushed"}
Flushed(c) == request[c].step = "flushed"
Busy(c) == Waiting(c) \/ request[c] # NoRequest \/ call[c].goal = "logout"
LogsIn(c) == call[c].goal = "login" /\ call[c].step = "posting"
Clear == reasons \subseteq {"login"}

\* How the two sides of a call fit together.
Form(c) ==
  /\ request[c].step = "none" => request[c] = NoRequest
  /\ request[c].step # "none" => request[c].op # "none"
  /\ Asked(c) => answer[c] = None /\ (request[c].token = None <=> request[c].op = "login")
  /\ Flushed(c) => (request[c].token = None <=> request[c].op = "logout")
  /\ Flushed(c) /\ Waiting(c) => answer[c] \in 1..issued
  /\ answer[c] # None => Waiting(c)
  /\ call[c].step = "refreshing" => request[c].op \in {"refresh", "none"}
  /\ call[c].step = "posting" => /\ call[c].goal \in {"login", "logout"}
                                 /\ request[c].op \in {call[c].goal, "none"}
  /\ call[c].goal = "logout" => call[c].body # None

FormInv ==
  /\ \A c \in Calls : Form(c)
  /\ \A c, d \in Calls : Flushed(c) /\ Flushed(d) => c = d

\* v is the token the server expects once the request under way commits.
Current(v) ==
  /\ \A c \in Calls : Flushed(c) => request[c].token = v
  /\ (\A c \in Calls : ~Flushed(c)) => jti = v

\* No other browser has the token v, nor sends it, nor is sent it.
Only(b, v) ==
  /\ \A z \in Browsers \ {b} : store[z] # v
  /\ \A d \in Calls : In(d) # b =>
       /\ Asked(d) => request[d].token # v
       /\ answer[d] # v /\ call[d].body # v

SoleTaken(c) == \A d \in Calls : Taken(d) => d = c
AloneIn(c) == \A d \in Calls \ {c} : In(d) = In(c) => ~Busy(d)

RunInv ==
  /\ \A c \in Calls : Asked(c) => Waiting(c)
  /\ \A c, d \in Calls : Taken(c) /\ Taken(d) => c = d

LoginInv ==
  \A c \in Calls : LogsIn(c) =>
    /\ "login" \in reasons
    /\ \A d \in Calls : LogsIn(d) => d = c
    /\ AloneIn(c)
    /\ answer[c] # None =>
         /\ answer[c] \in 1..issued /\ Current(answer[c])
         /\ Only(In(c), answer[c]) /\ SoleTaken(c)

\* The browser b is logged in, with the token v.
Holds(b, v) ==
  /\ Current(v) /\ Only(b, v)
  /\ \A c \in Calls : In(c) = b =>
       /\ Asked(c) => request[c].token = v
       /\ answer[c] # None => answer[c] = v
       /\ call[c].goal # "logout"
       /\ call[c].retried => b \in fresh
  /\ (\A c \in Calls : In(c) = b => ~Waiting(c)) => store[b] = v

OwnerInv ==
  /\ \A c, d \in Calls : In(c) = owner /\ In(d) = owner /\ Busy(c) /\ Busy(d) => c = d
  /\ \A c \in Calls : Taken(c) => In(c) = owner
  /\ store[owner] # None
  /\ \E v \in 1..issued : Holds(owner, v)

\* The call c is the logout that ends the session.
Closes(c) ==
  /\ request[c].op = "logout" /\ (Flushed(c) \/ request[c].token = jti)
  /\ SoleTaken(c) /\ AloneIn(c)
  /\ Only(In(c), jti)
  /\ ~Waiting(c) => store[In(c)] = None

EndedInv ==
  /\ jti = None => \A c \in Calls : ~Taken(c)
  /\ jti # None => \E c \in Calls : Closes(c)

Safe ==
  /\ RunInv /\ LoginInv
  /\ reasons = {} /\ owner # None => OwnerInv
  /\ reasons = {} /\ owner = None => EndedInv

SafeInv == Clear => Safe

Inv == TypeOK /\ FormInv /\ SafeInv


-----------------------------------------------------------------------------
(* Both sides of a call *)

\* What a step of c does to the other calls: nothing, unless it loads the page
\* again; that may not go on without an excuse if they wait for an answer.
Others(c) ==
  \A d \in Calls \ {c} :
    /\ request'[d] = request[d]
    /\ \/ call'[d] = call[d] /\ answer'[d] = answer[d]
       \/ call'[d] = NoCall /\ answer'[d] = None /\ (Waiting(d) => ~Clear')

\* The form of the others is kept; two UPDATEs do not hold the row's lock.
LEMMA FormKept ==
  ASSUME TypeOK, FormInv, NEW c \in Calls, Others(c), issued' \in {issued, issued + 1},
         Form(c)', Flushed(c)' => Flushed(c) \/ \A d \in Calls : ~Flushed(d)
  PROVE  FormInv'
<1>1. ASSUME NEW d \in Calls PROVE Form(d)'
  <2>1. CASE d = c BY <2>1
  <2>2. CASE d # c /\ call'[d] = call[d] /\ answer'[d] = answer[d]
    <3>1. request'[d] = request[d] /\ Form(d) BY <2>2 DEF Others, FormInv
    <3>2. 1..issued \subseteq 1..issued' BY DEF TypeOK
    <3> QED BY <2>2, <3>1, <3>2 DEF Form, Asked, Flushed, Waiting
  <2>3. CASE d # c /\ call'[d] = NoCall /\ answer'[d] = None
    <3>1. request'[d] = request[d] /\ Form(d) BY <2>3 DEF Others, FormInv
    <3> QED BY <2>3, <3>1 DEF Form, Asked, Flushed, Waiting, NoCall
  <2> QED BY <2>1, <2>2, <2>3 DEF Others
<1>2. ASSUME NEW d \in Calls, NEW e \in Calls, Flushed(d)', Flushed(e)' PROVE d = e
  <2>1. \A f \in Calls \ {c} : Flushed(f)' <=> Flushed(f) BY DEF Others, Flushed
  <2> QED BY <1>2, <2>1 DEF FormInv
<1> QED BY <1>1, <1>2 DEF FormInv

LEMMA ServerForm ==
  ASSUME TypeOK, FormInv, NEW c \in Calls, ServerNext(c)
  PROVE  FormInv' /\ Others(c)
<1>1. Form(c) /\ request[c] \in Requests /\ call[c] \in ClientCalls
      /\ answer[c] \in Issued \union {Refused, Failed} /\ issued \in Nat
  BY DEF FormInv, TypeOK
<1>2. CASE Load(c)
  <2>1. call' = call /\ issued' = issued /\ request[c].step = "sent" BY <1>2 DEF Load
  <2>2. CASE Accepted(c)
    <3>1. /\ request' = [request EXCEPT ![c].step = "loaded"] /\ answer' = answer
      BY <1>2, <2>2 DEF Load
    <3>2. /\ request'[c].op = request[c].op /\ request'[c].token = request[c].token
          /\ request'[c].step = "loaded"
      BY <3>1, <1>1 DEF TypeOK, Requests
    <3>3. Others(c) BY <2>1, <3>1 DEF Others, TypeOK
    <3>4. Form(c)' BY <1>1, <2>1, <3>1, <3>2 DEF Form, Asked, Flushed, Waiting
    <3> QED BY <2>1, <3>2, <3>3, <3>4, FormKept DEF Flushed
  <2>3. CASE ~Accepted(c)
    <3>1. /\ request' = [request EXCEPT ![c] = NoRequest]
          /\ answer' = IF Waiting(c) THEN [answer EXCEPT ![c] = Refused] ELSE answer
      BY <1>2, <2>3 DEF Load
    <3>2. request'[c] = NoRequest BY <3>1 DEF TypeOK
    <3>3. answer'[c] = IF Waiting(c) THEN Refused ELSE answer[c] BY <3>1 DEF TypeOK
    <3>4. Others(c) BY <2>1, <3>1 DEF Others, TypeOK
    <3>5. Form(c)' BY <1>1, <2>1, <3>2, <3>3 DEF Form, Asked, Flushed, Waiting, NoRequest
    <3> QED BY <2>1, <3>2, <3>4, <3>5, FormKept DEF Flushed, NoRequest
  <2> QED BY <2>2, <2>3
<1>3. CASE Flush(c)
  <2>1. /\ call' = call /\ request[c].step = "loaded" /\ \A d \in Calls : ~Flushed(d)
        /\ issued' = IF request[c].op = "logout" THEN issued ELSE issued + 1
        /\ request' = [request EXCEPT ![c] =
                         [@ EXCEPT !.token = NewToken(c), !.step = "flushed"]]
        /\ answer' = IF ~Waiting(c) THEN answer
                     ELSE [answer EXCEPT ![c] = IF request[c].op = "logout"
                                                THEN request[c].token ELSE issued + 1]
    BY <1>3 DEF Flush, Flushed
  <2>2. /\ request'[c].op = request[c].op /\ request'[c].step = "flushed"
        /\ request'[c].token = NewToken(c)
    BY <2>1, <1>1 DEF TypeOK, Requests
  <2>3. answer'[c] = IF ~Waiting(c) THEN answer[c]
                     ELSE IF request[c].op = "logout" THEN request[c].token ELSE issued + 1
    BY <2>1 DEF TypeOK
  <2>4. Others(c) BY <2>1 DEF Others, TypeOK
  <2>5. NewToken(c) = None <=> request[c].op = "logout"
    BY <1>1, RotationAssumption DEF NewToken
  <2>6. request[c].op = "logout" => request[c].token \in 1..issued
    BY <1>1, <2>1 DEF Form, Asked, Requests, Issued
  <2>7. Waiting(c) => answer'[c] \in 1..issued' BY <1>1, <2>1, <2>3, <2>6
  <2>8. Form(c)'
    BY <1>1, <2>1, <2>2, <2>3, <2>5, <2>7 DEF Form, Asked, Flushed, Waiting
  <2> QED BY <2>1, <2>4, <2>8, FormKept
<1>4. CASE Commit(c)
  <2>1. /\ call' = call /\ answer' = answer /\ issued' = issued
        /\ request' = [request EXCEPT ![c] = NoRequest]
    BY <1>4 DEF Commit
  <2>2. request'[c] = NoRequest BY <2>1 DEF TypeOK
  <2>3. Others(c) BY <2>1 DEF Others, TypeOK
  <2>4. Form(c)' BY <1>1, <2>1, <2>2 DEF Form, Asked, Flushed, Waiting, NoRequest
  <2> QED BY <2>1, <2>2, <2>3, <2>4, FormKept DEF Flushed, NoRequest
<1>5. CASE Abort(c)
  <2>1. /\ call' = call /\ issued' = issued
        /\ request' = [request EXCEPT ![c] = NoRequest]
        /\ answer' = IF Waiting(c) /\ request[c].step = "loaded"
                     THEN [answer EXCEPT ![c] = Failed] ELSE answer
    BY <1>5 DEF Abort
  <2>2. request'[c] = NoRequest BY <2>1 DEF TypeOK
  <2>3. answer'[c] # None => answer[c] # None \/ Waiting(c) BY <2>1 DEF TypeOK
  <2>4. Others(c) BY <2>1 DEF Others, TypeOK
  <2>5. Form(c)' BY <1>1, <2>1, <2>2, <2>3 DEF Form, Asked, Flushed, Waiting, NoRequest
  <2> QED BY <2>1, <2>2, <2>4, <2>5, FormKept DEF Flushed, NoRequest
<1> QED BY <1>2, <1>3, <1>4, <1>5 DEF ServerNext


\* A step of the client sends nothing: c waits for no answer after it.
Idles(c) ==
  /\ Others(c) /\ UNCHANGED <<jti, issued, request>>
  /\ answer'[c] = None /\ call'[c].step \notin {"refreshing", "posting"}
  /\ call'[c].goal = "logout" => call'[c].body # None

LEMMA IdleForm ==
  ASSUME TypeOK, FormInv, NEW c \in Calls, Idles(c)
  PROVE  FormInv'
<1>1. request' = request /\ issued' = issued /\ Form(c) BY DEF Idles, FormInv
<1>2. Form(c)' BY <1>1 DEF Idles, Form, Asked, Flushed, Waiting
<1> QED BY <1>1, <1>2, FormKept DEF Idles, Flushed

\* A step of the client sends a request.
Sends(c, op, id) ==
  /\ Others(c) /\ UNCHANGED <<jti, issued, store, fresh>>
  /\ request[c] = NoRequest
  /\ request'[c] = [op |-> op, token |-> id, step |-> "sent"]
  /\ answer'[c] = None
  /\ \/ op = "refresh" /\ call'[c].step = "refreshing"
     \/ op \in {"login", "logout"} /\ call'[c].step = "posting" /\ call'[c].goal = op
  /\ id = None <=> op = "login"
  /\ call'[c].goal = "logout" => call'[c].body # None

LEMMA SentForm ==
  ASSUME TypeOK, FormInv, NEW c \in Calls, NEW op, NEW id, Sends(c, op, id)
  PROVE  FormInv'
<1>1. issued' = issued /\ Form(c) BY DEF Sends, FormInv
<1>2. Form(c)' BY <1>1 DEF Sends, Form, Asked, Flushed, Waiting
<1> QED BY <1>1, <1>2, FormKept DEF Sends, Flushed

\* What each step of the client comes to.
LEMMA TakesOthers ==
  ASSUME TypeOK, NEW c \in Calls, Takes(c) \/ answer' = answer, request' = request,
         NEW r, call' = [call EXCEPT ![c] = r]
  PROVE  Others(c) /\ call'[c] = r
         /\ (Takes(c) => answer'[c] = None) /\ (answer' = answer => answer'[c] = answer[c])
BY DEF Others, Takes, TypeOK

LEMMA SendOthers ==
  ASSUME TypeOK, NEW c \in Calls, answer' = answer,
         NEW op, NEW id, Send(c, op, id), NEW r, call' = [call EXCEPT ![c] = r]
  PROVE  /\ Others(c) /\ call'[c] = r /\ answer'[c] = answer[c]
         /\ request[c] = NoRequest
         /\ request'[c] = [op |-> op, token |-> id, step |-> "sent"]
BY DEF Others, Send, TypeOK

LEMMA IdleAnswer ==
  ASSUME FormInv, NEW c \in Calls, ~Waiting(c)
  PROVE  answer[c] = None
BY DEF FormInv, Form

LEMMA AskIdles ==
  ASSUME TypeOK, FormInv, NEW c \in Calls, Ask(c)
  PROVE  Idles(c) /\ call'[c] = [NoCall EXCEPT !.goal = "page", !.step = "denied"]
<1>1. /\ request' = request /\ answer' = answer /\ call[c] = NoCall
      /\ call' = [call EXCEPT ![c] = [NoCall EXCEPT !.goal = "page", !.step = "denied"]]
  BY DEF Ask, server, Free
<1>2. ~Waiting(c) BY <1>1 DEF Waiting, NoCall
<1>3. Others(c) /\ call'[c] = [NoCall EXCEPT !.goal = "page", !.step = "denied"]
      /\ answer'[c] = answer[c]
  BY <1>1, TakesOthers
<1>4. answer[c] = None BY <1>2, IdleAnswer
<1>5. call'[c].step = "denied" /\ call'[c].goal = "page" BY <1>3 DEF NoCall
<1> QED BY <1>3, <1>4, <1>5 DEF Idles, Ask, server

LEMMA ThrowOutIdles ==
  ASSUME TypeOK, FormInv, NEW c \in Calls, ThrowOut(c) \/ Ends(c),
         UNCHANGED <<jti, issued, request>>, Takes(c) \/ (answer' = answer /\ ~Waiting(c))
  PROVE  Idles(c) /\ call'[c] = NoCall
<1>1. call' = [call EXCEPT ![c] = NoCall] BY DEF ThrowOut, Ends
<1>2. /\ Others(c) /\ call'[c] = NoCall
      /\ (Takes(c) => answer'[c] = None) /\ (answer' = answer => answer'[c] = answer[c])
  BY <1>1, TakesOthers
<1>3. ~Waiting(c) => answer[c] = None BY IdleAnswer
<1> QED BY <1>2, <1>3 DEF Idles, NoCall

LEMMA StepIdles ==
  ASSUME TypeOK, FormInv, NEW c \in Calls, NEW s \in {"ready", "granted", "denied"},
         call' = [call EXCEPT ![c].step = s],
         UNCHANGED <<jti, issued, request>>, Takes(c) \/ (answer' = answer /\ ~Waiting(c))
  PROVE  /\ Idles(c)
         /\ call'[c].goal = call[c].goal /\ call'[c].body = call[c].body
         /\ call'[c].retried = call[c].retried /\ call'[c].step = s
<1>1. call' = [call EXCEPT ![c] = [call[c] EXCEPT !.step = s]] OBVIOUS
<1>2. /\ Others(c) /\ call'[c] = [call[c] EXCEPT !.step = s]
      /\ (Takes(c) => answer'[c] = None) /\ (answer' = answer => answer'[c] = answer[c])
  BY <1>1, TakesOthers
<1>3. ~Waiting(c) => answer[c] = None BY IdleAnswer
<1>4. call[c] \in ClientCalls /\ Form(c) BY DEF TypeOK, FormInv
<1>5. /\ call'[c].goal = call[c].goal /\ call'[c].body = call[c].body
      /\ call'[c].retried = call[c].retried /\ call'[c].step = s
  BY <1>2, <1>4 DEF ClientCalls
<1> QED BY <1>2, <1>3, <1>4, <1>5 DEF Idles, Form

LEMMA RefreshedIdles ==
  ASSUME TypeOK, FormInv, NEW c \in Calls, Refreshed(c)
  PROVE  /\ Idles(c) /\ call'[c].step = "ready" /\ call'[c].body = call[c].body
         /\ call'[c].goal = "logout" => call[c].goal = "logout"
<1>1. call[c] \in ClientCalls /\ Form(c) BY DEF TypeOK, FormInv
<1>2. CASE call[c].goal = "boot"
  <2>1. call' = [call EXCEPT ![c] = [call[c] EXCEPT !.goal = "enter", !.step = "ready"]]
    BY <1>2 DEF Refreshed
  <2>2. /\ Others(c) /\ call'[c] = [call[c] EXCEPT !.goal = "enter", !.step = "ready"]
        /\ answer'[c] = None
    BY <2>1, TakesOthers DEF Refreshed, server
  <2>3. call'[c].goal = "enter" /\ call'[c].step = "ready" /\ call'[c].body = call[c].body
    BY <1>1, <2>2 DEF ClientCalls
  <2> QED BY <2>2, <2>3 DEF Idles, Refreshed, server
<1>3. CASE call[c].goal # "boot"
  <2>1. call' = [call EXCEPT ![c] = [call[c] EXCEPT !.step = "ready", !.retried = TRUE]]
    BY <1>3 DEF Refreshed
  <2>2. /\ Others(c) /\ call'[c] = [call[c] EXCEPT !.step = "ready", !.retried = TRUE]
        /\ answer'[c] = None
    BY <2>1, TakesOthers DEF Refreshed, server
  <2>3. call'[c].goal = call[c].goal /\ call'[c].step = "ready" /\ call'[c].body = call[c].body
    BY <1>1, <2>2 DEF ClientCalls
  <2> QED BY <1>1, <2>2, <2>3 DEF Idles, Refreshed, server, Form
<1> QED BY <1>2, <1>3


LEMMA RefreshSends ==
  ASSUME TypeOK, FormInv, NEW c \in Calls, Refresh(c), Token(c) # None
  PROVE  /\ Sends(c, "refresh", Token(c))
         /\ call'[c].goal = call[c].goal /\ call'[c].body = call[c].body
         /\ call'[c].retried = call[c].retried /\ call'[c].step = "refreshing"
         /\ owner' = owner /\ reasons' = reasons \union Because("overlap", Overlapped(c))
<1> DEFINE r == [call[c] EXCEPT !.step = "refreshing"]
<1>1. /\ call[c].step = "denied" /\ Send(c, "refresh", Token(c)) /\ answer' = answer
      /\ call' = [call EXCEPT ![c] = r]
      /\ UNCHANGED <<jti, issued, store, fresh, owner>>
      /\ reasons' = reasons \union Because("overlap", Overlapped(c))
  BY DEF Refresh, browser
<1>2. call[c] \in ClientCalls /\ Form(c) BY DEF TypeOK, FormInv
<1>3. /\ Others(c) /\ call'[c] = r
      /\ answer'[c] = answer[c] /\ request[c] = NoRequest
      /\ request'[c] = [op |-> "refresh", token |-> Token(c), step |-> "sent"]
  <2> HIDE DEF r
  <2> QED BY <1>1, SendOthers
<1>4. /\ call'[c].goal = call[c].goal /\ call'[c].body = call[c].body
      /\ call'[c].retried = call[c].retried /\ call'[c].step = "refreshing"
  BY <1>2, <1>3 DEF ClientCalls
<1>5. answer[c] = None BY <1>1, IdleAnswer DEF Waiting
<1>6. call'[c].goal = "logout" => call'[c].body # None BY <1>2, <1>4 DEF Form
<1> QED BY <1>1, <1>3, <1>4, <1>5, <1>6 DEF Sends

LEMMA LogoutAgainSends ==
  ASSUME TypeOK, FormInv, NEW c \in Calls, LogoutAgain(c)
  PROVE  /\ Sends(c, "logout", call[c].body)
         /\ call[c].goal = "logout" /\ call'[c].goal = "logout"
         /\ call'[c].body = call[c].body /\ call'[c].step = "posting"
         /\ owner' = owner /\ reasons' = reasons \union Because("overlap", Overlapped(c))
<1> DEFINE r == [call[c] EXCEPT !.step = "posting"]
           id == call[c].body
<1>1. /\ call[c].step = "ready" /\ Send(c, "logout", id) /\ answer' = answer
      /\ call[c].goal = "logout"
      /\ call' = [call EXCEPT ![c] = r]
      /\ UNCHANGED <<jti, issued, store, fresh, owner>>
      /\ reasons' = reasons \union Because("overlap", Overlapped(c))
  BY DEF LogoutAgain, browser
<1>2. call[c] \in ClientCalls /\ Form(c) BY DEF TypeOK, FormInv
<1>3. /\ Others(c) /\ call'[c] = r
      /\ answer'[c] = answer[c] /\ request[c] = NoRequest
      /\ request'[c] = [op |-> "logout", token |-> id, step |-> "sent"]
  <2> HIDE DEF r, id
  <2> QED BY <1>1, SendOthers
<1>4. /\ call'[c].goal = call[c].goal /\ call'[c].body = call[c].body
      /\ call'[c].step = "posting"
  BY <1>2, <1>3 DEF ClientCalls
<1>5. answer[c] = None BY <1>1, IdleAnswer DEF Waiting
<1>6. call[c].body # None BY <1>1, <1>2 DEF Form
<1> QED BY <1>1, <1>3, <1>4, <1>5, <1>6 DEF Sends

LEMMA LogoutSends ==
  ASSUME TypeOK, FormInv, NEW c \in Calls, Logout(c), Token(c) # None
  PROVE  /\ Sends(c, "logout", Token(c)) /\ call[c] = NoCall
         /\ call'[c] = [NoCall EXCEPT !.goal = "logout", !.step = "posting", !.body = Token(c)]
         /\ owner' = IF owner = In(c) THEN None ELSE owner
         /\ reasons' = reasons \union Because("overlap", Overlapped(c))
<1> DEFINE r == [NoCall EXCEPT !.goal = "logout", !.step = "posting", !.body = Token(c)]
<1>1. /\ call[c] = NoCall /\ Send(c, "logout", Token(c)) /\ answer' = answer
      /\ call' = [call EXCEPT ![c] = r]
      /\ UNCHANGED <<jti, issued, store, fresh>>
      /\ owner' = IF owner = In(c) THEN None ELSE owner
      /\ reasons' = reasons \union Because("overlap", Overlapped(c))
  BY DEF Logout, browser, Free
<1>2. /\ Others(c) /\ call'[c] = r
      /\ answer'[c] = answer[c] /\ request[c] = NoRequest
      /\ request'[c] = [op |-> "logout", token |-> Token(c), step |-> "sent"]
  BY <1>1, SendOthers
<1>3. r.goal = "logout" /\ r.body = Token(c) /\ r.step = "posting" BY DEF NoCall
<1>4. answer[c] = None BY <1>1, IdleAnswer DEF Waiting, NoCall
<1> QED BY <1>1, <1>2, <1>3, <1>4 DEF Sends

LEMMA LoginSends ==
  ASSUME TypeOK, FormInv, NEW c \in Calls, Login(c)
  PROVE  /\ Sends(c, "login", None) /\ call[c] = NoCall
         /\ call'[c] = [NoCall EXCEPT !.goal = "login", !.step = "posting"]
         /\ \A d \in Calls \ {c} : call'[d] = call[d] /\ answer'[d] = answer[d]
<1> DEFINE r == [NoCall EXCEPT !.goal = "login", !.step = "posting"]
<1>1. /\ call[c] = NoCall /\ Send(c, "login", None) /\ answer' = answer
      /\ call' = [call EXCEPT ![c] = r]
      /\ UNCHANGED <<jti, issued, store, fresh, owner>>
  BY DEF Login, browser, Free
<1>2. /\ Others(c) /\ call'[c] = r
      /\ answer'[c] = answer[c] /\ request[c] = NoRequest
      /\ request'[c] = [op |-> "login", token |-> None, step |-> "sent"]
  BY <1>1, SendOthers
<1>3. r.goal = "login" /\ r.step = "posting" BY DEF NoCall
<1>4. answer[c] = None BY <1>1, IdleAnswer DEF Waiting, NoCall
<1>5. \A d \in Calls \ {c} : call'[d] = call[d] /\ answer'[d] = answer[d]
  BY <1>1 DEF TypeOK
<1> QED BY <1>1, <1>2, <1>3, <1>4, <1>5 DEF Sends

\* A page that is loaded again goes to the form, or starts with a refresh.
LEMMA ReloadForm ==
  ASSUME TypeOK, FormInv, NEW c \in Calls, Reload(c)
  PROVE  /\ UNCHANGED <<jti, issued, store, fresh, owner>>
         /\ Waiting(c) => ~Clear'
         /\ \/ /\ store[In(c)] = None /\ Idles(c) /\ call'[c] = NoCall
               /\ Clear' => reasons' = reasons
            \/ /\ store[In(c)] # None /\ Sends(c, "refresh", store[In(c)])
               /\ call'[c] = [NoCall EXCEPT !.goal = "boot", !.step = "refreshing"]
               /\ Clear' => reasons' = reasons /\ ~Overlapped(c)
<1> DEFINE t == TabOf[c]
           dropped == [d \in Calls |-> IF TabOf[d] = t THEN NoCall ELSE call[d]]
           lost == Because("fault", \E d \in CallsOf(t) : Waiting(d))
           r == [NoCall EXCEPT !.goal = "boot", !.step = "refreshing"]
<1>1. /\ UNCHANGED <<jti, issued, store, fresh, owner>> /\ request[c] = NoRequest
      /\ answer' = [d \in Calls |-> IF TabOf[d] = t THEN None ELSE answer[d]]
  BY DEF Reload, browser
<1>2. /\ dropped[c] = NoCall /\ answer'[c] = None
      /\ \A d \in Calls : \/ dropped[d] = call[d] /\ answer'[d] = answer[d]
                          \/ dropped[d] = NoCall /\ answer'[d] = None /\ d \in CallsOf(t)
  BY <1>1 DEF CallsOf
<1>3. "fault" \in reasons' => ~Clear' BY DEF Clear
<1>4. "overlap" \in reasons' => ~Clear' BY DEF Clear
<1>5. CASE store[In(c)] = None
  <2>1. call' = dropped /\ request' = request /\ reasons' = reasons \union lost
    BY <1>5 DEF Reload
  <2>2. \A d \in CallsOf(t) : Waiting(d) => ~Clear' BY <1>3, <2>1 DEF Because
  <2>3. Others(c) BY <1>2, <2>1, <2>2 DEF Others
  <2>4. Clear' => reasons' = reasons BY <1>3, <2>1 DEF Because
  <2>5. c \in CallsOf(t) BY DEF CallsOf
  <2> HIDE DEF lost, dropped
  <2> QED BY <1>1, <1>2, <1>5, <2>1, <2>2, <2>3, <2>4, <2>5 DEF Idles, NoCall
<1>6. CASE store[In(c)] # None
  <2>1. /\ call' = [dropped EXCEPT ![c] = r]
        /\ Send(c, "refresh", store[In(c)])
        /\ reasons' = reasons \union lost \union Because("overlap", Overlapped(c))
    BY <1>6 DEF Reload
  <2>2. \A d \in CallsOf(t) : Waiting(d) => ~Clear' BY <1>3, <2>1 DEF Because
  <2>3. /\ request'[c] = [op |-> "refresh", token |-> store[In(c)], step |-> "sent"]
        /\ \A d \in Calls \ {c} : request'[d] = request[d]
    BY <2>1 DEF Send, TypeOK
  <2>4. call'[c] = r /\ \A d \in Calls \ {c} : call'[d] = dropped[d] BY <2>1
  <2>5. Others(c) BY <1>2, <2>2, <2>3, <2>4 DEF Others
  <2>6. Clear' => reasons' = reasons /\ ~Overlapped(c) BY <1>3, <1>4, <2>1 DEF Because
  <2>7. r.step = "refreshing" /\ r.goal = "boot" BY DEF NoCall
  <2>8. c \in CallsOf(t) BY DEF CallsOf
  <2> HIDE DEF lost, dropped, r
  <2>9. Sends(c, "refresh", store[In(c)])
    BY <1>1, <1>2, <1>6, <2>3, <2>4, <2>5, <2>7 DEF Sends
  <2> QED BY <1>1, <1>6, <2>2, <2>4, <2>6, <2>8, <2>9 DEF r
<1> QED BY <1>5, <1>6


LEMMA ClientForm ==
  ASSUME TypeOK, FormInv, NEW c \in Calls, ClientNext(c)
  PROVE  FormInv'
<1>1. CASE Ask(c) BY <1>1, AskIdles, IdleForm
<1>2. CASE Refresh(c)
  <2>1. CASE Token(c) = None
    <3>1. ThrowOut(c) /\ UNCHANGED <<jti, issued, request>> /\ answer' = answer /\ ~Waiting(c)
      BY <1>2, <2>1 DEF Refresh, Waiting
    <3> QED BY <3>1, ThrowOutIdles, IdleForm
  <2>2. CASE Token(c) # None
    <3>1. Sends(c, "refresh", Token(c)) BY <1>2, <2>2, RefreshSends
    <3> QED BY <3>1, SentForm
  <2> QED BY <2>1, <2>2
<1>3. CASE Refreshed(c) BY <1>3, RefreshedIdles, IdleForm
<1>4. CASE RefreshRefused(c)
  <2>1. ThrowOut(c) /\ UNCHANGED <<jti, issued, request>> /\ Takes(c)
    BY <1>4 DEF RefreshRefused, server
  <2> QED BY <2>1, ThrowOutIdles, IdleForm
<1>5. CASE Proceed(c)
  <2>1. UNCHANGED <<jti, issued, request>> /\ answer' = answer /\ ~Waiting(c)
    BY <1>5 DEF Proceed, server, Waiting
  <2>2. CASE ThrowOut(c) \/ Ends(c) BY <2>1, <2>2, ThrowOutIdles, IdleForm
  <2>3. ASSUME NEW s \in {"granted", "denied"}, call' = [call EXCEPT ![c].step = s]
        PROVE  FormInv'
    BY <2>1, <2>3, StepIdles, IdleForm
  <2>4. CASE call' = [call EXCEPT ![c].step = "granted"] BY <2>3, <2>4
  <2>5. CASE call' = [call EXCEPT ![c].step = "denied"] BY <2>3, <2>5
  <2> QED BY <1>5, <2>2, <2>4, <2>5 DEF Proceed
<1>6. CASE Enter(c)
  <2>1. Ends(c) /\ UNCHANGED <<jti, issued, request>> /\ answer' = answer /\ ~Waiting(c)
    BY <1>6 DEF Enter, server, Waiting
  <2> QED BY <2>1, ThrowOutIdles, IdleForm
<1>7. CASE Reload(c)
  <2>1. CASE Idles(c) BY <2>1, IdleForm
  <2>2. CASE Sends(c, "refresh", store[In(c)]) BY <2>2, SentForm
  <2> QED BY <1>7, <2>1, <2>2, ReloadForm
<1>8. CASE Login(c) BY <1>8, LoginSends, SentForm
<1>9. CASE LoginAnswered(c)
  <2>1. UNCHANGED <<jti, issued, request>> /\ Takes(c) BY <1>9 DEF LoginAnswered, server
  <2>2. CASE Ends(c) BY <2>1, <2>2, ThrowOutIdles, IdleForm
  <2>3. CASE call' = [call EXCEPT ![c].step = "ready"] BY <2>1, <2>3, StepIdles, IdleForm
  <2> QED BY <1>9, <2>2, <2>3 DEF LoginAnswered
<1>10. CASE Logout(c)
  <2>1. CASE Token(c) = None
    <3>1. ThrowOut(c) /\ UNCHANGED <<jti, issued, request>> /\ answer' = answer /\ ~Waiting(c)
      BY <1>10, <2>1 DEF Logout, Waiting, Free, NoCall
    <3> QED BY <3>1, ThrowOutIdles, IdleForm
  <2>2. CASE Token(c) # None
    <3>1. Sends(c, "logout", Token(c)) BY <1>10, <2>2, LogoutSends
    <3> QED BY <3>1, SentForm
  <2> QED BY <2>1, <2>2
<1>11. CASE LogoutAgain(c)
  <2>1. Sends(c, "logout", call[c].body) BY <1>11, LogoutAgainSends
  <2> QED BY <2>1, SentForm
<1>12. CASE LogoutAnswered(c)
  <2>1. UNCHANGED <<jti, issued, request>> /\ Takes(c) BY <1>12 DEF LogoutAnswered, server
  <2>2. CASE ThrowOut(c) BY <2>1, <2>2, ThrowOutIdles, IdleForm
  <2>3. CASE call' = [call EXCEPT ![c].step = "denied"] BY <2>1, <2>3, StepIdles, IdleForm
  <2> QED BY <1>12, <2>2, <2>3 DEF LogoutAnswered
<1>13. CASE Lose(c)
  <2>1. UNCHANGED <<jti, issued, request>> /\ Takes(c) /\ (ThrowOut(c) \/ Ends(c))
    BY <1>13 DEF Lose, server
  <2> QED BY <2>1, ThrowOutIdles, IdleForm
<1> QED BY <1>1, <1>2, <1>3, <1>4, <1>5, <1>6, <1>7, <1>8, <1>9, <1>10, <1>11, <1>12, <1>13
        DEF ClientNext

LEMMA FormStep == TypeOK /\ FormInv /\ [Next]_vars => FormInv'
<1> SUFFICES ASSUME TypeOK, FormInv, [Next]_vars PROVE FormInv' OBVIOUS
<1>1. CASE UNCHANGED vars
  BY <1>1 DEF vars, server, FormInv, Form, Asked, Flushed, Waiting
<1>2. ASSUME NEW b \in Browsers, Expire(b) PROVE FormInv'
  BY <1>2 DEF Expire, server, FormInv, Form, Asked, Flushed, Waiting
<1> QED BY <1>1, <1>2, ServerForm, ClientForm DEF Next


-----------------------------------------------------------------------------
(* Steps of the client that send nothing *)

LEMMA IdleCalls ==
  ASSUME TypeOK, NEW c \in Calls, Idles(c), Clear',
         call'[c].goal = "logout" => call[c].goal = "logout",
         call'[c].body \in {call[c].body, None}
  PROVE  \A d \in Calls :
           /\ request'[d] = request[d]
           /\ Asked(d)' <=> Asked(d)
           /\ Taken(d)' <=> Taken(d)
           /\ Flushed(d)' <=> Flushed(d)
           /\ Busy(d)' => Busy(d)
           /\ Waiting(d)' => Waiting(d)
           /\ d # c => (Waiting(d)' <=> Waiting(d))
           /\ answer'[d] \in {answer[d], None}
           /\ call'[d].body \in {call[d].body, None}
           /\ call'[d].goal = "logout" => call[d].goal = "logout"
           /\ d # c => (call'[d].retried => call[d].retried)
           /\ LogsIn(d)' => d # c /\ LogsIn(d) /\ answer'[d] = answer[d]
<1> TAKE d \in Calls
<1>1. request'[d] = request[d] BY DEF Idles
<1>2. /\ Asked(d)' <=> Asked(d)
      /\ Taken(d)' <=> Taken(d)
      /\ Flushed(d)' <=> Flushed(d)
  BY <1>1 DEF Asked, Taken, Flushed
<1>3. CASE d = c BY <1>1, <1>2, <1>3 DEF Idles, Busy, Waiting, LogsIn
<1>4. CASE d # c /\ call'[d] = call[d] /\ answer'[d] = answer[d]
  BY <1>1, <1>2, <1>4 DEF Busy, Waiting, LogsIn
<1>5. CASE d # c /\ call'[d] = NoCall /\ answer'[d] = None /\ ~Waiting(d)
  BY <1>1, <1>2, <1>5 DEF Busy, Waiting, LogsIn, NoCall
<1> QED BY <1>3, <1>4, <1>5 DEF Idles, Others

LEMMA IdleSafe ==
  ASSUME TypeOK, FormInv, Safe, NEW c \in Calls, Idles(c), Clear',
         call'[c].goal = "logout" => call[c].goal = "logout",
         call'[c].body \in {call[c].body, None},
         reasons' = reasons, owner' = owner \/ reasons # {},
         ~Asked(c),
         store'[In(c)] \in {store[In(c)], None, answer[c]},
         \A b \in Browsers \ {In(c)} : store'[b] = store[b] /\ (b \in fresh => b \in fresh'),
         reasons = {} /\ owner = In(c) =>
           /\ fresh \subseteq fresh'
           /\ call'[c].retried => call[c].retried \/ owner \in fresh'
           /\ \/ store' = store /\ ~Waiting(c)
              \/ (answer[c] # None /\ store'[owner] = answer[c]),
         reasons = {} /\ owner = None /\ Closes(c) /\ Waiting(c) => store'[In(c)] = None
  PROVE  Safe'
<1>1. \A d \in Calls :
           /\ request'[d] = request[d]
           /\ Asked(d)' <=> Asked(d)
           /\ Taken(d)' <=> Taken(d)
           /\ Flushed(d)' <=> Flushed(d)
           /\ Busy(d)' => Busy(d)
           /\ Waiting(d)' => Waiting(d)
           /\ d # c => (Waiting(d)' <=> Waiting(d))
           /\ answer'[d] \in {answer[d], None}
           /\ call'[d].body \in {call[d].body, None}
           /\ call'[d].goal = "logout" => call[d].goal = "logout"
           /\ d # c => (call'[d].retried => call[d].retried)
           /\ LogsIn(d)' => d # c /\ LogsIn(d) /\ answer'[d] = answer[d]
  BY IdleCalls
<1>2. jti' = jti /\ issued' = issued BY DEF Idles
<1>3. \A d \in Calls : In(d)' = In(d) BY DEF In
<1>4. ASSUME NEW v, Current(v) PROVE Current(v)' BY <1>1, <1>2, <1>4 DEF Current
<1>5. \A b \in Browsers : \/ store'[b] \in {store[b], None}
                         \/ (b = In(c) /\ store'[b] = answer[c])
  OBVIOUS
<1>6. ASSUME NEW b, NEW v, v # None, Only(b, v) PROVE Only(b, v)'
  BY <1>1, <1>3, <1>5, <1>6 DEF Only
<1>7. \A d \in Calls : SoleTaken(d) => SoleTaken(d)' BY <1>1 DEF SoleTaken
<1>8. \A d \in Calls : AloneIn(d) => AloneIn(d)' BY <1>1, <1>3 DEF AloneIn
<1>9. RunInv' BY <1>1 DEF Safe, RunInv
<1>10. LoginInv'
  <2> SUFFICES ASSUME NEW d \in Calls, LogsIn(d)'
               PROVE  /\ "login" \in reasons'
                      /\ \A e \in Calls : LogsIn(e)' => e = d
                      /\ AloneIn(d)'
                      /\ answer'[d] # None =>
                           /\ answer'[d] \in 1..issued' /\ Current(answer[d])'
                           /\ Only(In(d), answer[d])' /\ SoleTaken(d)'
    BY DEF LoginInv
  <2>1. LogsIn(d) /\ answer'[d] = answer[d] BY <1>1
  <2>2. CASE answer[d] = None BY <1>1, <1>8, <2>1, <2>2 DEF Safe, LoginInv
  <2>3. CASE answer[d] # None
    BY <1>1, <1>2, <1>3, <1>4, <1>6, <1>7, <1>8, <2>1, <2>3 DEF Safe, LoginInv
  <2> QED BY <2>2, <2>3
<1>11. ASSUME reasons' = {}, owner' # None PROVE OwnerInv'
  <2>1. owner' = owner /\ reasons = {} /\ OwnerInv BY <1>11 DEF Safe
  <2>2. PICK v \in 1..issued : Holds(owner, v) BY <2>1 DEF OwnerInv
  <2>3. v # None BY RotationAssumption
  <2>4. owner \in Browsers BY <1>11, <2>1 DEF TypeOK
  <2>5. /\ owner \in fresh => owner \in fresh'
        /\ store'[owner] # None
    BY <2>1, <2>4 DEF OwnerInv
  <2>6. (\A d \in Calls : In(d) = owner => ~Waiting(d)') => store'[owner] = v
    <3>1. CASE In(c) = owner /\ answer[c] # None /\ store'[owner] = answer[c]
      BY <2>2, <3>1 DEF Holds
    <3>2. CASE In(c) = owner /\ store' = store /\ ~Waiting(c)
      BY <1>1, <2>2, <3>2 DEF Holds
    <3>3. CASE In(c) # owner BY <1>1, <2>2, <2>4, <3>3 DEF Holds
    <3> QED BY <2>1, <3>1, <3>2, <3>3
  <2>7. \A d \in Calls : In(d) = owner =>
          (call'[d].retried => call[d].retried \/ owner \in fresh')
    BY <1>1, <2>1
  <2>8. Current(v)' /\ Only(owner, v)' BY <1>4, <1>6, <2>1, <2>2, <2>3 DEF Holds
  <2>9. Holds(owner, v)'
    BY <1>1, <1>3, <2>1, <2>2, <2>5, <2>6, <2>7, <2>8 DEF Holds
  <2>10. v \in 1..issued' BY <1>2
  <2> QED BY <1>1, <1>3, <2>1, <2>5, <2>9, <2>10 DEF OwnerInv
<1>12. ASSUME reasons' = {}, owner' = None PROVE EndedInv'
  <2>1. owner = None /\ reasons = {} /\ EndedInv BY <1>12 DEF Safe
  <2>2. CASE jti = None BY <1>1, <1>2, <2>1, <2>2 DEF EndedInv
  <2>3. CASE jti # None
    <3>1. PICK e \in Calls : Closes(e) BY <2>1, <2>3 DEF EndedInv
    <3>2. Only(In(e), jti)' BY <1>2, <1>3, <1>6, <2>3, <3>1 DEF Closes
    <3>3. ~Waiting(e)' => store'[In(e)] = None
      <4>1. CASE e = c
        <5>1. ~Waiting(c) => answer[c] = None BY IdleAnswer
        <5> QED BY <1>5, <2>1, <3>1, <4>1, <5>1, InTyped DEF Closes
      <4>2. CASE e # c
        <5>1. In(c) = In(e) => answer[c] = None
          BY <3>1, <4>2, IdleAnswer DEF Closes, AloneIn, Busy
        <5> QED BY <1>1, <1>5, <3>1, <4>2, <5>1, InTyped DEF Closes
      <4> QED BY <4>1, <4>2
    <3>4. Closes(e)' BY <1>1, <1>2, <1>3, <1>7, <1>8, <3>1, <3>2, <3>3 DEF Closes
    <3> QED BY <1>2, <2>3, <3>4 DEF EndedInv
  <2> QED BY <2>2, <2>3
<1> QED BY <1>9, <1>10, <1>11, <1>12 DEF Safe


-----------------------------------------------------------------------------
(* Steps of the client that send a request *)

LEMMA SendCalls ==
  ASSUME TypeOK, NEW c \in Calls, NEW op, NEW id, Sends(c, op, id), Clear', ~Waiting(c),
         answer[c] = None
  PROVE  /\ \A d \in Calls \ {c} :
              /\ request'[d] = request[d]
              /\ Asked(d)' <=> Asked(d)
              /\ Busy(d)' => Busy(d)
              /\ Waiting(d)' <=> Waiting(d)
              /\ call'[d].body \in {call[d].body, None}
              /\ call'[d].goal = "logout" => call[d].goal = "logout"
              /\ call'[d].retried => call[d].retried
              /\ LogsIn(d)' => LogsIn(d)
         /\ \A d \in Calls : /\ Taken(d)' <=> Taken(d)
                             /\ Flushed(d)' <=> Flushed(d)
                             /\ Flushed(d) => request'[d] = request[d]
                             /\ answer'[d] \in {answer[d], None}
                             /\ LogsIn(d) => answer'[d] = answer[d]
         /\ Asked(c)' /\ Waiting(c)' /\ request'[c].token = id
<1>1. ASSUME NEW d \in Calls \ {c}
      PROVE  /\ request'[d] = request[d]
             /\ Asked(d)' <=> Asked(d)
             /\ Busy(d)' => Busy(d)
             /\ Waiting(d)' <=> Waiting(d)
             /\ call'[d].body \in {call[d].body, None}
             /\ call'[d].goal = "logout" => call[d].goal = "logout"
             /\ call'[d].retried => call[d].retried
             /\ LogsIn(d)' => LogsIn(d)
             /\ Taken(d)' <=> Taken(d)
             /\ Flushed(d)' <=> Flushed(d)
             /\ answer'[d] \in {answer[d], None}
             /\ LogsIn(d) => answer'[d] = answer[d]
  <2>1. request'[d] = request[d] BY DEF Sends, Others
  <2>2. CASE call'[d] = call[d] /\ answer'[d] = answer[d]
    BY <2>1, <2>2 DEF Busy, Waiting, LogsIn, Asked, Taken, Flushed
  <2>3. CASE call'[d] = NoCall /\ answer'[d] = None /\ ~Waiting(d)
    BY <2>1, <2>3 DEF Busy, Waiting, LogsIn, Asked, Taken, Flushed, NoCall
  <2> QED BY <2>2, <2>3 DEF Sends, Others
<1>2. /\ ~Taken(c) /\ ~Taken(c)' /\ ~Flushed(c) /\ ~Flushed(c)' /\ answer'[c] = None
      /\ ~LogsIn(c) /\ Asked(c)' /\ Waiting(c)' /\ request'[c].token = id
  BY DEF Sends, Taken, Flushed, NoRequest, LogsIn, Waiting, Asked
<1> QED BY <1>1, <1>2

\* A request to refresh or to log out that overlaps no other of its browser.
LEMMA SendSafe ==
  ASSUME TypeOK, FormInv, Safe, NEW c \in Calls, NEW op \in {"refresh", "logout"}, NEW id,
         Sends(c, op, id), Clear',
         reasons' = reasons, ~Overlapped(c), ~Waiting(c),
         owner' = owner \/ reasons # {},
         id = store[In(c)] \/ (id = call[c].body /\ call[c].goal = "logout"),
         call'[c].body \in {call[c].body, store[In(c)], None},
         reasons = {} /\ owner = In(c) =>
           /\ id = store[In(c)] /\ call'[c].goal # "logout"
           /\ call'[c].retried => call[c].retried
  PROVE  Safe'
<1>0. answer[c] = None BY IdleAnswer
<1>1. /\ \A d \in Calls \ {c} :
              /\ request'[d] = request[d]
              /\ Asked(d)' <=> Asked(d)
              /\ Busy(d)' => Busy(d)
              /\ Waiting(d)' <=> Waiting(d)
              /\ call'[d].body \in {call[d].body, None}
              /\ call'[d].goal = "logout" => call[d].goal = "logout"
              /\ call'[d].retried => call[d].retried
              /\ LogsIn(d)' => LogsIn(d)
      /\ \A d \in Calls : /\ Taken(d)' <=> Taken(d)
                          /\ Flushed(d)' <=> Flushed(d)
                          /\ Flushed(d) => request'[d] = request[d]
                          /\ answer'[d] \in {answer[d], None}
                          /\ LogsIn(d) => answer'[d] = answer[d]
      /\ Asked(c)' /\ Waiting(c)' /\ request'[c].token = id
  BY <1>0, SendCalls
<1>2. jti' = jti /\ issued' = issued /\ store' = store /\ fresh' = fresh /\ id # None
  BY DEF Sends
<1>3. \A d \in Calls : In(d)' = In(d) /\ In(d) \in Browsers BY InTyped DEF In
<1>4. ASSUME NEW v, Current(v) PROVE Current(v)' BY <1>1, <1>2, <1>4 DEF Current
<1>5. ASSUME NEW b, NEW v, v # None, Only(b, v) PROVE Only(b, v)'
  <2>1. In(c) # b => store[In(c)] # v /\ call[c].body # v /\ id # v BY <1>3, <1>5 DEF Only
  <2> QED BY <1>1, <1>2, <1>3, <1>5, <2>1 DEF Only
<1>6. \A d \in Calls : SoleTaken(d) => SoleTaken(d)' BY <1>1 DEF SoleTaken
<1>7. ASSUME NEW d \in Calls \ {c}, Busy(d) PROVE In(d) # In(c)
  BY <1>7 DEF Overlapped, Busy
<1>8. \A d \in Calls : AloneIn(d) /\ (d # c => In(d) # In(c)) => AloneIn(d)'
  BY <1>1, <1>3 DEF AloneIn
<1>9. ~LogsIn(c)' BY DEF Sends, LogsIn
<1>10. RunInv' BY <1>1 DEF Safe, RunInv
<1>11. LoginInv'
  <2> SUFFICES ASSUME NEW d \in Calls, LogsIn(d)'
               PROVE  /\ "login" \in reasons'
                      /\ \A e \in Calls : LogsIn(e)' => e = d
                      /\ AloneIn(d)'
                      /\ answer'[d] # None =>
                           /\ answer'[d] \in 1..issued' /\ Current(answer[d])'
                           /\ Only(In(d), answer[d])' /\ SoleTaken(d)'
    BY DEF LoginInv
  <2>1. d # c /\ LogsIn(d) /\ answer'[d] = answer[d] BY <1>1, <1>9
  <2>2. Busy(d) BY <2>1 DEF LogsIn, Busy, Waiting
  <2>3. AloneIn(d)' BY <1>7, <1>8, <2>1, <2>2 DEF Safe, LoginInv
  <2>4. \A e \in Calls : LogsIn(e)' => e = d BY <1>1, <1>9, <2>1 DEF Safe, LoginInv
  <2>5. "login" \in reasons' BY <2>1 DEF Safe, LoginInv
  <2>6. CASE answer[d] = None BY <2>1, <2>3, <2>4, <2>5, <2>6
  <2>7. CASE answer[d] # None
    <3>1. /\ answer[d] \in 1..issued /\ Current(answer[d])
          /\ Only(In(d), answer[d]) /\ SoleTaken(d)
      BY <2>1, <2>7 DEF Safe, LoginInv
    <3> QED BY <1>2, <1>3, <1>4, <1>5, <1>6, <2>1, <2>3, <2>4, <2>5, <2>7, <3>1
  <2> QED BY <2>6, <2>7
<1>12. ASSUME reasons' = {}, owner' # None PROVE OwnerInv'
  <2>1. owner' = owner /\ reasons = {} /\ OwnerInv BY <1>12 DEF Safe
  <2>2. PICK v \in 1..issued : Holds(owner, v) BY <2>1 DEF OwnerInv
  <2>3. v # None BY RotationAssumption
  <2>4. Current(v)' /\ Only(owner, v)' BY <1>4, <1>5, <2>1, <2>2, <2>3 DEF Holds
  <2>5. CASE In(c) = owner
    <3>1. \A d \in Calls \ {c} : In(d) = owner => ~Busy(d)' BY <1>1, <1>7, <2>5
    <3>2. \A d \in Calls : In(d) = owner => ~Waiting(d) BY <1>7, <2>5 DEF Busy
    <3>3. store[owner] = v BY <2>2, <3>2 DEF Holds
    <3>4. \A d \in Calls \ {c} : In(d) = owner => ~Asked(d)'
      <4> SUFFICES ASSUME NEW d \in Calls \ {c}, In(d) = owner PROVE ~Asked(d)' OBVIOUS
      <4>1. ~Asked(d) BY <3>2 DEF Safe, RunInv
      <4> QED BY <1>1, <4>1
    <3>5. answer'[c] = None BY DEF Sends
    <3>6. Holds(owner, v)'
      BY <1>1, <1>2, <1>3, <2>1, <2>2, <2>4, <2>5, <3>3, <3>4, <3>5 DEF Holds
    <3>7. \A d, e \in Calls : In(d) = owner /\ In(e) = owner /\ Busy(d)' /\ Busy(e)' => d = e
      BY <3>1
    <3> QED BY <1>1, <1>2, <1>3, <2>1, <3>6, <3>7 DEF OwnerInv
  <2>6. CASE In(c) # owner
    <3>1. Holds(owner, v)' BY <1>1, <1>2, <1>3, <2>1, <2>2, <2>4, <2>6 DEF Holds
    <3>2. \A d, e \in Calls : In(d) = owner /\ In(e) = owner /\ Busy(d)' /\ Busy(e)' => d = e
      BY <1>1, <2>1, <2>6 DEF OwnerInv
    <3> QED BY <1>1, <1>2, <1>3, <2>1, <3>1, <3>2 DEF OwnerInv
  <2> QED BY <2>5, <2>6
<1>13. ASSUME reasons' = {}, owner' = None PROVE EndedInv'
  <2>1. owner = None /\ reasons = {} /\ EndedInv BY <1>13 DEF Safe
  <2>2. CASE jti = None BY <1>1, <1>2, <2>1, <2>2 DEF EndedInv
  <2>3. CASE jti # None
    <3>1. PICK e \in Calls : Closes(e) BY <2>1, <2>3 DEF EndedInv
    <3>2. e # c /\ Busy(e) BY <3>1 DEF Closes, Sends, NoRequest, Busy
    <3>3. In(e) # In(c) BY <1>7, <3>2
    <3>4. Only(In(e), jti)' BY <1>2, <1>3, <1>5, <2>3, <3>1 DEF Closes
    <3>5. Closes(e)'
      BY <1>1, <1>2, <1>3, <1>6, <1>8, <3>1, <3>2, <3>3, <3>4 DEF Closes
    <3> QED BY <1>2, <2>3, <3>5 DEF EndedInv
  <2> QED BY <2>2, <2>3
<1> QED BY <1>10, <1>11, <1>12, <1>13 DEF Safe


-----------------------------------------------------------------------------
(* Steps of the server *)

\* A request to log in that is not answered yet is the one of its call.
LEMMA LoginRequest ==
  ASSUME FormInv, NEW c \in Calls, Asked(c), Waiting(c), request[c].op = "login"
  PROVE  LogsIn(c)
BY DEF FormInv, Form, Waiting, LogsIn

\* A request that is accepted is the one the session waits for.
LEMMA LoadAccepted ==
  ASSUME TypeOK, FormInv, Safe, NEW c \in Calls, Load(c), Accepted(c), Clear'
  PROVE  Safe'
<1>1. /\ request[c].step = "sent" /\ request' = [request EXCEPT ![c].step = "loaded"]
      /\ answer' = answer /\ call' = call /\ store' = store /\ fresh' = fresh
      /\ jti' = jti /\ issued' = issued /\ owner' = owner
      /\ reasons' = reasons \union
           Because("overlap", \E d \in Calls \ {c} : request[d].step \in {"loaded", "flushed"})
  BY DEF Load, browser
<1>2. reasons' = reasons /\ \A d \in Calls : ~Taken(d) BY <1>1 DEF Clear, Because, Taken
<1>3. /\ \A d \in Calls \ {c} : request'[d] = request[d]
      /\ request'[c].op = request[c].op /\ request'[c].token = request[c].token
      /\ request'[c].step = "loaded"
  BY <1>1 DEF TypeOK, Requests
<1>4. \A d \in Calls : /\ Asked(d)' <=> Asked(d)
                       /\ Waiting(d)' <=> Waiting(d)
                       /\ LogsIn(d)' <=> LogsIn(d)
                       /\ Busy(d)' <=> Busy(d)
                       /\ Taken(d)' <=> d = c
                       /\ ~Flushed(d) /\ ~Flushed(d)'
                       /\ request'[d].token = request[d].token
                       /\ request'[d].op = request[d].op
                       /\ In(d)' = In(d)
  BY <1>1, <1>2, <1>3 DEF Asked, Waiting, LogsIn, Busy, Taken, Flushed, NoRequest, In
<1>5. \A v : Current(v) <=> jti = v BY <1>4 DEF Current
<1>6. \A v : Current(v)' <=> jti = v BY <1>1, <1>4 DEF Current
<1>7. ASSUME NEW b, NEW v, Only(b, v) PROVE Only(b, v)' BY <1>1, <1>4, <1>7 DEF Only
<1>8. Asked(c) /\ Waiting(c) /\ Busy(c) BY <1>1 DEF Asked, Safe, RunInv, Busy
<1>9. LogsIn(c) \/ jti = request[c].token BY <1>8, LoginRequest DEF Accepted
<1>10. RunInv' BY <1>4 DEF Safe, RunInv
<1>11. \A d \in Calls : AloneIn(d) => AloneIn(d)' BY <1>4 DEF AloneIn
<1>12. LoginInv'
  <2> SUFFICES ASSUME NEW d \in Calls, LogsIn(d)'
               PROVE  /\ "login" \in reasons'
                      /\ \A e \in Calls : LogsIn(e)' => e = d
                      /\ AloneIn(d)'
                      /\ answer'[d] # None =>
                           /\ answer'[d] \in 1..issued' /\ Current(answer[d])'
                           /\ Only(In(d), answer[d])' /\ SoleTaken(d)'
    BY DEF LoginInv
  <2>1. /\ LogsIn(d) /\ "login" \in reasons /\ AloneIn(d)
        /\ \A e \in Calls : LogsIn(e) => e = d
        /\ answer[d] # None =>
             /\ answer[d] \in 1..issued /\ Current(answer[d])
             /\ Only(In(d), answer[d]) /\ SoleTaken(d)
    BY <1>4 DEF Safe, LoginInv
  <2>2. CASE answer[d] = None BY <1>1, <1>2, <1>4, <1>11, <2>1, <2>2
  <2>3. CASE answer[d] # None
    <3>1. d # c BY <1>8, <2>3 DEF FormInv, Form
    <3>2. jti = answer[d] /\ jti = request[c].token BY <1>5, <1>9, <2>1, <2>3, <3>1
    <3>3. In(c) # In(d) BY <1>8, <2>1, <3>1 DEF AloneIn
    <3> QED BY <1>8, <2>1, <2>3, <3>2, <3>3 DEF Only
  <2> QED BY <2>2, <2>3
<1>13. ASSUME reasons' = {}, owner' # None PROVE OwnerInv'
  <2>1. owner' = owner /\ reasons = {} /\ OwnerInv BY <1>1, <1>2, <1>13 DEF Safe
  <2>2. PICK v \in 1..issued : Holds(owner, v) BY <2>1 DEF OwnerInv
  <2>3. Current(v)' /\ Only(owner, v)' /\ jti = v BY <1>5, <1>6, <1>7, <2>1, <2>2 DEF Holds
  <2>4. ~LogsIn(c) BY <2>1 DEF Safe, LoginInv
  <2>5. In(c) = owner BY <1>8, <1>9, <2>2, <2>3, <2>4 DEF Holds, Only
  <2>6. Holds(owner, v)' BY <1>1, <1>4, <2>1, <2>2, <2>3 DEF Holds
  <2> QED BY <1>1, <1>4, <2>1, <2>5, <2>6 DEF OwnerInv
<1>14. ASSUME reasons' = {}, owner' = None PROVE EndedInv'
  <2>1. owner = None /\ reasons = {} /\ EndedInv BY <1>1, <1>2, <1>14 DEF Safe
  <2>2. ~LogsIn(c) BY <2>1 DEF Safe, LoginInv
  <2>3. jti = request[c].token BY <1>9, <2>2
  <2>4. jti # None BY <1>8, <2>2, <2>3, LoginRequest DEF FormInv, Form
  <2>5. PICK e \in Calls : Closes(e) BY <2>1, <2>4 DEF EndedInv
  <2>6. e = c
    <3> SUFFICES ASSUME e # c PROVE FALSE OBVIOUS
    <3>1. In(c) # In(e) BY <1>8, <2>5 DEF Closes, AloneIn
    <3> QED BY <1>8, <2>3, <2>5, <3>1 DEF Closes, Only
  <2>7. Only(In(c), jti)' BY <1>1, <1>4, <1>7, <2>5, <2>6 DEF Closes
  <2>8. Closes(c)' BY <1>1, <1>4, <1>8, <1>11, <2>3, <2>5, <2>6, <2>7 DEF Closes, SoleTaken
  <2> QED BY <1>1, <2>4, <2>8 DEF EndedInv
<1> QED BY <1>10, <1>12, <1>13, <1>14 DEF Safe

\* A request that is refused is none the session waits for.
LEMMA LoadRefused ==
  ASSUME TypeOK, FormInv, Safe, NEW c \in Calls, Load(c), ~Accepted(c), Clear'
  PROVE  Safe'
<1>1. /\ request[c].step = "sent" /\ request' = [request EXCEPT ![c] = NoRequest]
      /\ answer' = IF Waiting(c) THEN [answer EXCEPT ![c] = Refused] ELSE answer
      /\ call' = call /\ store' = store /\ fresh' = fresh
      /\ jti' = jti /\ issued' = issued /\ owner' = owner /\ reasons' = reasons
  BY DEF Load, browser
<1>2. Asked(c) /\ Waiting(c) /\ Busy(c) BY <1>1 DEF Asked, Safe, RunInv, Busy
<1>3. /\ request'[c] = NoRequest /\ answer'[c] = Refused
      /\ \A d \in Calls \ {c} : request'[d] = request[d] /\ answer'[d] = answer[d]
  BY <1>1, <1>2 DEF TypeOK
<1>4. \A d \in Calls : /\ d # c => (Asked(d)' <=> Asked(d))
                       /\ ~Asked(c)'
                       /\ Waiting(d)' <=> Waiting(d)
                       /\ LogsIn(d)' <=> LogsIn(d)
                       /\ Busy(d)' <=> Busy(d)
                       /\ Taken(d)' <=> Taken(d)
                       /\ Flushed(d)' <=> Flushed(d)
                       /\ Flushed(d) => request'[d] = request[d]
                       /\ In(d)' = In(d)
  BY <1>1, <1>2, <1>3 DEF Asked, Waiting, LogsIn, Busy, Taken, Flushed, NoRequest, In
<1>5. ASSUME NEW v, Current(v) PROVE Current(v)' BY <1>1, <1>4, <1>5 DEF Current
<1>6. ASSUME NEW b, NEW v, v # Refused, Only(b, v) PROVE Only(b, v)'
  BY <1>1, <1>3, <1>4, <1>6 DEF Only
<1>7. ~LogsIn(c)
  BY <1>1 DEF LogsIn, FormInv, Form, Accepted
<1>8. \A d \in Calls : (AloneIn(d) => AloneIn(d)') /\ (SoleTaken(d) => SoleTaken(d)')
  BY <1>4 DEF AloneIn, SoleTaken
<1>9. RunInv' BY <1>3, <1>4 DEF Safe, RunInv
<1>10. LoginInv'
  <2> SUFFICES ASSUME NEW d \in Calls, LogsIn(d)'
               PROVE  /\ "login" \in reasons'
                      /\ \A e \in Calls : LogsIn(e)' => e = d
                      /\ AloneIn(d)'
                      /\ answer'[d] # None =>
                           /\ answer'[d] \in 1..issued' /\ Current(answer[d])'
                           /\ Only(In(d), answer[d])' /\ SoleTaken(d)'
    BY <1>3, <1>4, <1>7 DEF LoginInv
  <2>1. /\ LogsIn(d) /\ "login" \in reasons /\ AloneIn(d)
        /\ \A e \in Calls : LogsIn(e) => e = d
        /\ answer[d] # None =>
             /\ answer[d] \in 1..issued /\ Current(answer[d])
             /\ Only(In(d), answer[d]) /\ SoleTaken(d)
    BY <1>4 DEF Safe, LoginInv
  <2>2. d # c /\ answer'[d] = answer[d] BY <1>3, <1>7, <2>1
  <2>3. CASE answer[d] = None BY <1>1, <1>4, <1>8, <2>1, <2>2, <2>3
  <2>4. CASE answer[d] # None
    <3>1. answer[d] # Refused BY <2>1, <2>4 DEF Refused
    <3> QED BY <1>1, <1>4, <1>5, <1>6, <1>8, <2>1, <2>2, <2>4, <3>1
  <2> QED BY <2>3, <2>4
<1>11. ASSUME reasons' = {}, owner' # None PROVE OwnerInv'
  <2>1. owner' = owner /\ reasons = {} /\ OwnerInv BY <1>1, <1>11 DEF Safe
  <2>2. PICK v \in 1..issued : Holds(owner, v) BY <2>1 DEF OwnerInv
  <2>3. v # Refused BY DEF Refused
  <2>4. Current(v)' /\ Only(owner, v)' BY <1>5, <1>6, <2>1, <2>2, <2>3 DEF Holds
  <2>5. In(c) # owner
    <3> SUFFICES ASSUME In(c) = owner PROVE FALSE OBVIOUS
    <3>1. request[c].token = v BY <1>2, <2>2 DEF Holds
    <3>2. ASSUME NEW f \in Calls, Flushed(f) PROVE FALSE
      <4>1. In(f) = owner /\ Busy(f)
        BY <2>1, <3>2 DEF OwnerInv, Taken, Flushed, Busy, NoRequest
      <4> QED BY <1>1, <1>2, <2>1, <3>2, <4>1 DEF OwnerInv, Flushed
    <3>3. jti = v BY <2>2, <3>2 DEF Holds, Current
    <3> QED BY <3>1, <3>3 DEF Accepted
  <2>6. Holds(owner, v)'
    <3>1. \A d \in Calls : In(d) = owner => answer'[d] = answer[d] /\ request'[d] = request[d]
      BY <1>3, <2>5
    <3> QED BY <1>1, <1>4, <2>1, <2>2, <2>4, <2>5, <3>1 DEF Holds
  <2> QED BY <1>1, <1>4, <2>1, <2>6 DEF OwnerInv
<1>12. ASSUME reasons' = {}, owner' = None PROVE EndedInv'
  <2>1. owner = None /\ reasons = {} /\ EndedInv BY <1>1, <1>12 DEF Safe
  <2>2. CASE jti = None BY <1>1, <1>4, <2>1, <2>2 DEF EndedInv
  <2>3. CASE jti # None
    <3>1. PICK e \in Calls : Closes(e) BY <2>1, <2>3 DEF EndedInv
    <3>2. e # c BY <1>1, <3>1 DEF Closes, Accepted, Flushed
    <3>3. jti # Refused BY <2>3 DEF TypeOK, Issued, Refused
    <3>4. Only(In(e), jti)' BY <1>1, <1>4, <1>6, <3>1, <3>3 DEF Closes
    <3>5. Closes(e)' BY <1>1, <1>3, <1>4, <1>8, <3>1, <3>2, <3>4 DEF Closes
    <3> QED BY <1>1, <2>3, <3>5 DEF EndedInv
  <2> QED BY <2>2, <2>3
<1> QED BY <1>9, <1>10, <1>11, <1>12 DEF Safe


\* The UPDATE of the one request that is accepted.
LEMMA FlushSafe ==
  ASSUME TypeOK, FormInv, Safe, NEW c \in Calls, Flush(c), Clear'
  PROVE  Safe'
<1>1. /\ request[c].step = "loaded" /\ \A d \in Calls : ~Flushed(d)
      /\ request' = [request EXCEPT ![c] =
                       [@ EXCEPT !.token = NewToken(c), !.step = "flushed"]]
      /\ answer' = IF ~Waiting(c) THEN answer
                   ELSE [answer EXCEPT ![c] = IF request[c].op = "logout"
                                              THEN request[c].token ELSE issued + 1]
      /\ issued' = IF request[c].op = "logout" THEN issued ELSE issued + 1
      /\ call' = call /\ store' = store /\ fresh' = fresh
      /\ jti' = jti /\ owner' = owner /\ reasons' = reasons
  BY DEF Flush, browser, aux, Flushed
<1>2. Asked(c) /\ Waiting(c) /\ Busy(c) /\ Taken(c)
  BY <1>1 DEF Asked, Safe, RunInv, Busy, Taken
<1>3. /\ request'[c].op = request[c].op /\ request'[c].step = "flushed"
      /\ request'[c].token = NewToken(c)
      /\ answer'[c] = IF request[c].op = "logout" THEN request[c].token ELSE issued + 1
      /\ \A d \in Calls \ {c} : request'[d] = request[d] /\ answer'[d] = answer[d]
  BY <1>1, <1>2 DEF TypeOK, Requests
<1>4. \A d \in Calls : /\ d # c => (Asked(d)' <=> Asked(d))
                       /\ ~Asked(c)'
                       /\ Waiting(d)' <=> Waiting(d)
                       /\ LogsIn(d)' <=> LogsIn(d)
                       /\ Busy(d)' <=> Busy(d)
                       /\ Taken(d)' <=> Taken(d)
                       /\ Flushed(d)' <=> d = c
                       /\ In(d)' = In(d)
  BY <1>1, <1>2, <1>3 DEF Asked, Waiting, LogsIn, Busy, Taken, Flushed, NoRequest, In
<1>5. \A d \in Calls : Taken(d) => d = c BY <1>2 DEF Safe, RunInv
<1>6. \A d \in Calls : (AloneIn(d) => AloneIn(d)') /\ (SoleTaken(d) => SoleTaken(d)')
  BY <1>4 DEF AloneIn, SoleTaken
<1>7. SoleTaken(c)' BY <1>4, <1>5 DEF SoleTaken
<1>8. request[c].op # "logout" =>
        \A v : v = issued + 1 => /\ answer'[c] = v /\ v \in 1..issued' /\ Current(v)'
                               /\ \A b : b = In(c) => Only(b, v)'
  <2> SUFFICES ASSUME request[c].op # "logout", NEW v, v = issued + 1
               PROVE  /\ answer'[c] = v /\ v \in 1..issued' /\ Current(v)'
                      /\ \A b : b = In(c) => Only(b, v)'
    OBVIOUS
  <2>1. issued' = v /\ answer'[c] = v /\ issued \in Nat BY <1>1, <1>3 DEF TypeOK
  <2>2. v \in 1..issued' BY <2>1
  <2>3. request'[c].token = v BY <1>3 DEF NewToken
  <2>4. Current(v)' BY <1>4, <2>3 DEF Current
  <2>5. v \notin Issued \union {Refused, Failed}
    BY <2>1, RotationAssumption DEF Issued, Refused, Failed
  <2>6. \A d \in Calls : /\ request[d].token \in Issued /\ call[d].body \in Issued
                         /\ answer[d] \in Issued \union {Refused, Failed}
    BY DEF TypeOK, Requests, ClientCalls
  <2>7. \A b \in Browsers : store[b] \in Issued BY DEF TypeOK
  <2>8. ASSUME NEW b, b = In(c) PROVE Only(b, v)'
    BY <1>1, <1>3, <1>4, <2>5, <2>6, <2>7, <2>8 DEF Only
  <2> QED BY <2>1, <2>2, <2>4, <2>8
<1>9. RunInv' BY <1>4 DEF Safe, RunInv
<1>10. LoginInv'
  <2> SUFFICES ASSUME NEW d \in Calls, LogsIn(d)'
               PROVE  /\ "login" \in reasons'
                      /\ \A e \in Calls : LogsIn(e)' => e = d
                      /\ AloneIn(d)'
                      /\ answer'[d] # None =>
                           /\ answer'[d] \in 1..issued' /\ Current(answer[d])'
                           /\ Only(In(d), answer[d])' /\ SoleTaken(d)'
    BY DEF LoginInv
  <2>1. /\ LogsIn(d) /\ "login" \in reasons /\ AloneIn(d)
        /\ \A e \in Calls : LogsIn(e) => e = d
        /\ answer[d] # None => SoleTaken(d)
    BY <1>4 DEF Safe, LoginInv
  <2>2. CASE d = c
    <3>1. request[c].op # "logout" BY <2>1, <2>2 DEF FormInv, Form, LogsIn
    <3> QED BY <1>1, <1>4, <1>6, <1>7, <1>8, <2>1, <2>2, <3>1
  <2>3. CASE d # c
    <3>1. answer'[d] = None BY <1>2, <1>3, <2>1, <2>3 DEF SoleTaken
    <3> QED BY <1>1, <1>4, <1>6, <2>1, <3>1
  <2> QED BY <2>2, <2>3
<1>11. ASSUME reasons' = {}, owner' # None PROVE OwnerInv'
  <2>1. owner' = owner /\ reasons = {} /\ OwnerInv BY <1>1, <1>11 DEF Safe
  <2>2. PICK v \in 1..issued : Holds(owner, v) BY <2>1 DEF OwnerInv
  <2>3. In(c) = owner BY <1>2, <2>1 DEF OwnerInv
  <2>4. request[c].op # "logout"
    BY <1>2, <2>2, <2>3 DEF Holds, FormInv, Form, Waiting
  <2>5. \A d \in Calls : In(d) = owner /\ Busy(d) => d = c BY <1>2, <2>1, <2>3 DEF OwnerInv
  <2>6. \A d \in Calls \ {c} : In(d) = owner => ~Asked(d)'
    <3> SUFFICES ASSUME NEW d \in Calls \ {c}, In(d) = owner PROVE ~Asked(d)' OBVIOUS
    <3>1. ~Asked(d) BY <2>5 DEF Asked, Busy, NoRequest
    <3> QED BY <1>4, <3>1
  <2>7. \A d \in Calls \ {c} : In(d) = owner => answer'[d] = None
    BY <1>3, <2>5 DEF Busy, FormInv, Form
  <2>8. PICK w : w = issued + 1 OBVIOUS
  <2>9. /\ answer'[c] = w /\ w \in 1..issued' /\ Current(w)' /\ Only(owner, w)'
    BY <1>8, <2>1, <2>3, <2>4, <2>8
  <2>10. Holds(owner, w)'
    BY <1>1, <1>2, <1>4, <2>1, <2>2, <2>3, <2>6, <2>7, <2>9 DEF Holds
  <2> QED BY <1>1, <1>4, <2>1, <2>9, <2>10 DEF OwnerInv
<1>12. ASSUME reasons' = {}, owner' = None PROVE EndedInv'
  <2>1. owner = None /\ reasons = {} /\ EndedInv BY <1>1, <1>12 DEF Safe
  <2>2. jti # None BY <1>2, <2>1 DEF EndedInv
  <2>3. PICK e \in Calls : Closes(e) BY <2>1, <2>2 DEF EndedInv
  <2>4. e = c BY <1>2, <2>3 DEF Closes, SoleTaken
  <2>5. answer'[c] = jti /\ request[c].op = "logout" BY <1>1, <1>3, <2>3, <2>4 DEF Closes
  <2>6. Only(In(c), jti)' BY <1>1, <1>3, <1>4, <2>3, <2>4 DEF Closes, Only
  <2>7. Closes(c)' BY <1>2, <1>3, <1>4, <1>6, <2>3, <2>4, <2>5, <2>6 DEF Closes
  <2> QED BY <1>1, <2>2, <2>7 DEF EndedInv
<1> QED BY <1>9, <1>10, <1>11, <1>12 DEF Safe

\* Its commit.
LEMMA CommitSafe ==
  ASSUME TypeOK, FormInv, Safe, NEW c \in Calls, Commit(c), Clear'
  PROVE  Safe'
<1>1. /\ Flushed(c) /\ jti' = request[c].token
      /\ request' = [request EXCEPT ![c] = NoRequest]
      /\ answer' = answer /\ call' = call /\ store' = store /\ fresh' = fresh
      /\ issued' = issued /\ owner' = owner /\ reasons' = reasons
  BY DEF Commit, browser, aux, Flushed
<1>2. /\ request'[c] = NoRequest
      /\ \A d \in Calls \ {c} : request'[d] = request[d]
  BY <1>1 DEF TypeOK
<1>3. \A d \in Calls : /\ Asked(d)' => Asked(d) /\ request'[d] = request[d]
                       /\ Waiting(d)' <=> Waiting(d)
                       /\ LogsIn(d)' <=> LogsIn(d)
                       /\ Busy(d)' => Busy(d)
                       /\ Taken(d) => d = c
                       /\ ~Taken(d)' /\ ~Flushed(d)'
                       /\ In(d)' = In(d)
  <2>1. \A d \in Calls : Taken(d) => d = c BY <1>1 DEF Safe, RunInv, Taken, Flushed
  <2> QED BY <1>1, <1>2, <2>1
          DEF Asked, Waiting, LogsIn, Busy, Taken, Flushed, NoRequest, In
<1>4. ASSUME NEW v, Current(v) PROVE Current(v)' BY <1>1, <1>3, <1>4 DEF Current
<1>5. ASSUME NEW b, NEW v, Only(b, v) PROVE Only(b, v)' BY <1>1, <1>3, <1>5 DEF Only
<1>6. \A d \in Calls : (AloneIn(d) => AloneIn(d)') /\ SoleTaken(d)'
  BY <1>3 DEF AloneIn, SoleTaken
<1>7. RunInv' BY <1>3 DEF Safe, RunInv
<1>8. LoginInv'
  <2> SUFFICES ASSUME NEW d \in Calls, LogsIn(d)'
               PROVE  /\ "login" \in reasons'
                      /\ \A e \in Calls : LogsIn(e)' => e = d
                      /\ AloneIn(d)'
                      /\ answer'[d] # None =>
                           /\ answer'[d] \in 1..issued' /\ Current(answer[d])'
                           /\ Only(In(d), answer[d])' /\ SoleTaken(d)'
    BY DEF LoginInv
  <2>1. LogsIn(d) BY <1>3
  <2>2. CASE answer[d] = None BY <1>1, <1>3, <1>6, <2>1, <2>2 DEF Safe, LoginInv
  <2>3. CASE answer[d] # None
    BY <1>1, <1>3, <1>4, <1>5, <1>6, <2>1, <2>3 DEF Safe, LoginInv
  <2> QED BY <2>2, <2>3
<1>9. ASSUME reasons' = {}, owner' # None PROVE OwnerInv'
  <2>1. owner' = owner /\ reasons = {} /\ OwnerInv BY <1>1, <1>9 DEF Safe
  <2>2. PICK v \in 1..issued : Holds(owner, v) BY <2>1 DEF OwnerInv
  <2>3. Current(v)' /\ Only(owner, v)' BY <1>4, <1>5, <2>1, <2>2 DEF Holds
  <2>4. Holds(owner, v)' BY <1>1, <1>3, <2>1, <2>2, <2>3 DEF Holds
  <2> QED BY <1>1, <1>3, <2>1, <2>4 DEF OwnerInv
<1>10. ASSUME reasons' = {}, owner' = None PROVE EndedInv'
  <2>1. owner = None /\ reasons = {} /\ EndedInv BY <1>1, <1>10 DEF Safe
  <2>2. Taken(c) BY <1>1 DEF Taken, Flushed
  <2>3. PICK e \in Calls : Closes(e) BY <2>1, <2>2 DEF EndedInv
  <2>4. request[c].op = "logout" BY <2>2, <2>3 DEF Closes, SoleTaken
  <2>5. jti' = None BY <1>1, <2>4 DEF FormInv, Form
  <2> QED BY <1>3, <2>5 DEF EndedInv
<1> QED BY <1>7, <1>8, <1>9, <1>10 DEF Safe


-----------------------------------------------------------------------------
(* Steps that begin and end a session *)

\* A login that no other request overlaps.
LEMMA LoginSafe ==
  ASSUME TypeOK, FormInv, NEW c \in Calls, Login(c), Clear'
  PROVE  Safe'
<1>1. /\ Sends(c, "login", None) /\ call[c] = NoCall
      /\ call'[c] = [NoCall EXCEPT !.goal = "login", !.step = "posting"]
      /\ \A d \in Calls \ {c} : call'[d] = call[d] /\ answer'[d] = answer[d]
  BY LoginSends
<1>2. /\ reasons' = {"login"} /\ ~Overlapped(c)
      /\ \A d \in Calls : request[d] = NoRequest /\ call[d].step # "posting"
  BY DEF Login, Because, Clear
<1>3. \A d \in Calls \ {c} : request'[d] = NoRequest /\ ~LogsIn(d)'
  BY <1>1, <1>2 DEF Sends, Others, LogsIn
<1>4. /\ request'[c].step = "sent" /\ answer'[c] = None
      /\ call'[c].step = "posting"
  BY <1>1 DEF Sends, NoCall
<1>5. \A d \in Calls : ~Taken(d)' /\ (Asked(d)' => d = c)
  BY <1>3, <1>4 DEF Taken, Asked, NoRequest
<1>6. RunInv' BY <1>4, <1>5 DEF RunInv, Waiting
<1>7. AloneIn(c)'
  <2> SUFFICES ASSUME NEW d \in Calls \ {c}, In(d) = In(c) PROVE ~Busy(d)' BY DEF AloneIn, In
  <2>1. call'[d] = call[d] /\ request'[d] = NoRequest BY <1>1, <1>3
  <2>2. ~Waiting(d) /\ call[d].goal # "logout" BY <1>2 DEF Overlapped
  <2> QED BY <2>1, <2>2 DEF Busy, Waiting
<1>8. LoginInv' BY <1>2, <1>3, <1>4, <1>7 DEF LoginInv
<1> QED BY <1>2, <1>6, <1>8 DEF Safe

\* Its tokens are stored: the browser is the owner of the session.
LEMMA LoginAnsweredSafe ==
  ASSUME TypeOK, FormInv, Clear, Safe, NEW c \in Calls, LoginAnswered(c)
  PROVE  Safe'
<1> DEFINE b == In(c)
<1>1. LogsIn(c) /\ answer[c] # None /\ Takes(c) /\ UNCHANGED <<jti, issued, request>>
  BY DEF LoginAnswered, LogsIn, server
<1>2. /\ "login" \in reasons /\ \A d \in Calls : LogsIn(d) => d = c
      /\ AloneIn(c) /\ answer[c] \in 1..issued /\ Current(answer[c])
      /\ Only(b, answer[c]) /\ SoleTaken(c)
  BY <1>1 DEF Safe, LoginInv
<1>3. /\ Tokens(c, answer[c]) /\ call' = [call EXCEPT ![c].step = "ready"]
      /\ owner' = b /\ reasons' = {}
  BY <1>2 DEF LoginAnswered, Clear
<1>4. /\ Idles(c)
      /\ call'[c].goal = call[c].goal /\ call'[c].body = call[c].body
      /\ call'[c].retried = call[c].retried /\ call'[c].step = "ready"
  BY <1>1, <1>3, StepIdles
<1>5. Clear' BY <1>3 DEF Clear
<1>6. call[c].goal = "login" BY <1>1 DEF LogsIn
<1>7. \A d \in Calls :
           /\ request'[d] = request[d]
           /\ Asked(d)' <=> Asked(d)
           /\ Taken(d)' <=> Taken(d)
           /\ Flushed(d)' <=> Flushed(d)
           /\ Busy(d)' => Busy(d)
           /\ Waiting(d)' => Waiting(d)
           /\ d # c => (Waiting(d)' <=> Waiting(d))
           /\ answer'[d] \in {answer[d], None}
           /\ call'[d].body \in {call[d].body, None}
           /\ call'[d].goal = "logout" => call[d].goal = "logout"
           /\ d # c => (call'[d].retried => call[d].retried)
           /\ LogsIn(d)' => d # c /\ LogsIn(d) /\ answer'[d] = answer[d]
  BY <1>4, <1>5, IdleCalls
<1>8. \A d \in Calls : In(d)' = In(d) BY DEF In
<1>9. b \in Browsers BY InTyped
<1>10. /\ store'[b] = answer[c] /\ b \in fresh'
       /\ \A z \in Browsers \ {b} : store'[z] = store[z]
  BY <1>2, <1>3, <1>9, RotationAssumption DEF Tokens, TypeOK
<1>11. ~Asked(c) BY <1>1 DEF FormInv, Form
<1>12. RunInv' BY <1>7, <1>11 DEF Safe, RunInv
<1>13. LoginInv'
  <2>1. \A d \in Calls : ~LogsIn(d)' BY <1>2, <1>7
  <2> QED BY <2>1 DEF LoginInv
<1>14. PICK v : v = answer[c] OBVIOUS
<1>15. Current(v)' BY <1>1, <1>2, <1>7, <1>14 DEF Current
<1>16. ASSUME NEW z, z = b PROVE Only(z, v)'
  BY <1>1, <1>2, <1>7, <1>8, <1>10, <1>14, <1>16 DEF Only
<1>17. \A d \in Calls \ {c} : In(d) = b =>
         ~Waiting(d) /\ ~Asked(d) /\ answer[d] = None /\ call[d].goal # "logout"
  <2> SUFFICES ASSUME NEW d \in Calls \ {c}, In(d) = b
               PROVE  ~Waiting(d) /\ ~Asked(d) /\ answer[d] = None /\ call[d].goal # "logout"
    OBVIOUS
  <2>1. ~Busy(d) BY <1>2 DEF AloneIn
  <2>2. ~Waiting(d) /\ request[d] = NoRequest /\ call[d].goal # "logout" BY <2>1 DEF Busy
  <2> QED BY <2>2, IdleAnswer DEF Asked, NoRequest
<1>18. Holds(b, v)'
  <2>1. \A d \in Calls : In(d) = b =>
          /\ ~Asked(d)' /\ answer'[d] \in {None, v} /\ call'[d].goal # "logout"
    BY <1>4, <1>6, <1>7, <1>11, <1>14, <1>17
  <2> QED BY <1>3, <1>8, <1>10, <1>14, <1>15, <1>16, <2>1 DEF Holds
<1>19. OwnerInv'
  <2>1. \A d, e \in Calls : In(d) = b /\ In(e) = b /\ Busy(d)' /\ Busy(e)' => d = e
    BY <1>2, <1>7 DEF AloneIn
  <2>2. \A d \in Calls : Taken(d)' => d = c BY <1>2, <1>7 DEF SoleTaken
  <2>3. store'[b] # None /\ v \in 1..issued' BY <1>1, <1>10, <1>14, <1>2
  <2> QED BY <1>3, <1>8, <1>18, <2>1, <2>2, <2>3 DEF OwnerInv
<1>20. owner' # None BY <1>3, <1>9, RotationAssumption
<1> QED BY <1>12, <1>13, <1>19, <1>20 DEF Safe

\* The owner logs out: its request holds the token that ends the session.
LEMMA OwnerLogsOut ==
  ASSUME TypeOK, FormInv, Safe, NEW c \in Calls, reasons = {}, owner = In(c),
         Logout(c), Token(c) # None, Clear'
  PROVE  Safe'
<1>1. /\ Sends(c, "logout", Token(c)) /\ call[c] = NoCall
      /\ call'[c] = [NoCall EXCEPT !.goal = "logout", !.step = "posting", !.body = Token(c)]
      /\ owner' = None /\ reasons' = reasons \union Because("overlap", Overlapped(c))
  BY LogoutSends
<1>2. reasons' = {} /\ ~Overlapped(c) BY <1>1 DEF Because, Clear
<1>3. ~Waiting(c) /\ answer[c] = None BY <1>1, IdleAnswer DEF Waiting, NoCall
<1>4. /\ \A d \in Calls \ {c} :
              /\ request'[d] = request[d]
              /\ Asked(d)' <=> Asked(d)
              /\ Busy(d)' => Busy(d)
              /\ Waiting(d)' <=> Waiting(d)
              /\ call'[d].body \in {call[d].body, None}
              /\ call'[d].goal = "logout" => call[d].goal = "logout"
              /\ call'[d].retried => call[d].retried
              /\ LogsIn(d)' => LogsIn(d)
      /\ \A d \in Calls : /\ Taken(d)' <=> Taken(d)
                          /\ Flushed(d)' <=> Flushed(d)
                          /\ Flushed(d) => request'[d] = request[d]
                          /\ answer'[d] \in {answer[d], None}
                          /\ LogsIn(d) => answer'[d] = answer[d]
      /\ Asked(c)' /\ Waiting(c)' /\ request'[c].token = Token(c)
  BY <1>1, <1>3, SendCalls
<1>5. jti' = jti /\ issued' = issued /\ store' = store /\ request[c] = NoRequest
      /\ request'[c].op = "logout"
  BY <1>1 DEF Sends
<1>6. \A d \in Calls : In(d)' = In(d) BY DEF In
<1>7. owner # None BY InTyped, RotationAssumption
<1>8. OwnerInv BY <1>7 DEF Safe
<1>9. PICK v \in 1..issued : Holds(owner, v) BY <1>8 DEF OwnerInv
<1>10. v # None BY RotationAssumption
<1>11. \A d \in Calls \ {c} : In(d) = owner => ~Busy(d) BY <1>2 DEF Overlapped, Busy
<1>12. \A d \in Calls : In(d) = owner => ~Waiting(d) /\ ~Taken(d)
  BY <1>3, <1>5, <1>11 DEF Busy, Taken, NoRequest
<1>13. \A d \in Calls : ~Taken(d) /\ ~Flushed(d)
  BY <1>8, <1>12 DEF OwnerInv, Taken, Flushed
<1>14. jti = v /\ Token(c) = v BY <1>9, <1>12, <1>13 DEF Holds, Current, Token
<1>15. RunInv' BY <1>4 DEF Safe, RunInv
<1>16. LoginInv'
  <2>1. \A d \in Calls : ~LogsIn(d) BY DEF Safe, LoginInv
  <2>2. ~LogsIn(c)' BY <1>1 DEF Sends, LogsIn
  <2> QED BY <1>4, <2>1, <2>2 DEF LoginInv
<1>17. SoleTaken(c)' BY <1>4, <1>13 DEF SoleTaken
<1>18. AloneIn(c)' BY <1>4, <1>6, <1>11 DEF AloneIn
<1>19. Only(In(c), jti)'
  <2>1. Only(owner, v) BY <1>9 DEF Holds
  <2> QED BY <1>4, <1>5, <1>6, <1>10, <1>14, <2>1 DEF Only
<1>20. Closes(c)' BY <1>4, <1>5, <1>14, <1>17, <1>18, <1>19 DEF Closes
<1>21. EndedInv' BY <1>5, <1>10, <1>14, <1>20 DEF EndedInv
<1> QED BY <1>1, <1>15, <1>16, <1>21 DEF Safe


-----------------------------------------------------------------------------
(* Every step *)

LEMMA ServerSafe ==
  ASSUME TypeOK, FormInv, Clear, Safe, NEW c \in Calls, ServerNext(c), Clear'
  PROVE  Safe'
<1>1. CASE Load(c) BY <1>1, LoadAccepted, LoadRefused
<1>2. CASE Flush(c) BY <1>2, FlushSafe
<1>3. CASE Commit(c) BY <1>3, CommitSafe
<1>4. CASE Abort(c) BY <1>4 DEF Abort, Clear
<1> QED BY <1>1, <1>2, <1>3, <1>4 DEF ServerNext

\* Who waits for no answer asks for nothing.
LEMMA IdleNotAsked ==
  ASSUME FormInv, Safe, NEW c \in Calls, ~Waiting(c) \/ answer[c] # None
  PROVE  ~Asked(c)
BY DEF FormInv, Form, Safe, RunInv

\* The owner's browser has a token, and what it is answered is one.
LEMMA OwnerHolds ==
  ASSUME TypeOK, Safe, NEW c \in Calls, reasons = {}, owner = In(c)
  PROVE  /\ store[In(c)] # None /\ call[c].goal # "logout"
         /\ answer[c] # None => answer[c] > 0
         /\ call[c].retried => In(c) \in fresh
<1>1. owner # None BY InTyped, RotationAssumption
<1>2. PICK v \in 1..issued : Holds(owner, v) BY <1>1 DEF Safe, OwnerInv
<1>3. v > 0 BY DEF TypeOK
<1> QED BY <1>1, <1>2, <1>3 DEF Safe, OwnerInv, Holds

\* The logout that ends a session is not refused.
LEMMA ClosesAccepted ==
  ASSUME TypeOK, FormInv, NEW c \in Calls, Closes(c), Waiting(c), answer[c] # None
  PROVE  call[c].step = "posting" /\ call[c].goal = "logout" /\ answer[c] > 0
<1>1. Form(c) /\ request[c].op = "logout" BY DEF FormInv, Closes
<1>2. request[c].step # "none" BY <1>1 DEF Form, NoRequest
<1>3. request[c].step \in Steps BY DEF TypeOK, Requests
<1>4. Flushed(c) BY <1>1, <1>2, <1>3 DEF Form, Asked, Flushed, Steps
<1>5. answer[c] \in 1..issued /\ issued \in Nat BY <1>1, <1>4 DEF Form, TypeOK
<1>6. call[c].step = "posting" /\ call[c].goal = "logout"
  BY <1>1 DEF Form, Waiting
<1> QED BY <1>5, <1>6

\* A step that throws no one out who is logged in.
LEMMA ThrowOutSafe ==
  ASSUME TypeOK, FormInv, Safe, NEW c \in Calls, ThrowOut(c), Clear',
         UNCHANGED <<jti, issued, request>>,
         \/ Takes(c) /\ answer[c] # None
         \/ answer' = answer /\ ~Waiting(c),
         reasons' = reasons, owner' = owner \/ reasons # {},
         ~LogsIn(c), reasons = {} => owner # In(c)
  PROVE  Safe'
<1>1. Idles(c) /\ call'[c] = NoCall BY ThrowOutIdles
<1>2. ~Asked(c) BY IdleNotAsked
<1>3. Tokens(c, None) BY DEF ThrowOut
<1>4. /\ store'[In(c)] = None
      /\ \A b \in Browsers \ {In(c)} : store'[b] = store[b] /\ (b \in fresh => b \in fresh')
  BY <1>3, InTyped DEF Tokens, TypeOK
<1>5. call'[c].goal = "none" /\ call'[c].body = None BY <1>1 DEF NoCall
<1> QED BY <1>1, <1>2, <1>4, <1>5, IdleSafe


\* A step with the tokens left alone.
LEMMA PlainSafe ==
  ASSUME TypeOK, FormInv, Safe, NEW c \in Calls, Idles(c), Clear',
         call'[c].goal = "logout" => call[c].goal = "logout",
         call'[c].body \in {call[c].body, None},
         call'[c].retried => call[c].retried,
         UNCHANGED <<store, fresh, owner, reasons>>, ~Waiting(c)
  PROVE  Safe'
<1>1. ~Asked(c) BY IdleNotAsked
<1>2. ~LogsIn(c) BY DEF LogsIn, Waiting
<1>3. store'[In(c)] \in {store[In(c)], None, answer[c]} OBVIOUS
<1>4. \A b \in Browsers \ {In(c)} : store'[b] = store[b] /\ (b \in fresh => b \in fresh') OBVIOUS
<1>5. fresh \subseteq fresh' OBVIOUS
<1> QED BY <1>1, <1>2, <1>3, <1>4, <1>5, IdleSafe

LEMMA NotOverlapped ==
  ASSUME NEW p \in BOOLEAN, Clear', reasons' = reasons \union Because("overlap", p)
  PROVE  ~p /\ reasons' = reasons
BY DEF Clear, Because

LEMMA RefreshSafe ==
  ASSUME TypeOK, FormInv, Safe, NEW c \in Calls, Refresh(c), Clear'
  PROVE  Safe'
<1>1. ~Waiting(c) /\ ~LogsIn(c) BY DEF Refresh, Waiting, LogsIn
<1>2. CASE Token(c) = None
  <2>1. /\ ThrowOut(c) /\ UNCHANGED <<jti, issued, request>> /\ answer' = answer
        /\ reasons' = reasons /\ owner' = owner
    BY <1>2 DEF Refresh
  <2>2. reasons = {} => owner # In(c) BY <1>2, OwnerHolds DEF Token
  <2> QED BY <1>1, <2>1, <2>2, ThrowOutSafe
<1>3. CASE Token(c) # None
  <2>1. /\ Sends(c, "refresh", Token(c))
        /\ call'[c].goal = call[c].goal /\ call'[c].body = call[c].body
        /\ call'[c].retried = call[c].retried
        /\ owner' = owner /\ reasons' = reasons \union Because("overlap", Overlapped(c))
    BY <1>3, RefreshSends
  <2>2. Overlapped(c) \in BOOLEAN BY DEF Overlapped
  <2>3. ~Overlapped(c) /\ reasons' = reasons BY <2>1, <2>2, NotOverlapped
  <2>4. Token(c) = store[In(c)] BY DEF Token
  <2>5. reasons = {} /\ owner = In(c) => call'[c].goal # "logout" BY <2>1, OwnerHolds
  <2> QED BY <1>1, <2>1, <2>3, <2>4, <2>5, SendSafe
<1> QED BY <1>2, <1>3

LEMMA RefreshedSafe ==
  ASSUME TypeOK, FormInv, Safe, NEW c \in Calls, Refreshed(c), Clear'
  PROVE  Safe'
<1>1. /\ call[c].step = "refreshing" /\ answer[c] # None /\ Tokens(c, answer[c])
      /\ reasons' = reasons /\ owner' = owner
  BY DEF Refreshed, aux
<1>2. /\ Idles(c) /\ call'[c].body = call[c].body
      /\ call'[c].goal = "logout" => call[c].goal = "logout"
  BY RefreshedIdles
<1>3. ~Asked(c) /\ ~LogsIn(c) BY <1>1, IdleNotAsked DEF LogsIn
<1>4. In(c) \in Browsers BY InTyped
<1>5. /\ store'[In(c)] = answer[c] /\ fresh' = fresh \union {In(c)}
      /\ \A b \in Browsers \ {In(c)} : store'[b] = store[b]
  BY <1>1, <1>4 DEF Tokens, TypeOK
<1>6. ~Closes(c)
  BY <1>1, ClosesAccepted DEF Waiting
<1> QED BY <1>1, <1>2, <1>3, <1>5, <1>6, IdleSafe

LEMMA ProceedSafe ==
  ASSUME TypeOK, FormInv, Safe, NEW c \in Calls, Proceed(c), Clear'
  PROVE  Safe'
<1>1. /\ ~Waiting(c) /\ ~LogsIn(c) /\ UNCHANGED <<jti, issued, request>>
      /\ answer' = answer /\ owner' = owner /\ reasons' = reasons
  BY DEF Proceed, Waiting, LogsIn, server, aux
<1>2. CASE Ends(c) /\ UNCHANGED browser
  <2>1. Idles(c) /\ call'[c] = NoCall BY <1>1, <1>2, ThrowOutIdles
  <2>2. call'[c].goal = "none" /\ call'[c].body = None /\ ~call'[c].retried
    BY <2>1 DEF NoCall
  <2> QED BY <1>1, <1>2, <2>1, <2>2, PlainSafe DEF browser
<1>3. CASE In(c) \notin fresh /\ call[c].retried /\ ThrowOut(c)
  <2>1. reasons = {} => owner # In(c) BY <1>3, OwnerHolds
  <2> QED BY <1>1, <1>3, <2>1, ThrowOutSafe
<1>4. ASSUME NEW s \in {"granted", "denied"}, call' = [call EXCEPT ![c].step = s],
             UNCHANGED browser
      PROVE  Safe'
  <2>1. /\ Idles(c)
        /\ call'[c].goal = call[c].goal /\ call'[c].body = call[c].body
        /\ call'[c].retried = call[c].retried
    BY <1>1, <1>4, StepIdles
  <2> QED BY <1>1, <1>4, <2>1, PlainSafe DEF browser
<1>5. CASE call' = [call EXCEPT ![c].step = "granted"] /\ UNCHANGED browser BY <1>4, <1>5
<1>6. CASE call' = [call EXCEPT ![c].step = "denied"] /\ UNCHANGED browser BY <1>4, <1>6
<1> QED BY <1>2, <1>3, <1>5, <1>6 DEF Proceed

LEMMA ReloadSafe ==
  ASSUME TypeOK, FormInv, Safe, NEW c \in Calls, Reload(c), Clear'
  PROVE  Safe'
<1>1. /\ UNCHANGED <<jti, issued, store, fresh, owner>> /\ ~Waiting(c)
      /\ reasons' = reasons
      /\ \/ /\ store[In(c)] = None /\ Idles(c) /\ call'[c] = NoCall
         \/ /\ store[In(c)] # None /\ Sends(c, "refresh", store[In(c)])
            /\ call'[c] = [NoCall EXCEPT !.goal = "boot", !.step = "refreshing"]
            /\ ~Overlapped(c)
  BY ReloadForm
<1>2. CASE Idles(c) /\ call'[c] = NoCall
  <2>1. call'[c].goal = "none" /\ call'[c].body = None /\ ~call'[c].retried
    BY <1>2 DEF NoCall
  <2> QED BY <1>1, <1>2, <2>1, PlainSafe
<1>3. CASE /\ Sends(c, "refresh", store[In(c)]) /\ ~Overlapped(c)
           /\ call'[c] = [NoCall EXCEPT !.goal = "boot", !.step = "refreshing"]
  <2>1. call'[c].goal = "boot" /\ call'[c].body = None /\ ~call'[c].retried
    BY <1>3 DEF NoCall
  <2> QED BY <1>1, <1>3, <2>1, SendSafe
<1> QED BY <1>1, <1>2, <1>3

LEMMA LogoutSafe ==
  ASSUME TypeOK, FormInv, Safe, NEW c \in Calls, Logout(c), Clear'
  PROVE  Safe'
<1>1. ~Waiting(c) /\ ~LogsIn(c) BY DEF Logout, Free, Waiting, LogsIn, NoCall
<1>2. CASE Token(c) = None
  <2>1. /\ ThrowOut(c) /\ UNCHANGED <<jti, issued, request>> /\ answer' = answer
        /\ reasons' = reasons /\ owner' = IF owner = In(c) THEN None ELSE owner
    BY <1>2 DEF Logout
  <2>2. reasons = {} => owner # In(c) BY <1>2, OwnerHolds DEF Token
  <2> QED BY <1>1, <2>1, <2>2, ThrowOutSafe
<1>3. CASE Token(c) # None /\ ~(reasons = {} /\ owner = In(c))
  <2>1. /\ Sends(c, "logout", Token(c))
        /\ call'[c] = [NoCall EXCEPT !.goal = "logout", !.step = "posting", !.body = Token(c)]
        /\ owner' = IF owner = In(c) THEN None ELSE owner
        /\ reasons' = reasons \union Because("overlap", Overlapped(c))
    BY <1>3, LogoutSends
  <2>2. Overlapped(c) \in BOOLEAN BY DEF Overlapped
  <2>3. ~Overlapped(c) /\ reasons' = reasons BY <2>1, <2>2, NotOverlapped
  <2>4. Token(c) = store[In(c)] BY DEF Token
  <2>5. call'[c].body = Token(c) BY <2>1 DEF NoCall
  <2> QED BY <1>1, <1>3, <2>1, <2>3, <2>4, <2>5, SendSafe
<1> QED BY <1>2, <1>3, OwnerLogsOut

LEMMA LogoutAgainSafe ==
  ASSUME TypeOK, FormInv, Safe, NEW c \in Calls, LogoutAgain(c), Clear'
  PROVE  Safe'
<1>1. /\ Sends(c, "logout", call[c].body)
      /\ call[c].goal = "logout" /\ call'[c].body = call[c].body
      /\ owner' = owner /\ reasons' = reasons \union Because("overlap", Overlapped(c))
  BY LogoutAgainSends
<1>2. ~Waiting(c) BY DEF LogoutAgain, Waiting
<1>3. Overlapped(c) \in BOOLEAN BY DEF Overlapped
<1>4. ~Overlapped(c) /\ reasons' = reasons BY <1>1, <1>3, NotOverlapped
<1>5. reasons = {} => owner # In(c) BY <1>1, OwnerHolds
<1> QED BY <1>1, <1>2, <1>4, <1>5, SendSafe

LEMMA LogoutAnsweredSafe ==
  ASSUME TypeOK, FormInv, Safe, NEW c \in Calls, LogoutAnswered(c), Clear'
  PROVE  Safe'
<1>1. /\ call[c].step = "posting" /\ call[c].goal = "logout" /\ answer[c] # None /\ Takes(c)
      /\ UNCHANGED <<jti, issued, request>> /\ owner' = owner /\ reasons' = reasons
  BY DEF LogoutAnswered, server, aux
<1>2. ~Asked(c) /\ ~LogsIn(c) BY <1>1, IdleNotAsked DEF LogsIn
<1>3. reasons = {} => owner # In(c) BY <1>1, OwnerHolds
<1>4. CASE ThrowOut(c) BY <1>1, <1>2, <1>3, <1>4, ThrowOutSafe
<1>5. CASE /\ answer[c] = Refused
           /\ call' = [call EXCEPT ![c].step = "denied"] /\ UNCHANGED browser
  <2>1. /\ Idles(c)
        /\ call'[c].goal = call[c].goal /\ call'[c].body = call[c].body
    BY <1>1, <1>5, StepIdles
  <2>2. ~Closes(c) BY <1>1, <1>5, ClosesAccepted DEF Waiting, Refused
  <2>3. /\ store'[In(c)] \in {store[In(c)], None, answer[c]}
        /\ \A b \in Browsers \ {In(c)} : store'[b] = store[b] /\ (b \in fresh => b \in fresh')
    BY <1>5 DEF browser
  <2> QED BY <1>1, <1>2, <1>3, <2>1, <2>2, <2>3, IdleSafe
<1> QED BY <1>4, <1>5 DEF LogoutAnswered

LEMMA ClientSafe ==
  ASSUME TypeOK, FormInv, SafeInv, NEW c \in Calls, ClientNext(c), Clear'
  PROVE  Safe'
<1>1. CASE Login(c) BY <1>1, LoginSafe
<1>2. CASE Lose(c) BY <1>2 DEF Lose, Clear
<1>3. SUFFICES ASSUME ~Login(c), ~Lose(c) PROVE Safe' BY <1>1, <1>2
<1>4. Clear
  BY <1>3 DEF ClientNext, Clear, Ask, Refresh, Refreshed, RefreshRefused, Proceed, Enter,
              Reload, LoginAnswered, Logout, LogoutAgain, LogoutAnswered, aux
<1>5. Safe BY <1>4 DEF SafeInv
<1>6. CASE Ask(c)
  <2>1. Idles(c) /\ call'[c] = [NoCall EXCEPT !.goal = "page", !.step = "denied"]
    BY <1>6, AskIdles
  <2>2. call'[c].goal = "page" /\ call'[c].body = None /\ ~call'[c].retried
    BY <2>1 DEF NoCall
  <2>3. ~Waiting(c) /\ UNCHANGED <<store, fresh, owner, reasons>>
    BY <1>6 DEF Ask, Free, Waiting, NoCall, browser, aux
  <2> QED BY <1>5, <2>1, <2>2, <2>3, PlainSafe
<1>7. CASE RefreshRefused(c)
  <2>1. /\ ThrowOut(c) /\ Takes(c) /\ answer[c] # None /\ answer[c] <= 0
        /\ UNCHANGED <<jti, issued, request>> /\ owner' = owner /\ reasons' = reasons
        /\ ~LogsIn(c)
    BY <1>7 DEF RefreshRefused, server, aux, LogsIn
  <2>2. reasons = {} => owner # In(c)
    <3>1. answer[c] \in Int BY <2>1 DEF TypeOK, Issued, Refused, Failed
    <3> QED BY <1>5, <2>1, <3>1, OwnerHolds
  <2> QED BY <1>5, <2>1, <2>2, ThrowOutSafe
<1>8. CASE Enter(c)
  <2>1. /\ Ends(c) /\ UNCHANGED <<jti, issued, request>> /\ answer' = answer /\ ~Waiting(c)
        /\ UNCHANGED <<store, fresh, owner, reasons>>
    BY <1>8 DEF Enter, server, Waiting, browser, aux
  <2>2. Idles(c) /\ call'[c] = NoCall BY <2>1, ThrowOutIdles
  <2>3. call'[c].goal = "none" /\ call'[c].body = None /\ ~call'[c].retried
    BY <2>2 DEF NoCall
  <2> QED BY <1>5, <2>1, <2>2, <2>3, PlainSafe
<1> QED BY <1>3, <1>4, <1>5, <1>6, <1>7, <1>8, RefreshSafe, RefreshedSafe, ProceedSafe,
           ReloadSafe, LoginAnsweredSafe, LogoutSafe, LogoutAgainSafe, LogoutAnsweredSafe
        DEF ClientNext

LEMMA ExpireSafe ==
  ASSUME TypeOK, Safe, NEW b \in Browsers, Expire(b), Clear'
  PROVE  Safe'
<1>1. /\ UNCHANGED <<jti, issued, request, answer, store, call, owner, reasons>>
      /\ \A c \in Calls : In(c) = b => ~call[c].retried
      /\ \A z \in Browsers \ {b} : z \in fresh => z \in fresh'
  BY DEF Expire, server, aux
<1> USE <1>1 DEF Asked, Taken, Flushed, Busy, LogsIn, Waiting, In
<1>2. RunInv' BY DEF Safe, RunInv
<1>3. LoginInv' BY DEF Safe, LoginInv, AloneIn, SoleTaken, Current, Only
<1>4. ASSUME reasons' = {}, owner' # None PROVE OwnerInv'
  <2>1. OwnerInv /\ owner \in Browsers BY <1>4 DEF Safe, TypeOK
  <2>2. PICK v \in 1..issued : Holds(owner, v) BY <2>1 DEF OwnerInv
  <2>3. Holds(owner, v)' BY <2>1, <2>2 DEF Holds, Current, Only
  <2> QED BY <2>1, <2>3 DEF OwnerInv
<1>5. ASSUME reasons' = {}, owner' = None PROVE EndedInv'
  BY <1>5 DEF Safe, EndedInv, Closes, AloneIn, SoleTaken, Only
<1> QED BY <1>2, <1>3, <1>4, <1>5 DEF Safe

LEMMA SafeStep == TypeOK /\ FormInv /\ SafeInv /\ [Next]_vars => SafeInv'
<1> SUFFICES ASSUME TypeOK, FormInv, SafeInv, [Next]_vars, Clear' PROVE Safe' BY DEF SafeInv
<1>1. CASE UNCHANGED vars
  <2>1. Safe BY <1>1 DEF vars, aux, Clear, SafeInv
  <2>2. UNCHANGED <<jti, issued, request, answer, store, fresh, call, owner, reasons>>
    BY <1>1 DEF vars, server, browser, aux
  <2> USE <2>2 DEF Asked, Taken, Flushed, Busy, LogsIn, Waiting, In
  <2>3. RunInv' BY <2>1 DEF Safe, RunInv
  <2>4. LoginInv' BY <2>1 DEF Safe, LoginInv, AloneIn, SoleTaken, Current, Only
  <2>5. reasons' = {} /\ owner' # None => OwnerInv'
    BY <2>1 DEF Safe, OwnerInv, Holds, Current, Only
  <2>6. reasons' = {} /\ owner' = None => EndedInv'
    BY <2>1 DEF Safe, EndedInv, Closes, AloneIn, SoleTaken, Only
  <2> QED BY <2>3, <2>4, <2>5, <2>6 DEF Safe
<1>2. ASSUME NEW b \in Browsers, Expire(b) PROVE Safe'
  <2>1. Safe BY <1>2 DEF Expire, aux, Clear, SafeInv
  <2> QED BY <1>2, <2>1, ExpireSafe
<1>3. ASSUME NEW c \in Calls, ServerNext(c) PROVE Safe'
  <2>1. Clear BY <1>3 DEF ServerNext, Load, Flush, Commit, Abort, aux, Clear
  <2> QED BY <1>3, <2>1, ServerSafe DEF SafeInv
<1> QED BY <1>1, <1>2, <1>3, ClientSafe DEF Next


LEMMA Initially == Init => Inv
<1> SUFFICES ASSUME Init PROVE Inv OBVIOUS
<1>1. TypeOK BY NullTyped DEF Init, TypeOK, Requests, ClientCalls, Steps, Issued
<1>2. \A c \in Calls : /\ request[c] = NoRequest /\ answer[c] = None /\ call[c] = NoCall
                       /\ ~Asked(c) /\ ~Taken(c) /\ ~Flushed(c) /\ ~Waiting(c) /\ ~LogsIn(c)
  BY DEF Init, NoRequest, NoCall, Asked, Taken, Flushed, Waiting, LogsIn
<1>3. FormInv BY <1>2 DEF FormInv, Form, NoRequest, NoCall
<1>4. SafeInv BY <1>2 DEF Init, SafeInv, Safe, RunInv, LoginInv, EndedInv
<1> QED BY <1>1, <1>3, <1>4 DEF Inv

LEMMA Invariant == Spec => []Inv
<1>1. Inv /\ [Next]_vars => Inv' BY TypeStep, FormStep, SafeStep DEF Inv
<1> QED BY <1>1, Initially, PTL DEF Spec

\* Without an excuse, the browser that logged in keeps the token the server
\* expects, and its logout leaves the server with none.
THEOREM SessionKeptProof == Spec => []SessionKept
<1>1. Inv => SessionKept
  <2> SUFFICES ASSUME Inv, Quiet, reasons = {}
               PROVE  IF owner = None THEN jti = None ELSE store[owner] = jti /\ jti # None
    BY DEF SessionKept
  <2>1. Safe BY DEF Inv, SafeInv, Clear
  <2>2. \A c \in Calls : ~Flushed(c) /\ ~Waiting(c) /\ request[c].op # "logout"
    BY DEF Quiet, Flushed, NoRequest
  <2>3. CASE owner = None BY <2>1, <2>2, <2>3 DEF Safe, EndedInv, Closes
  <2>4. CASE owner # None
    <3>1. PICK v \in 1..issued : Holds(owner, v) BY <2>1, <2>4 DEF Safe, OwnerInv
    <3>2. jti = v /\ store[owner] = v BY <2>2, <3>1 DEF Holds, Current
    <3> QED BY <2>4, <3>2, RotationAssumption
  <2> QED BY <2>3, <2>4
<1> QED BY <1>1, Invariant, PTL

\* A tab of the browser that is logged in is not sent to the form by what any
\* tab, or the server, does.
LEMMA StaysIn ==
  ASSUME Inv, [Next]_vars, NEW t \in Tabs, screen[t] # "out", screen'[t] = "out",
         reasons' = {}, owner' = BrowserOf[t]
  PROVE  FALSE
<1>1. owner' # None BY RotationAssumption
<1>2. PICK c \in Calls : ClientNext(c)
  BY DEF Next, ServerNext, Load, Flush, Commit, Abort, Expire, vars
<1>3. /\ TypeOK /\ FormInv BY DEF Inv
<1>4. ~Login(c) /\ ~Lose(c) BY DEF Login, Lose
<1>5. ~LoginAnswered(c) BY DEF LoginAnswered
<1>6. reasons = {}
  BY <1>2, <1>4, <1>5 DEF ClientNext, Ask, Refresh, Refreshed, RefreshRefused, Proceed, Enter,
                          Reload, Logout, LogoutAgain, LogoutAnswered, aux
<1>7. Safe BY <1>6 DEF Inv, SafeInv, Clear
<1>8. screen'[t] = IF t = TabOf[c] THEN screen'[TabOf[c]] ELSE screen[t]
  BY <1>2 DEF ClientNext, Ask, Refresh, Refreshed, RefreshRefused, Proceed, Enter,
              Reload, Login, LoginAnswered, Logout, LogoutAgain, LogoutAnswered, Lose,
              ThrowOut, Shows, TypeOK, Inv
<1>9. In(c) = owner' /\ t = TabOf[c] BY <1>8 DEF In
<1>10. owner = owner'
  BY <1>1, <1>2, <1>4, <1>5 DEF ClientNext, Ask, Refresh, Refreshed, RefreshRefused, Proceed,
       Enter, Reload, Logout, LogoutAgain, LogoutAnswered, aux
<1>11. /\ store[In(c)] # None /\ call[c].goal # "logout"
       /\ answer[c] # None => answer[c] > 0
       /\ call[c].retried => In(c) \in fresh
  BY <1>3, <1>6, <1>7, <1>9, <1>10, OwnerHolds
<1>12. ~Logout(c) BY <1>1, <1>9, <1>10 DEF Logout
<1>13. ~LogoutAgain(c) /\ ~LogoutAnswered(c) BY <1>11 DEF LogoutAgain, LogoutAnswered
<1>14. ~RefreshRefused(c)
  <2>1. answer[c] # None => answer[c] \in Int BY <1>3 DEF TypeOK, Issued, Refused, Failed
  <2> QED BY <1>11, <2>1 DEF RefreshRefused
<1>15. screen' = screen \/ screen'[TabOf[c]] \in {"in", "loading"}
  <2>1. CASE Refresh(c) BY <1>11, <2>1 DEF Refresh, Token
  <2>2. CASE Proceed(c) BY <1>11, <2>2 DEF Proceed
  <2>3. CASE Enter(c) BY <1>3, <2>3, InTyped DEF Enter, Shows, TypeOK
  <2>4. CASE Reload(c) BY <1>3, <1>11, <2>4, InTyped DEF Reload, Shows, TypeOK
  <2>5. CASE Ask(c) \/ Refreshed(c) BY <2>5 DEF Ask, Refreshed
  <2> QED BY <1>2, <1>4, <1>5, <1>12, <1>13, <1>14, <2>1, <2>2, <2>3, <2>4, <2>5
          DEF ClientNext
<1> QED BY <1>9, <1>15

THEOREM ThrownOutProof == Spec => ThrownOutForReason
<1>1. Inv /\ [Next]_vars =>
        [\A t \in Tabs :
           screen[t] # "out" /\ screen'[t] = "out" =>
             reasons' # {} \/ owner' # BrowserOf[t]]_vars
  BY StaysIn
<1> QED BY <1>1, Invariant, PTL DEF Spec, ThrownOutForReason


=============================================================================
