--------------------------- MODULE RefreshRotation ---------------------------
(***************************************************************************)
(* How a user of the panel stays logged in.  The user's row has the id of  *)
(* one refresh token, and every refresh replaces it (auth_service.py).     *)
(* Each tab refreshes on its own when a request of its is answered 401     *)
(* (api.ts) and when its page is loaded (AuthContext.tsx); the tabs of a   *)
(* browser share the stored tokens, and a tab makes several requests at a  *)
(* time.                                                                   *)
(*                                                                         *)
(* Abstractions of data.  A refresh token is the number of its issue.  An  *)
(* access token is stored with it and either still fresh or not.  There is *)
(* one user, whose password is right, and refresh tokens are used before   *)
(* they expire.  The two requests that load a user and its sections are    *)
(* one: they are sent together with the same token.                        *)
(***************************************************************************)
EXTENDS Integers

CONSTANTS
  Browsers,   \* each with its localStorage
  Tabs,
  BrowserOf,  \* the browser of each tab
  Calls,      \* what the tabs can have in flight
  TabOf,      \* the tab of each call
  MaxEvents,  \* bound on the refresh tokens issued and the faults, together
  MaxFaults,  \* bound on lost answers and transactions that fail
  None

ASSUME RotationAssumption ==
  /\ BrowserOf \in [Tabs -> Browsers] /\ TabOf \in [Calls -> Tabs]
  /\ MaxEvents \in Nat /\ MaxFaults \in Nat
  /\ None \notin Int /\ None \notin Browsers

VARIABLES
  jti,      \* current_refresh_jti of the user
  issued,   \* refresh tokens issued so far
  request,  \* the server's side of each call
  answer,   \* the answer on its way to each call
  store,    \* the refresh token in each browser's localStorage
  fresh,    \* browsers whose stored access token has not expired
  screen,   \* what each tab shows
  call,     \* the client's side of each call
  faults,   \* faults so far
  owner,    \* auxiliary: the browser that logged in last, until it logs out
  reasons   \* auxiliary: what the session is excused for since that login

server == <<jti, issued, request>>
browser == <<store, fresh>>
aux == <<owner, reasons>>
vars == <<server, answer, browser, screen, call, faults, aux>>

Refused == 0    \* 401
Failed == -1    \* 500

NoRequest == [op |-> "none", token |-> None, step |-> "none"]
NoCall == [goal |-> "none", step |-> "none", body |-> None, retried |-> FALSE]

In(c) == BrowserOf[TabOf[c]]
Waiting(c) == call[c].step \in {"refreshing", "posting"}
Free(c) == call[c] = NoCall /\ request[c] = NoRequest
CallsOf(t) == {c \in Calls : TabOf[c] = t}

\* A tab shows a form or a page, never two things at once.
Available(t) ==
  \A c \in CallsOf(t) : call[c].goal \in {"none", "page"}

Bounded == issued + faults < MaxEvents

Because(why, holds) == IF holds THEN {why} ELSE {}

-----------------------------------------------------------------------------
(* The server *)

Accepted_Any(c) == TRUE
Accepted(c) == request[c].op = "login" \/ jti = request[c].token

\* The row is read, and the token compared with it; a refusal ends the request.
Load(c) ==
  /\ request[c].step = "sent"
  /\ IF Accepted(c)
     THEN /\ request' = [request EXCEPT ![c].step = "loaded"]
          /\ reasons' = reasons \union
               Because("overlap", \E d \in Calls \ {c} :
                                    request[d].step \in {"loaded", "flushed"})
          /\ UNCHANGED answer
     ELSE /\ request' = [request EXCEPT ![c] = NoRequest]
          /\ answer' = IF Waiting(c) THEN [answer EXCEPT ![c] = Refused] ELSE answer
          /\ UNCHANGED reasons
  /\ UNCHANGED <<jti, issued, browser, screen, call, faults, owner>>

NewToken_Regenerated(c) == IF request[c].op = "logout" THEN None ELSE issued + 2
NewToken(c) == IF request[c].op = "logout" THEN None ELSE issued + 1

\* The UPDATE waits for the row's lock and compares nothing.  The response is
\* sent before the transaction commits.
Flush(c) ==
  /\ request[c].step = "loaded"
  /\ \A d \in Calls : request[d].step # "flushed"
  /\ NewToken(c) # None => Bounded
  /\ issued' = IF request[c].op = "logout" THEN issued ELSE issued + 1
  /\ request' = [request EXCEPT ![c] = [@ EXCEPT !.token = NewToken(c), !.step = "flushed"]]
  /\ answer' = IF ~Waiting(c) THEN answer
               ELSE [answer EXCEPT ![c] = IF request[c].op = "logout" THEN request[c].token
                                          ELSE issued + 1]
  /\ UNCHANGED <<jti, browser, screen, call, faults, aux>>

Commit(c) ==
  /\ request[c].step = "flushed"
  /\ jti' = request[c].token
  /\ request' = [request EXCEPT ![c] = NoRequest]
  /\ UNCHANGED <<issued, answer, browser, screen, call, faults, aux>>

\* The transaction fails, after the response or instead of it.
Abort(c) ==
  /\ request[c].step \in {"loaded", "flushed"} /\ faults < MaxFaults /\ Bounded
  /\ faults' = faults + 1
  /\ request' = [request EXCEPT ![c] = NoRequest]
  /\ answer' = IF Waiting(c) /\ request[c].step = "loaded"
               THEN [answer EXCEPT ![c] = Failed] ELSE answer
  /\ reasons' = reasons \union {"fault"}
  /\ UNCHANGED <<jti, issued, browser, screen, call, owner>>

-----------------------------------------------------------------------------
(* Steps of a call *)

\* A call sends again when the transaction of its last request is over; the
\* other calls need not wait for it.
Send(c, op, token) ==
  /\ request[c] = NoRequest
  /\ request' = [request EXCEPT ![c] = [op |-> op, token |-> token, step |-> "sent"]]

\* Another call of the same browser has a request about tokens on its way, or
\* is logging out.
Overlapped(c) ==
  \E d \in Calls \ {c} :
    /\ In(d) = In(c)
    /\ Waiting(d) \/ request[d] # NoRequest \/ call[d].goal = "logout"

\* storeTokens and clearTokens.
Tokens_AccessOnly(c, id) ==
  /\ store' = [store EXCEPT ![In(c)] = IF id # None /\ @ # None THEN @ ELSE id]
  /\ fresh' = IF id = None THEN fresh \ {In(c)} ELSE fresh \union {In(c)}
Tokens(c, id) ==
  /\ store' = [store EXCEPT ![In(c)] = id]
  /\ fresh' = IF id = None THEN fresh \ {In(c)} ELSE fresh \union {In(c)}

Ends(c) == call' = [call EXCEPT ![c] = NoCall]
Shows(c, what) == screen' = [screen EXCEPT ![TabOf[c]] = what]

\* auth:expired, the end of a logout and the catch of the bootstrap.
ThrowOut(c) ==
  /\ Ends(c) /\ Tokens(c, None) /\ Shows(c, "out")

\* apiFetch of a page, or its event stream that connects: only a request that
\* is answered 401 goes on.
Ask(c) ==
  /\ Free(c) /\ screen[TabOf[c]] = "in" /\ In(c) \notin fresh
  /\ call' = [call EXCEPT ![c] = [NoCall EXCEPT !.goal = "page", !.step = "denied"]]
  /\ UNCHANGED <<server, answer, browser, screen, faults, aux>>

\* refreshAccessToken sends whatever token is stored by then.
Token(c) == store[In(c)]

Refresh(c) ==
  /\ call[c].step = "denied"
  /\ \/ /\ Token(c) = None
        /\ ThrowOut(c)
        /\ UNCHANGED <<request, reasons>>
     \/ /\ Token(c) # None
        /\ Send(c, "refresh", Token(c))
        /\ call' = [call EXCEPT ![c].step = "refreshing"]
        /\ reasons' = reasons \union Because("overlap", Overlapped(c))
        /\ UNCHANGED <<browser, screen>>
  /\ UNCHANGED <<jti, issued, answer, faults, owner>>

Takes(c) == answer' = [answer EXCEPT ![c] = None]

\* The request is sent again, marked as a retry; the first refresh of a page
\* that is being loaded is followed by its first request.
Refreshed(c) ==
  /\ call[c].step = "refreshing" /\ answer[c] # None /\ answer[c] > 0
  /\ Takes(c) /\ Tokens(c, answer[c])
  /\ call' = [call EXCEPT ![c] =
       IF @.goal = "boot" THEN [@ EXCEPT !.goal = "enter", !.step = "ready"]
       ELSE [@ EXCEPT !.step = "ready", !.retried = TRUE]]
  /\ UNCHANGED <<server, screen, faults, aux>>

RefreshRefused(c) ==
  /\ call[c].step = "refreshing" /\ answer[c] # None /\ answer[c] <= 0
  /\ Takes(c) /\ ThrowOut(c)
  /\ UNCHANGED <<server, faults, aux>>

\* The request is sent with the access token stored by then.  A page's own
\* request has no effect here; a page that is being entered is shown when its
\* user and sections have arrived, and a retry that is refused is given up.
Proceed(c) ==
  /\ call[c].step = "ready" /\ call[c].goal # "logout"
  /\ \/ call[c].goal = "page" /\ Ends(c) /\ UNCHANGED <<browser, screen>>
     \/ /\ call[c].goal # "page" /\ In(c) \in fresh
        /\ call' = [call EXCEPT ![c].step = "granted"]
        /\ UNCHANGED <<browser, screen>>
     \/ /\ call[c].goal # "page" /\ In(c) \notin fresh /\ ~call[c].retried
        /\ call' = [call EXCEPT ![c].step = "denied"]
        /\ UNCHANGED <<browser, screen>>
     \/ /\ call[c].goal = "enter" /\ In(c) \notin fresh /\ call[c].retried
        /\ ThrowOut(c)
     \/ /\ call[c].goal = "login" /\ In(c) \notin fresh /\ call[c].retried
        /\ Ends(c) /\ UNCHANGED <<browser, screen>>
  /\ UNCHANGED <<server, answer, faults, aux>>

Enter(c) ==
  /\ call[c].step = "granted"
  /\ Ends(c) /\ Shows(c, "in")
  /\ UNCHANGED <<server, answer, browser, faults, aux>>

-----------------------------------------------------------------------------
(* What users do *)

\* The page is opened or loaded again: what it had in flight is abandoned.
Reload(c) ==
  LET t == TabOf[c]
      dropped == [d \in Calls |-> IF TabOf[d] = t THEN NoCall ELSE call[d]]
  IN
  /\ request[c] = NoRequest
  /\ answer' = [d \in Calls |-> IF TabOf[d] = t THEN None ELSE answer[d]]
  /\ \/ /\ store[In(c)] = None
        /\ call' = dropped /\ Shows(c, "out")
        /\ reasons' = reasons \union Because("fault", \E d \in CallsOf(t) : Waiting(d))
        /\ UNCHANGED request
     \/ /\ store[In(c)] # None
        /\ Send(c, "refresh", store[In(c)])
        /\ call' = [dropped EXCEPT ![c] = [NoCall EXCEPT !.goal = "boot", !.step = "refreshing"]]
        /\ Shows(c, "loading")
        /\ reasons' = reasons \union Because("fault", \E d \in CallsOf(t) : Waiting(d))
                              \union Because("overlap", Overlapped(c))
  /\ UNCHANGED <<jti, issued, browser, faults, owner>>

\* A login starts the account of reasons anew; it is one itself until its
\* tokens are stored.
Login(c) ==
  /\ Free(c) /\ screen[TabOf[c]] = "out" /\ Available(TabOf[c])
  /\ Send(c, "login", None)
  /\ call' = [call EXCEPT ![c] = [NoCall EXCEPT !.goal = "login", !.step = "posting"]]
  /\ reasons' = {"login"} \union
       Because("overlap", Overlapped(c) \/ \E d \in Calls :
                            request[d] # NoRequest \/ call[d].step = "posting")
  /\ UNCHANGED <<jti, issued, answer, browser, screen, faults, owner>>

LoginAnswered(c) ==
  /\ call[c].step = "posting" /\ call[c].goal = "login" /\ answer[c] # None
  /\ Takes(c)
  /\ \/ /\ answer[c] > 0
        /\ Tokens(c, answer[c])
        /\ call' = [call EXCEPT ![c].step = "ready"]
        /\ owner' = In(c) /\ reasons' = reasons \ {"login"}
     \/ answer[c] <= 0 /\ Ends(c) /\ UNCHANGED <<browser, aux>>
  /\ UNCHANGED <<server, screen, faults>>

Logout(c) ==
  /\ Free(c) /\ screen[TabOf[c]] = "in" /\ Available(TabOf[c])
  /\ owner' = IF owner = In(c) THEN None ELSE owner
  /\ \/ /\ Token(c) = None
        /\ ThrowOut(c)
        /\ UNCHANGED <<request, reasons>>
     \/ /\ Token(c) # None
        /\ Send(c, "logout", Token(c))
        /\ call' = [call EXCEPT ![c] = [NoCall EXCEPT !.goal = "logout", !.step = "posting",
                                                      !.body = Token(c)]]
        /\ reasons' = reasons \union Because("overlap", Overlapped(c))
        /\ UNCHANGED <<browser, screen>>
  /\ UNCHANGED <<jti, issued, answer, faults>>

\* Through apiFetch: refused with 401 it refreshes, and repeats its old body.
LogoutAgain(c) ==
  /\ call[c].step = "ready" /\ call[c].goal = "logout"
  /\ Send(c, "logout", call[c].body)
  /\ call' = [call EXCEPT ![c].step = "posting"]
  /\ reasons' = reasons \union Because("overlap", Overlapped(c))
  /\ UNCHANGED <<jti, issued, answer, browser, screen, faults, owner>>

LogoutAnswered(c) ==
  /\ call[c].step = "posting" /\ call[c].goal = "logout" /\ answer[c] # None
  /\ Takes(c)
  /\ IF answer[c] = Refused /\ ~call[c].retried
     THEN call' = [call EXCEPT ![c].step = "denied"] /\ UNCHANGED <<browser, screen>>
     ELSE ThrowOut(c)
  /\ UNCHANGED <<server, faults, aux>>

-----------------------------------------------------------------------------
(* Faults and time *)

\* The network fails under a request, whatever the server made of it.  Only
\* the requests of a page and of a login leave the tokens alone.
Lose(c) ==
  LET harmless == call[c].step # "refreshing" /\ call[c].goal \in {"page", "login"} IN
  /\ call[c].step \in {"refreshing", "posting", "ready", "granted"}
  /\ faults < MaxFaults /\ Bounded
  /\ faults' = faults + 1
  /\ Takes(c)
  /\ \/ harmless /\ Ends(c) /\ UNCHANGED <<browser, screen>>
     \/ ~harmless /\ ThrowOut(c)
  /\ reasons' = reasons \union {"fault"}
  /\ UNCHANGED <<server, owner>>

\* An access token lasts longer than a request takes to be repeated.
Expire(b) ==
  /\ b \in fresh
  /\ \A c \in Calls : In(c) = b => ~call[c].retried
  /\ fresh' = fresh \ {b}
  /\ UNCHANGED <<server, answer, store, screen, call, faults, aux>>

-----------------------------------------------------------------------------
Init ==
  /\ jti = None /\ issued = 0
  /\ request = [c \in Calls |-> NoRequest]
  /\ answer = [c \in Calls |-> None]
  /\ store = [b \in Browsers |-> None] /\ fresh = {}
  /\ screen = [t \in Tabs |-> "out"]
  /\ call = [c \in Calls |-> NoCall]
  /\ faults = 0
  /\ owner = None /\ reasons = {}

ServerNext(c) == Load(c) \/ Flush(c) \/ Commit(c) \/ Abort(c)

ClientNext(c) ==
  \/ Ask(c)
  \/ Refresh(c) \/ Refreshed(c) \/ RefreshRefused(c)
  \/ Proceed(c) \/ Enter(c)
  \/ Reload(c)
  \/ Login(c) \/ LoginAnswered(c)
  \/ Logout(c) \/ LogoutAgain(c) \/ LogoutAnswered(c)
  \/ Lose(c)

Next ==
  \/ \E c \in Calls : ServerNext(c) \/ ClientNext(c)
  \/ \E b \in Browsers : Expire(b)

Spec == Init /\ [][Next]_vars

-----------------------------------------------------------------------------
(* Properties *)

Steps == {"none", "sent", "loaded", "flushed"}
Issued == (1..issued) \union {None}
Requests == [op : {"none", "login", "refresh", "logout"},
             token : Issued, step : Steps]
ClientCalls == [goal : {"none", "page", "boot", "enter", "login", "logout"},
                step : {"none", "denied", "refreshing", "posting", "ready", "granted"},
                body : Issued, retried : BOOLEAN]

\* Every variable keeps its type, and whoever holds a refresh token holds one
\* that was issued.
TypeOK ==
  /\ issued \in Nat /\ jti \in Issued
  /\ request \in [Calls -> Requests]
  /\ answer \in [Calls -> Issued \union {Refused, Failed}]
  /\ store \in [Browsers -> Issued] /\ fresh \subseteq Browsers
  /\ screen \in [Tabs -> {"out", "loading", "in"}]
  /\ call \in [Calls -> ClientCalls]
  /\ faults \in Nat
  /\ owner \in Browsers \union {None} /\ reasons \subseteq {"login", "overlap", "fault"}

Quiet == \A c \in Calls : ~Waiting(c) /\ request[c] = NoRequest

\* When nothing about tokens is on its way, the browser that logged in holds
\* the token the server expects, and after its logout the server expects none
\* ("Invalidates refresh token/session.", docs/API_ENDPOINTS.md:10): unless two
\* such requests overlapped, an answer was lost or a transaction failed.
SessionKept ==
  Quiet /\ reasons = {} =>
    IF owner = None THEN jti = None ELSE store[owner] = jti /\ jti # None

\* A tab is not sent to the login form while its browser is the one that is
\* logged in, with the same exceptions.
ThrownOutForReason ==
  [][\A t \in Tabs :
       screen[t] # "out" /\ screen'[t] = "out" =>
         reasons' # {} \/ owner' # BrowserOf[t]]_vars

=============================================================================
