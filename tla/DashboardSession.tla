--------------------------- MODULE DashboardSession ---------------------------
(***************************************************************************)
(* The owner's browser: several tabs share the tokens in localStorage and   *)
(* call the API with them.  A call refused with 401 waits for one refresh    *)
(* of its tab and is sent once more; a refused refresh ends at the login     *)
(* page.  A tab is one JavaScript thread: what a settled promise wakes runs   *)
(* before the tab's next event, while other tabs run at any time.            *)
(***************************************************************************)
EXTENDS Naturals

CONSTANTS
  Tabs,       \* tabs open on the dashboard
  Calls,      \* fetchJson invocations that may be under way together
  MaxIssued,  \* bound on the token pairs the API issues
  None

ASSUME SessionAssumption == MaxIssued \in Nat /\ None \notin Tabs \cup Calls

VARIABLES
  stored,     \* the token pair in localStorage, by number of issue, 0 when cleared
  issued,     \* pairs buildTokenResponse has made
  access,     \* pairs whose access token has not expired
  refresh,    \* pairs whose refresh token has not expired
  user,       \* user[t]: the React state of AuthProvider holds a user
  signing,    \* signing[t]: POST /auth/login or /auth/register is under way
  call,       \* the fetchJson invocations
  inFlight,   \* refreshInFlight of the tab: the call that made the promise
  asking      \* asking[c]: the refresh token a POST /auth/refresh of call c is under way with, or 0

tokens == <<stored, issued, access, refresh>>
tab == <<user, signing>>
vars == <<tokens, tab, call, inFlight, asking>>

Idle == [pc |-> "idle", tab |-> None, token |-> 0, on |-> None]

Init ==
  /\ stored = 0 /\ issued = 0
  /\ access = {} /\ refresh = {}
  /\ user = [t \in Tabs |-> FALSE]
  /\ signing = [t \in Tabs |-> FALSE]
  /\ call = [c \in Calls |-> Idle]
  /\ inFlight = [t \in Tabs |-> None]
  /\ asking = [c \in Calls |-> 0]

\* Continuations of settled promises run before the next event of a tab.
Awake(c) == call[c].pc \in {"renewed", "refused"}
Quiet(t) == \A c \in Calls : call[c].tab = t => ~Awake(c)

\* buildTokenResponse.
Issue ==
  /\ issued < MaxIssued
  /\ issued' = issued + 1
  /\ access' = access \cup {issued'}
  /\ refresh' = refresh \cup {issued'}

SetAuth(pair) == stored' = pair
ClearAuth == stored' = 0

-----------------------------------------------------------------------------
(* Time, sign-in, sign-out.                                                 *)

AccessExpires(n) ==
  /\ n \in access
  /\ access' = access \ {n}
  /\ UNCHANGED <<stored, issued, refresh, tab, call, inFlight, asking>>

RefreshExpires(n) ==
  /\ n \in refresh \ access
  /\ refresh' = refresh \ {n}
  /\ UNCHANGED <<stored, issued, access, tab, call, inFlight, asking>>

SubmitLogin(t) ==
  /\ Quiet(t) /\ ~user[t] /\ ~signing[t]
  /\ signing' = [signing EXCEPT ![t] = TRUE]
  /\ UNCHANGED <<tokens, user, call, inFlight, asking>>

\* The form for a new account does not look whether somebody is signed in.
SubmitRegister(t) ==
  /\ Quiet(t) /\ ~signing[t]
  /\ signing' = [signing EXCEPT ![t] = TRUE]
  /\ UNCHANGED <<tokens, user, call, inFlight, asking>>

\* Which of the forms was sent shows when the answer comes.
SignedIn(t) ==
  /\ Quiet(t) /\ signing[t]
  /\ signing' = [signing EXCEPT ![t] = FALSE]
  /\ UNCHANGED <<call, inFlight, asking>>

Login(t) ==
  /\ SignedIn(t)
  /\ Issue /\ SetAuth(issued')
  /\ user' = [user EXCEPT ![t] = TRUE]

\* The tokens of a new account are stored, AuthProvider is not told.
Register(t) ==
  /\ SignedIn(t)
  /\ Issue /\ SetAuth(issued')
  /\ UNCHANGED user

SignInRefused(t) ==
  /\ SignedIn(t)
  /\ UNCHANGED <<tokens, user>>

\* The shell of the dashboard shows its pages, and its sign-out button, to a user.
Dashboard(t) == Quiet(t) /\ user[t]

\* Calls and a refresh that are under way go on.
Logout(t) ==
  /\ Dashboard(t)
  /\ ClearAuth
  /\ user' = [user EXCEPT ![t] = FALSE]
  /\ UNCHANGED <<issued, access, refresh, signing, call, inFlight, asking>>

\* A page is loaded, by the redirect to /login or by the user: the thread and all
\* its promises are gone, and AuthProvider takes the user from localStorage.
Load(t) ==
  /\ Quiet(t)
  /\ user' = [user EXCEPT ![t] = stored # 0]
  /\ signing' = [signing EXCEPT ![t] = FALSE]
  /\ call' = [c \in Calls |-> IF call[c].tab = t THEN Idle ELSE call[c]]
  /\ inFlight' = [inFlight EXCEPT ![t] = None]
  /\ asking' = [c \in Calls |-> IF call[c].tab = t THEN 0 ELSE asking[c]]
  /\ UNCHANGED tokens

-----------------------------------------------------------------------------
(* fetchJson and refreshAccessToken.                                        *)

Sent(c, t, pc) ==
  call' = [call EXCEPT ![c] = [pc |-> pc, tab |-> t, token |-> stored, on |-> None]]

\* A page uses apiClient: its operations are calls of fetchJson.
Start(c, t) ==
  /\ Dashboard(t)
  /\ call[c].pc = "idle"
  /\ Sent(c, t, "sent")
  /\ UNCHANGED <<tokens, tab, inFlight, asking>>

\* The image of a voucher is fetched without any of this: there is one attempt.
FetchBlob(c, t) ==
  /\ Dashboard(t)
  /\ call[c].pc = "idle"
  /\ Sent(c, t, "last")
  /\ UNCHANGED <<tokens, tab, inFlight, asking>>

\* The call returns or throws.
Ended(c) == [call EXCEPT ![c] = Idle]

\* A 200 (the token is good), or an error that is not a 401, or no answer.
Answered(c) ==
  /\ call[c].pc \in {"sent", "last"} /\ Quiet(call[c].tab)
  /\ call' = Ended(c)
  /\ UNCHANGED <<tokens, tab, inFlight, asking>>

RejectedAgain(c) ==
  /\ call[c].pc = "last" /\ Quiet(call[c].tab)
  /\ call[c].token \notin access
  /\ call' = Ended(c)
  /\ UNCHANGED <<tokens, tab, inFlight, asking>>

\* window.location.href is set too; the page goes on until that ends in a Load.
ForceLoginRedirect ==
  /\ ClearAuth
  /\ UNCHANGED <<issued, access, refresh, tab>>

\* The token refreshAccessToken asks with; a slip: the one of the call's own pair.
RefreshTokenOfCall(c) == call[c].token
RefreshToken(c) == stored

\* The promise a 401 waits on: the one in flight, or a new one.  A slip: always new.
PromiseOwn(c) == c
Promise(c) == IF inFlight[call[c].tab] = None THEN c ELSE inFlight[call[c].tab]

Rejected(c) ==
  LET t == call[c].tab IN
  /\ call[c].pc = "sent" /\ Quiet(t)
  /\ call[c].token \notin access
  /\ IF RefreshToken(c) # 0
     THEN /\ call' = [call EXCEPT ![c] = [@ EXCEPT !.pc = "waiting", !.on = Promise(c)]]
          /\ inFlight' = [inFlight EXCEPT ![t] = Promise(c)]
          /\ asking' = [asking EXCEPT ![Promise(c)] = IF @ = 0 THEN RefreshToken(c) ELSE @]
          /\ UNCHANGED <<tokens, tab>>
     ELSE /\ ForceLoginRedirect
          /\ call' = Ended(c)
          /\ UNCHANGED <<inFlight, asking>>

\* The calls a settled refresh wakes; a slip: only the one that started it.
WokenStarter(p) == {p}
Woken(p) == {c \in Calls : call[c].pc = "waiting" /\ call[c].on = p}

Settle(p, result) ==
  /\ call' = [c \in Calls |-> IF c \in Woken(p) THEN [call[c] EXCEPT !.pc = result] ELSE call[c]]
  /\ inFlight' = [inFlight EXCEPT ![call[p].tab] = None]
  /\ asking' = [asking EXCEPT ![p] = 0]
  /\ UNCHANGED tab

\* The API finds the refresh token good and the browser stores the new pair, also
\* when the user has signed out meanwhile.
RefreshSucceeds(p) ==
  /\ asking[p] \in refresh /\ Quiet(call[p].tab)
  /\ Issue /\ SetAuth(issued')
  /\ Settle(p, "renewed")

\* 401, 429, or no answer.
RefreshFails(p) ==
  /\ asking[p] # 0 /\ Quiet(call[p].tab)
  /\ Settle(p, "refused")
  /\ UNCHANGED tokens

\* The token of the second attempt; a slip: the headers of the first are kept.
RetryTokenKept(c) == call[c].token
RetryToken(c) == stored

Retry(c) ==
  /\ call[c].pc = "renewed"
  /\ call' = [call EXCEPT ![c] = [@ EXCEPT !.pc = "last", !.token = RetryToken(c), !.on = None]]
  /\ UNCHANGED <<tokens, tab, inFlight, asking>>

GiveUp(c) ==
  /\ call[c].pc = "refused"
  /\ ForceLoginRedirect
  /\ call' = Ended(c)
  /\ UNCHANGED <<inFlight, asking>>

Next ==
  \/ \E n \in 1..MaxIssued : AccessExpires(n) \/ RefreshExpires(n)
  \/ \E t \in Tabs :
       \/ SubmitLogin(t) \/ SubmitRegister(t)
       \/ Login(t) \/ Register(t) \/ SignInRefused(t)
       \/ Logout(t) \/ Load(t)
  \/ \E c \in Calls, t \in Tabs : Start(c, t) \/ FetchBlob(c, t)
  \/ \E c \in Calls :
       \/ Answered(c) \/ Rejected(c) \/ RejectedAgain(c)
       \/ RefreshSucceeds(c) \/ RefreshFails(c)
       \/ Retry(c) \/ GiveUp(c)

Spec == Init /\ [][Next]_vars

\* A tab serves its events in turn, and every request is answered or fails in the end.
Fairness == \A c \in Calls :
  /\ SF_vars(Answered(c))
  /\ SF_vars(RefreshSucceeds(c) \/ RefreshFails(c))
  /\ WF_vars(Retry(c) \/ GiveUp(c))

FairSpec == Spec /\ Fairness

-----------------------------------------------------------------------------
(* Properties.                                                              *)

CallStates ==
  [pc : {"sent", "last", "renewed", "refused"}, tab : Tabs, token : 0..MaxIssued,
   on : Calls \cup {None}]
    \cup [pc : {"waiting"}, tab : Tabs, token : 0..MaxIssued, on : Calls]

\* Every variable holds a value of its type, and a call that waits does so on the
\* refresh its tab has in flight (api-client.ts:34-59).
TypeOK ==
  /\ issued \in 0..MaxIssued /\ stored \in 0..issued
  /\ access \subseteq refresh /\ refresh \subseteq 1..issued
  /\ {user, signing} \subseteq [Tabs -> BOOLEAN]
  /\ call \in [Calls -> CallStates \cup {Idle}]
  /\ inFlight \in [Tabs -> Calls \cup {None}]
  /\ asking \in [Calls -> 0..MaxIssued]
  /\ \A c \in Calls : call[c].pc = "waiting" => inFlight[call[c].tab] = call[c].on

\* However many calls of a tab are refused at once, it asks for one new token pair
\* at a time (refreshInFlight, api-client.ts:32-59).
SingleFlight ==
  \A c, d \in Calls : asking[c] # 0 /\ asking[d] # 0 /\ call[c].tab = call[d].tab => c = d

\* A call is never sent a second time with the token that was refused: it goes out
\* with another one, or with none when the browser was signed out meanwhile
\* (api-client.ts:80-99).
RetryUsesAnotherToken ==
  [][\A c \in Calls : call[c].pc = "renewed" /\ call'[c].pc = "last" =>
       call'[c].token = 0 \/ call'[c].token # call[c].token]_vars

\* Once the browser is signed out and no refresh is under way, no call that is still
\* answered with 401 brings tokens back or asks for any: only a login does
\* (api-client.ts:34-36, auth-storage.ts:34-38).
SignedOut == stored = 0 /\ \A t \in Tabs : inFlight[t] = None
SignedOutStaysOut == [][SignedOut => SignedOut' \/ \E t \in Tabs : signing[t]]_vars

\* A call that is under way returns or throws in the end, whatever becomes of the
\* refresh it waits for (api-client.ts:93-104).
EveryCallSettles == \A c \in Calls : call[c].pc # "idle" ~> call[c].pc = "idle"
=============================================================================
