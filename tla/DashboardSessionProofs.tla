------------------------- MODULE DashboardSessionProofs -------------------------
(***************************************************************************)
(* Theorems about DashboardSession, for any number of tabs and calls.        *)
(***************************************************************************)
EXTENDS DashboardSession, TLAPS

\* Who asks for a new pair is the call whose promise its tab has in flight, and waits
\* for it itself.
FlightKnown ==
  /\ \A c \in Calls : asking[c] # 0 =>
       call[c].pc = "waiting" /\ call[c].on = c /\ inFlight[call[c].tab] = c
  /\ \A t \in Tabs : inFlight[t] # None =>
       call[inFlight[t]].tab = t /\ call[inFlight[t]].pc = "waiting" /\ asking[inFlight[t]] # 0

\* A call carries a pair that was issued, and one that goes out again finds another in
\* the browser, or none.
TokensAdvance ==
  \A c \in Calls :
    /\ call[c].token <= issued
    /\ call[c].pc = "renewed" => stored = 0 \/ call[c].token < stored

SessionInv == TypeOK /\ FlightKnown /\ TokensAdvance

-----------------------------------------------------------------------------
LEMMA IdleFacts == Idle.pc = "idle" /\ Idle.token = 0 /\ Idle.on = None /\ Idle.tab = None
  BY DEF Idle

\* A call under way has a tab, a token and, if it waits, a promise.
LEMMA CallFacts ==
  ASSUME TypeOK, NEW c \in Calls, call[c].pc # "idle"
  PROVE  /\ call[c].tab \in Tabs /\ call[c].token \in 0..MaxIssued
         /\ call[c].on \in Calls \cup {None}
         /\ call[c] = [pc |-> call[c].pc, tab |-> call[c].tab, token |-> call[c].token,
                       on |-> call[c].on]
         /\ call[c].pc \in {"sent", "last", "renewed", "refused", "waiting"}
         /\ call[c].pc = "waiting" => call[c].on \in Calls
  BY DEF TypeOK, Idle, CallStates

LEMMA TokenNat == TypeOK => \A c \in Calls : call[c].token \in Nat
<1> SUFFICES ASSUME TypeOK, NEW c \in Calls PROVE call[c].token \in Nat
  OBVIOUS
<1>1. CASE call[c].pc = "idle"
  BY <1>1, IdleFacts DEF TypeOK, CallStates
<1>2. CASE call[c].pc # "idle"
  <2>1. call[c].token \in 0..MaxIssued
    BY <1>2, CallFacts
  <2> QED
    BY <2>1, SessionAssumption
<1> QED
  BY <1>1, <1>2

\* Pairs are numbered and none is above the last.
LEMMA TokenFacts ==
  ASSUME TypeOK
  PROVE  /\ MaxIssued \in Nat /\ issued \in 0..MaxIssued /\ issued \in Nat
         /\ stored \in 0..issued /\ stored \in 0..MaxIssued
         /\ access \subseteq refresh /\ refresh \subseteq 1..issued /\ 0 \notin refresh
  BY SessionAssumption DEF TypeOK

\* A new pair.
LEMMA IssueFacts ==
  ASSUME TypeOK, Issue
  PROVE  /\ issued' = issued + 1 /\ issued' \in 0..MaxIssued /\ issued' # 0
         /\ access' \subseteq refresh' /\ refresh' \subseteq 1..issued'
<1>1. /\ MaxIssued \in Nat /\ issued \in 0..MaxIssued
      /\ access \subseteq refresh /\ refresh \subseteq 1..issued
  BY TokenFacts
<1>2. issued < MaxIssued /\ issued' = issued + 1
      /\ access' = access \cup {issued'} /\ refresh' = refresh \cup {issued'}
  BY DEF Issue
<1>3. issued' \in 0..MaxIssued /\ issued' # 0 /\ issued' \in 1..issued' /\ 1..issued \subseteq 1..issued'
  BY <1>1, <1>2
<1> QED
  BY <1>1, <1>2, <1>3

-----------------------------------------------------------------------------
LEMMA InvInit == Init => SessionInv
<1> SUFFICES ASSUME Init PROVE SessionInv
  OBVIOUS
<1>1. /\ \A c \in Calls : call[c] = Idle /\ asking[c] = 0
      /\ \A t \in Tabs : inFlight[t] = None
  BY DEF Init
<1>2. TypeOK
  BY <1>1, IdleFacts, SessionAssumption DEF Init, TypeOK
<1> QED
  BY <1>1, <1>2, IdleFacts DEF Init, SessionInv, FlightKnown, TokensAdvance

\* Steps that change no call and no refresh: time and the forms.
LEMMA TabStep ==
  ASSUME SessionInv, UNCHANGED <<call, inFlight, asking>>,
         {user', signing'} \subseteq [Tabs -> BOOLEAN],
         access' \subseteq refresh', refresh' \subseteq 1..issued',
         \/ UNCHANGED <<stored, issued>>
         \/ stored' = 0 /\ UNCHANGED issued
         \/ Issue /\ stored' = issued'
  PROVE  SessionInv'
<1>0. TypeOK /\ FlightKnown /\ TokensAdvance
  BY DEF SessionInv
<1>1. /\ MaxIssued \in Nat /\ issued \in 0..MaxIssued /\ stored \in 0..issued
      /\ \A c \in Calls : call[c].token \in Nat
  BY <1>0, TokenFacts, TokenNat
<1>2. issued' \in 0..MaxIssued /\ stored' \in 0..issued' /\ issued <= issued'
  BY <1>0, <1>1, IssueFacts
<1>3. TokensAdvance'
  BY <1>0, <1>1, <1>2, IssueFacts DEF TokensAdvance
<1>4. TypeOK' /\ FlightKnown'
  BY <1>0, <1>2 DEF TypeOK, FlightKnown
<1> QED
  BY <1>3, <1>4 DEF SessionInv

\* Steps of a call that holds no promise and waits for none.
LEMMA LoneCallStep ==
  ASSUME SessionInv, NEW c \in Calls, call[c].pc # "waiting",
         NEW to \in CallStates \cup {Idle}, call' = [call EXCEPT ![c] = to],
         to.pc # "waiting", to.token \in 0..issued,
         to.pc = "renewed" => FALSE,
         stored' \in {stored, 0}, UNCHANGED <<issued, access, refresh, tab, inFlight, asking>>
  PROVE  SessionInv'
<1>0. TypeOK /\ FlightKnown /\ TokensAdvance
  BY DEF SessionInv
<1>1. \A d \in Calls : call'[d] = IF d = c THEN to ELSE call[d]
  BY <1>0 DEF TypeOK
<1>2. call' \in [Calls -> CallStates \cup {Idle}]
  BY <1>0 DEF TypeOK
<1>3. TypeOK'
  BY <1>0, <1>1, <1>2, TokenFacts DEF TypeOK, tab
<1>4. FlightKnown'
  <2>1. \A d \in Calls : asking[d] # 0 => d # c
    BY <1>0 DEF FlightKnown
  <2>2. \A t \in Tabs : inFlight[t] # None => inFlight[t] \in Calls /\ inFlight[t] # c
    BY <1>0 DEF FlightKnown, TypeOK
  <2> QED
    BY <1>0, <1>1, <2>1, <2>2 DEF FlightKnown
<1>5. TokensAdvance'
  BY <1>0, <1>1, TokenFacts DEF TokensAdvance
<1> QED
  BY <1>3, <1>4, <1>5 DEF SessionInv

\* The page is loaded: its calls and promises are gone.
LEMMA LoadStep ==
  ASSUME SessionInv, NEW t \in Tabs, Load(t)
  PROVE  SessionInv'
<1>0. TypeOK /\ FlightKnown /\ TokensAdvance
  BY DEF SessionInv
<1>1. /\ \A c \in Calls : call'[c] = IF call[c].tab = t THEN Idle ELSE call[c]
      /\ \A c \in Calls : asking'[c] = IF call[c].tab = t THEN 0 ELSE asking[c]
      /\ \A u \in Tabs : inFlight'[u] = IF u = t THEN None ELSE inFlight[u]
      /\ UNCHANGED <<stored, issued, access, refresh>>
  BY <1>0 DEF Load, TypeOK, tokens
<1>2. /\ call' \in [Calls -> CallStates \cup {Idle}]
      /\ asking' \in [Calls -> 0..MaxIssued]
      /\ inFlight' \in [Tabs -> Calls \cup {None}]
      /\ {user', signing'} \subseteq [Tabs -> BOOLEAN]
  BY <1>0, SessionAssumption DEF Load, TypeOK
<1>3. \A c \in Calls : call[c].pc = "waiting" => call[c].tab \in Tabs
  BY <1>0, CallFacts
<1>4. TypeOK'
  BY <1>0, <1>1, <1>2, <1>3, IdleFacts DEF TypeOK
<1>5. FlightKnown'
  <2>1. \A c \in Calls : asking[c] # 0 => call[c].tab \in Tabs
    BY <1>0, <1>3 DEF FlightKnown
  <2>2. \A u \in Tabs : inFlight[u] # None => inFlight[u] \in Calls
    BY <1>0 DEF TypeOK
  <2> QED
    BY <1>0, <1>1, <2>1, <2>2 DEF FlightKnown
<1>6. TokensAdvance'
  BY <1>0, <1>1, IdleFacts, TokenFacts DEF TokensAdvance
<1> QED
  BY <1>4, <1>5, <1>6 DEF SessionInv

\* A call that is refused waits for the promise of its tab, its own if there was none.
LEMMA RejectedStep ==
  ASSUME SessionInv, NEW c \in Calls, Rejected(c), RefreshToken(c) # 0
  PROVE  SessionInv'
<1>0. TypeOK /\ FlightKnown /\ TokensAdvance
  BY DEF SessionInv
<1>1. call[c].pc = "sent" /\ call[c].tab \in Tabs /\ UNCHANGED <<stored, issued, access, refresh, tab>>
  BY <1>0, CallFacts DEF Rejected, tokens
<1> DEFINE p == Promise(c)
           t == call[c].tab
<1>2. /\ p \in Calls /\ p # None
      /\ inFlight[t] = None => p = c
      /\ inFlight[t] # None => p = inFlight[t] /\ p # c
  BY <1>0, <1>1, SessionAssumption DEF Promise, TypeOK, FlightKnown
<1> HIDE DEF p
<1>3. call' = [call EXCEPT ![c] = [call[c] EXCEPT !.pc = "waiting", !.on = p]]
  BY DEF Rejected, p
<1>4. /\ \A d \in Calls : d # c => call'[d] = call[d]
      /\ call'[c].pc = "waiting" /\ call'[c].tab = t /\ call'[c].token = call[c].token
      /\ call'[c].on = p /\ call'[c] \in CallStates
      /\ call' \in [Calls -> CallStates \cup {Idle}]
  <2>1. call[c] \in CallStates /\ call \in [Calls -> CallStates \cup {Idle}]
    BY <1>0, <1>1, IdleFacts DEF TypeOK
  <2>2. \A r \in CallStates :
          LET s == [r EXCEPT !.pc = "waiting", !.on = p]
          IN  s \in CallStates /\ s.pc = "waiting" /\ s.on = p /\ s.tab = r.tab /\ s.token = r.token
    BY <1>2 DEF CallStates
  <2>3. call'[c] = [call[c] EXCEPT !.pc = "waiting", !.on = p]
    BY <1>3, <2>1
  <2> QED
    BY <1>3, <2>1, <2>2, <2>3
<1>5. /\ inFlight' = [inFlight EXCEPT ![t] = p]
      /\ asking' = [asking EXCEPT ![p] = IF @ = 0 THEN stored ELSE @]
      /\ stored # 0
  BY DEF Rejected, RefreshToken, p
<1>6. /\ \A u \in Tabs : inFlight'[u] = IF u = t THEN p ELSE inFlight[u]
      /\ \A d \in Calls : d # p => asking'[d] = asking[d]
      /\ asking'[p] # 0
      /\ inFlight' \in [Tabs -> Calls \cup {None}]
      /\ asking' \in [Calls -> 0..MaxIssued]
  <2>1. (IF asking[p] = 0 THEN stored ELSE asking[p]) \in 0..MaxIssued \ {0}
    BY <1>0, <1>2, <1>5, TokenFacts DEF TypeOK
  <2> QED
    BY <1>0, <1>1, <1>2, <1>5, <2>1 DEF TypeOK
<1>7. TypeOK'
  <2>1. \A d \in Calls : call'[d].pc = "waiting" => inFlight'[call'[d].tab] = call'[d].on
    <3>1. SUFFICES ASSUME NEW d \in Calls, d # c, call[d].pc = "waiting"
                   PROVE  inFlight'[call[d].tab] = call[d].on
      BY <1>1, <1>4, <1>6
    <3>2. inFlight[call[d].tab] = call[d].on /\ call[d].on \in Calls /\ call[d].tab \in Tabs
      BY <1>0, <3>1, CallFacts DEF TypeOK
    <3>3. call[d].on # None
      BY <3>2, SessionAssumption
    <3> QED
      BY <1>2, <1>6, <3>2, <3>3
  <2> QED
    BY <1>0, <1>1, <1>4, <1>6, <2>1 DEF TypeOK, tab
<1>8. FlightKnown'
  <2>1. \A d \in Calls : asking'[d] # 0 =>
          call'[d].pc = "waiting" /\ call'[d].on = d /\ inFlight'[call'[d].tab] = d
    <3>1. CASE inFlight[t] = None
      <4>1. \A d \in Calls : asking[d] # 0 => d # c /\ call[d].tab # t
        BY <1>0, <1>1, <3>1, SessionAssumption DEF FlightKnown
      <4>2. \A d \in Calls : asking[d] # 0 => call[d].tab \in Tabs
        BY <1>0, CallFacts DEF FlightKnown
      <4> QED
        BY <1>0, <1>1, <1>2, <1>4, <1>6, <3>1, <4>1, <4>2 DEF FlightKnown
    <3>2. CASE inFlight[t] # None
      <4>1. asking[p] # 0 /\ p # c /\ p = inFlight[t]
        BY <1>0, <1>1, <1>2, <3>2 DEF FlightKnown
      <4>2. \A d \in Calls : asking'[d] # 0 => asking[d] # 0 /\ d # c
        BY <1>0, <1>1, <1>6, <4>1 DEF FlightKnown
      <4>3. \A d \in Calls : asking[d] # 0 => call[d].tab \in Tabs
        BY <1>0, CallFacts DEF FlightKnown
      <4> QED
        BY <1>0, <1>4, <1>6, <4>1, <4>2, <4>3 DEF FlightKnown
    <3> QED
      BY <3>1, <3>2
  <2>2. \A u \in Tabs : inFlight'[u] # None =>
          /\ call'[inFlight'[u]].tab = u /\ call'[inFlight'[u]].pc = "waiting"
          /\ asking'[inFlight'[u]] # 0
    <3>1. SUFFICES ASSUME NEW u \in Tabs, inFlight'[u] # None
                   PROVE  /\ call'[inFlight'[u]].tab = u /\ call'[inFlight'[u]].pc = "waiting"
                          /\ asking'[inFlight'[u]] # 0
      OBVIOUS
    <3>2. CASE u = t
      BY <1>0, <1>1, <1>2, <1>4, <1>6, <3>2 DEF FlightKnown
    <3>3. CASE u # t
      <4>1. inFlight'[u] = inFlight[u] /\ inFlight[u] \in Calls
        BY <1>0, <1>6, <3>1, <3>3 DEF TypeOK
      <4>2. inFlight[u] # c /\ call[inFlight[u]].tab = u /\ call[inFlight[u]].pc = "waiting"
            /\ asking[inFlight[u]] # 0
        BY <1>0, <1>1, <3>1, <4>1 DEF FlightKnown
      <4> QED
        BY <1>4, <1>6, <4>1, <4>2
    <3> QED
      BY <3>2, <3>3
  <2> QED
    BY <2>1, <2>2 DEF FlightKnown
<1>9. TokensAdvance'
  BY <1>0, <1>1, <1>4 DEF TokensAdvance
<1> QED
  BY <1>7, <1>8, <1>9 DEF SessionInv

\* A promise settles: every call that waits for it goes on, and there are no others
\* in its tab.
LEMMA SettleStep ==
  ASSUME SessionInv, NEW p \in Calls, asking[p] # 0, NEW result \in {"renewed", "refused"},
         Settle(p, result),
         \/ result = "renewed" /\ Issue /\ stored' = issued'
         \/ result = "refused" /\ UNCHANGED tokens
  PROVE  SessionInv'
<1>0. TypeOK /\ FlightKnown /\ TokensAdvance
  BY DEF SessionInv
<1> DEFINE t == call[p].tab
<1>1. call[p].pc = "waiting" /\ call[p].on = p /\ inFlight[t] = p /\ t \in Tabs
  BY <1>0, CallFacts DEF FlightKnown
<1>2. \A c \in Calls : call[c].pc = "waiting" =>
        call[c].tab \in Tabs /\ call[c].on \in Calls /\ inFlight[call[c].tab] = call[c].on
  BY <1>0, CallFacts DEF TypeOK
<1>3. \A c \in Calls : c \in Woken(p) <=> call[c].pc = "waiting" /\ call[c].tab = t
  <2>1. \A c \in Calls : c \in Woken(p) => call[c].tab = t
    <3>1. SUFFICES ASSUME NEW c \in Calls, c \in Woken(p) PROVE call[c].tab = t
      OBVIOUS
    <3>2. inFlight[call[c].tab] = p /\ call[c].tab \in Tabs
      BY <1>2, <3>1 DEF Woken
    <3>3. p # None
      BY SessionAssumption
    <3> QED
      BY <1>0, <3>2, <3>3 DEF FlightKnown
  <2> QED
    BY <1>1, <1>2, <2>1 DEF Woken
<1>4. \A c \in Calls :
        /\ c \notin Woken(p) => call'[c] = call[c]
        /\ c \in Woken(p) =>
             /\ call'[c].pc = result /\ call'[c].tab = t /\ call'[c].token = call[c].token
             /\ call'[c].on = call[c].on /\ call'[c] \in CallStates
  <2>1. \A c \in Calls : c \notin Woken(p) => call'[c] = call[c]
    BY DEF Settle
  <2>2. ASSUME NEW c \in Calls, c \in Woken(p)
        PROVE  /\ call'[c].pc = result /\ call'[c].tab = t /\ call'[c].token = call[c].token
               /\ call'[c].on = call[c].on /\ call'[c] \in CallStates
    <3>1. /\ call[c] = [pc |-> call[c].pc, tab |-> t, token |-> call[c].token, on |-> call[c].on]
          /\ call[c].token \in 0..MaxIssued /\ call[c].on \in Calls
      BY <1>0, <1>3, <2>2, CallFacts
    <3>2. call'[c] = [call[c] EXCEPT !.pc = result]
      BY <2>2 DEF Settle
    <3>3. call'[c] = [pc |-> result, tab |-> t, token |-> call[c].token, on |-> call[c].on]
      BY <3>1, <3>2
    <3>4. [pc |-> result, tab |-> t, token |-> call[c].token, on |-> call[c].on] \in CallStates
      BY <1>1, <3>1 DEF CallStates
    <3> QED
      BY <3>3, <3>4
  <2> QED
    BY <2>1, <2>2
<1>5. /\ call' \in [Calls -> CallStates \cup {Idle}]
      /\ \A c \in Calls : call'[c].token = call[c].token /\ call'[c].tab = call[c].tab
      /\ \A c \in Calls : call'[c].pc = "waiting" => call'[c] = call[c] /\ call[c].tab # t
      /\ \A c \in Calls : call'[c].pc = "renewed" =>
            call[c].pc = "renewed" \/ result = "renewed"
  <2>1. \A c \in Calls : call'[c] \in CallStates \cup {Idle}
    BY <1>0, <1>4 DEF TypeOK
  <2>2. call' = [c \in Calls |-> call'[c]]
    BY DEF Settle
  <2>3. \A c \in Calls : call'[c].token = call[c].token /\ call'[c].tab = call[c].tab
    BY <1>3, <1>4
  <2>4. \A c \in Calls : call'[c].pc = "waiting" => call'[c] = call[c] /\ call[c].tab # t
    BY <1>3, <1>4
  <2>5. \A c \in Calls : call'[c].pc = "renewed" => call[c].pc = "renewed" \/ result = "renewed"
    BY <1>4
  <2> QED
    BY <2>1, <2>2, <2>3, <2>4, <2>5
<1>6. /\ \A u \in Tabs : inFlight'[u] = IF u = t THEN None ELSE inFlight[u]
      /\ \A c \in Calls : asking'[c] = IF c = p THEN 0 ELSE asking[c]
      /\ inFlight' \in [Tabs -> Calls \cup {None}] /\ asking' \in [Calls -> 0..MaxIssued]
  BY <1>0, <1>1, SessionAssumption DEF Settle, TypeOK
<1>7. /\ MaxIssued \in Nat /\ issued' \in 0..MaxIssued /\ stored' \in 0..issued'
      /\ issued \in Nat /\ issued <= issued' /\ access' \subseteq refresh' /\ refresh' \subseteq 1..issued'
      /\ result = "renewed" => issued < stored'
      /\ result = "refused" => stored' = stored
  <2>1. CASE result = "renewed"
    BY <1>0, <2>1, IssueFacts, TokenFacts
  <2>2. CASE result = "refused"
    BY <1>0, <2>2, TokenFacts DEF tokens
  <2> QED
    BY <2>1, <2>2
<1>8. TypeOK'
  <2>1. \A c \in Calls : call'[c].pc = "waiting" => inFlight'[call'[c].tab] = call'[c].on
    BY <1>2, <1>5, <1>6
  <2> QED
    BY <1>0, <1>5, <1>6, <1>7, <2>1 DEF TypeOK, Settle, tab
<1>9. FlightKnown'
  <2>1. \A c \in Calls : asking'[c] # 0 => asking[c] # 0 /\ c # p /\ call[c].tab # t /\ call[c].pc = "waiting"
    BY <1>0, <1>1, <1>6 DEF FlightKnown
  <2>2. \A c \in Calls : asking'[c] # 0 =>
          call'[c].pc = "waiting" /\ call'[c].on = c /\ inFlight'[call'[c].tab] = c
    BY <1>0, <1>2, <1>3, <1>4, <1>6, <2>1 DEF FlightKnown
  <2>3. \A u \in Tabs : inFlight'[u] # None =>
          /\ call'[inFlight'[u]].tab = u /\ call'[inFlight'[u]].pc = "waiting"
          /\ asking'[inFlight'[u]] # 0
    <3>1. SUFFICES ASSUME NEW u \in Tabs, inFlight'[u] # None
                   PROVE  /\ call'[inFlight'[u]].tab = u /\ call'[inFlight'[u]].pc = "waiting"
                          /\ asking'[inFlight'[u]] # 0
      OBVIOUS
    <3>2. u # t /\ inFlight'[u] = inFlight[u] /\ inFlight[u] \in Calls
      BY <1>0, <1>6, <3>1 DEF TypeOK
    <3>3. /\ call[inFlight[u]].tab = u /\ call[inFlight[u]].pc = "waiting"
          /\ asking[inFlight[u]] # 0 /\ inFlight[u] # p
      BY <1>0, <3>1, <3>2 DEF FlightKnown
    <3> QED
      BY <1>3, <1>4, <1>6, <3>2, <3>3
  <2> QED
    BY <2>2, <2>3 DEF FlightKnown
<1>10. TokensAdvance'
  <2>1. \A c \in Calls : call[c].token \in Nat
    BY <1>0, TokenNat
  <2> QED
    BY <1>0, <1>5, <1>7, <2>1 DEF TokensAdvance
<1> QED
  BY <1>8, <1>9, <1>10 DEF SessionInv

-----------------------------------------------------------------------------
\* Every step keeps all this.
LEMMA InvStep == SessionInv /\ [Next]_vars => SessionInv'
<1> SUFFICES ASSUME SessionInv, [Next]_vars PROVE SessionInv'
  OBVIOUS
<1>0. TypeOK /\ FlightKnown /\ TokensAdvance
  BY DEF SessionInv
<1>1. /\ access \subseteq refresh /\ refresh \subseteq 1..issued
      /\ user \in [Tabs -> BOOLEAN] /\ signing \in [Tabs -> BOOLEAN] /\ stored \in 0..issued
  BY <1>0 DEF TypeOK
<1>2. ASSUME NEW n \in 1..MaxIssued, AccessExpires(n) \/ RefreshExpires(n) PROVE SessionInv'
  <2>1. UNCHANGED <<call, inFlight, asking, stored, issued, user, signing>>
    BY <1>2 DEF AccessExpires, RefreshExpires, tab
  <2>2. access' \subseteq refresh' /\ refresh' \subseteq 1..issued'
    BY <1>1, <1>2 DEF AccessExpires, RefreshExpires
  <2> QED
    BY <1>1, <2>1, <2>2, TabStep
<1>3. ASSUME NEW t \in Tabs, SubmitLogin(t) \/ SubmitRegister(t) \/ SignInRefused(t) \/ Logout(t)
      PROVE SessionInv'
  <2>1. UNCHANGED <<call, inFlight, asking, issued, access, refresh>> /\ stored' \in {stored, 0}
    BY <1>3 DEF SubmitLogin, SubmitRegister, SignInRefused, SignedIn, Logout, ClearAuth, tokens
  <2>2. {user', signing'} \subseteq [Tabs -> BOOLEAN]
    BY <1>1, <1>3 DEF SubmitLogin, SubmitRegister, SignInRefused, SignedIn, Logout
  <2> QED
    BY <1>1, <2>1, <2>2, TabStep
<1>4. ASSUME NEW t \in Tabs, Login(t) \/ Register(t) PROVE SessionInv'
  <2>1. UNCHANGED <<call, inFlight, asking>> /\ Issue /\ stored' = issued'
    BY <1>4 DEF Login, Register, SignedIn, SetAuth
  <2>2. {user', signing'} \subseteq [Tabs -> BOOLEAN]
    BY <1>1, <1>4 DEF Login, Register, SignedIn
  <2> QED
    BY <1>0, <2>1, <2>2, IssueFacts, TabStep
<1>5. ASSUME NEW t \in Tabs, Load(t) PROVE SessionInv'
  BY <1>5, LoadStep
<1>6. ASSUME NEW c \in Calls, NEW t \in Tabs, Start(c, t) \/ FetchBlob(c, t) PROVE SessionInv'
  <2>1. PICK pc \in {"sent", "last"} :
          call' = [call EXCEPT ![c] = [pc |-> pc, tab |-> t, token |-> stored, on |-> None]]
    BY <1>6 DEF Start, FetchBlob, Sent
  <2>2. \E to \in CallStates : /\ call' = [call EXCEPT ![c] = to]
                              /\ to.pc \notin {"waiting", "renewed"} /\ to.token = stored
    <3> DEFINE to == [pc |-> pc, tab |-> t, token |-> stored, on |-> None]
    <3>1. to \in CallStates
      BY <1>0, TokenFacts DEF CallStates
    <3>2. to.pc \notin {"waiting", "renewed"} /\ to.token = stored
      OBVIOUS
    <3> HIDE DEF to
    <3>3. call' = [call EXCEPT ![c] = to]
      BY <2>1 DEF to
    <3> QED
      BY <3>1, <3>2, <3>3
  <2>3. call[c].pc = "idle" /\ UNCHANGED <<stored, issued, access, refresh, tab, inFlight, asking>>
    BY <1>6 DEF Start, FetchBlob, tokens
  <2> QED
    BY <1>1, <2>1, <2>2, <2>3, LoneCallStep
<1>7. ASSUME NEW c \in Calls, call[c].pc # "waiting", call' = Ended(c), stored' \in {stored, 0},
             UNCHANGED <<issued, access, refresh, tab, inFlight, asking>>
      PROVE  SessionInv'
  <2>1. call' = [call EXCEPT ![c] = Idle] /\ Idle.token \in 0..issued
    BY <1>0, <1>7, TokenFacts, IdleFacts DEF Ended
  <2> QED
    BY <1>7, <2>1, IdleFacts, LoneCallStep
<1>8. ASSUME NEW c \in Calls, Answered(c) \/ RejectedAgain(c) \/ GiveUp(c) PROVE SessionInv'
  BY <1>7, <1>8 DEF Answered, RejectedAgain, GiveUp, ForceLoginRedirect, ClearAuth, tokens
<1>9. ASSUME NEW c \in Calls, Rejected(c) PROVE SessionInv'
  <2>1. CASE RefreshToken(c) # 0
    BY <1>9, <2>1, RejectedStep
  <2>2. CASE RefreshToken(c) = 0
    BY <1>7, <1>9, <2>2 DEF Rejected, ForceLoginRedirect, ClearAuth
  <2> QED
    BY <2>1, <2>2
<1>10. ASSUME NEW c \in Calls, Retry(c) PROVE SessionInv'
  <2>1. /\ call[c].pc = "renewed" /\ UNCHANGED <<stored, issued, access, refresh, tab, inFlight, asking>>
        /\ call' = [call EXCEPT ![c] = [call[c] EXCEPT !.pc = "last", !.token = stored, !.on = None]]
    BY <1>10 DEF Retry, RetryToken, tokens
  <2>2. call[c] \in CallStates
    BY <1>0, <2>1, IdleFacts DEF TypeOK
  <2>3. \A r \in CallStates :
          LET s == [r EXCEPT !.pc = "last", !.token = stored, !.on = None]
          IN  s \in CallStates /\ s.pc = "last" /\ s.token = stored
    BY <1>0, TokenFacts DEF CallStates
  <2>4. \E to \in CallStates : /\ call' = [call EXCEPT ![c] = to]
                              /\ to.pc \notin {"waiting", "renewed"} /\ to.token = stored
    BY <2>1, <2>2, <2>3
  <2> QED
    BY <1>1, <2>1, <2>4, LoneCallStep
<1>11. ASSUME NEW c \in Calls, RefreshSucceeds(c) \/ RefreshFails(c) PROVE SessionInv'
  <2>1. asking[c] # 0
    BY <1>0, <1>11, TokenFacts DEF RefreshSucceeds, RefreshFails
  <2> QED
    BY <1>11, <2>1, SettleStep DEF RefreshSucceeds, RefreshFails, SetAuth
<1>12. CASE UNCHANGED vars
  <2>1. UNCHANGED <<call, inFlight, asking, stored, issued, access, refresh, user, signing>>
    BY <1>12 DEF vars, tokens, tab
  <2> QED
    BY <1>1, <2>1, TabStep
<1> QED
  BY <1>2, <1>3, <1>4, <1>5, <1>6, <1>8, <1>9, <1>10, <1>11, <1>12 DEF Next

LEMMA SessionInvariant == Spec => []SessionInv
  BY InvInit, InvStep, PTL DEF Spec

\* Types hold, and a call that waits does so on the refresh of its tab, for any number
\* of tabs and calls (api-client.ts:34-59).
THEOREM DashboardTypeCorrect == Spec => []TypeOK
<1>1. SessionInv => TypeOK
  BY DEF SessionInv
<1> QED
  BY <1>1, SessionInvariant, PTL

\* A tab asks for one token pair at a time (api-client.ts:32-59).
THEOREM OneRefreshPerTab == Spec => []SingleFlight
<1>1. SessionInv => SingleFlight
  BY DEF SessionInv, FlightKnown, SingleFlight
<1> QED
  BY <1>1, SessionInvariant, PTL

\* A call goes out again with another token than the one refused, or none
\* (api-client.ts:80-99).
THEOREM RetriesAdvance == Spec => RetryUsesAnotherToken
<1> DEFINE Advances == \A c \in Calls : call[c].pc = "renewed" /\ call'[c].pc = "last" =>
                         call'[c].token = 0 \/ call'[c].token # call[c].token
<1>1. SessionInv /\ Next => Advances
  <2> SUFFICES ASSUME SessionInv, Next, NEW c \in Calls, call[c].pc = "renewed", call'[c].pc = "last"
               PROVE  call'[c].token = 0 \/ call'[c].token # call[c].token
    OBVIOUS
  <2>0. TypeOK /\ TokensAdvance
    BY DEF SessionInv
  <2>1. ASSUME NEW d \in Calls, call' = [call EXCEPT ![d] = call'[d]], call[d].pc # "renewed"
        PROVE  FALSE
    BY <2>0, <2>1 DEF TypeOK
  <2>2. ASSUME NEW d \in Calls, call'[d] = Idle, call' = [call EXCEPT ![d] = Idle] PROVE FALSE
    BY <2>0, <2>2, IdleFacts DEF TypeOK
  <2>3. call' # call
    OBVIOUS
  <2>4. PICK d \in Calls :
          \/ (\E t \in Tabs : Start(d, t) \/ FetchBlob(d, t) \/ Load(t))
          \/ Answered(d) \/ Rejected(d) \/ RejectedAgain(d)
          \/ RefreshSucceeds(d) \/ RefreshFails(d) \/ Retry(d) \/ GiveUp(d)
    BY <2>3 DEF Next, AccessExpires, RefreshExpires, SubmitLogin, SubmitRegister, Login, Register,
       SignInRefused, SignedIn, Logout
  <2>5. ASSUME NEW t \in Tabs, Load(t) PROVE FALSE
    BY <2>5, IdleFacts DEF Load
  <2>6. ASSUME NEW result \in {"renewed", "refused"}, Settle(d, result) PROVE FALSE
    <3>1. call'[c] = [call[c] EXCEPT !.pc = result] \/ call'[c] = call[c]
      BY <2>6 DEF Settle
    <3>2. [call[c] EXCEPT !.pc = result].pc = result
      BY <2>0, CallFacts
    <3> QED
      BY <3>1, <3>2
  <2>7. ASSUME Retry(d) PROVE call'[c].token = 0 \/ call'[c].token # call[c].token
    <3>1. d = c
      BY <2>0, <2>7 DEF Retry, TypeOK
    <3>2. call[c] = [pc |-> call[c].pc, tab |-> call[c].tab, token |-> call[c].token, on |-> call[c].on]
      BY <2>0, CallFacts
    <3>3. call'[c] = [call[c] EXCEPT !.pc = "last", !.token = stored, !.on = None]
      BY <2>0, <2>7, <3>1 DEF Retry, RetryToken, TypeOK
    <3>4. call'[c].token = stored
      BY <3>2, <3>3
    <3>5. stored = 0 \/ (call[c].token < stored /\ call[c].token \in Nat)
      BY <2>0, TokenNat DEF TokensAdvance
    <3> QED
      BY <3>4, <3>5, <2>0, TokenFacts
  <2>8. ASSUME NEW t \in Tabs, Start(d, t) \/ FetchBlob(d, t) PROVE FALSE
    <3>1. call[d].pc = "idle" /\ \E e : call' = [call EXCEPT ![d] = e]
      BY <2>8 DEF Start, FetchBlob, Sent
    <3> QED
      BY <2>0, <3>1 DEF TypeOK
  <2>9. ASSUME Answered(d) \/ RejectedAgain(d) \/ GiveUp(d) PROVE FALSE
    <3>1. call' = [call EXCEPT ![d] = Idle]
      BY <2>9 DEF Answered, RejectedAgain, GiveUp, Ended
    <3> QED
      BY <2>0, <3>1, IdleFacts DEF TypeOK
  <2>10. ASSUME Rejected(d) PROVE FALSE
    <3>1. call[d].pc = "sent" /\ \E e : call' = [call EXCEPT ![d] = e]
      BY <2>10 DEF Rejected, Ended
    <3> QED
      BY <2>0, <3>1 DEF TypeOK
  <2> QED
    BY <2>4, <2>5, <2>6, <2>7, <2>8, <2>9, <2>10 DEF RefreshSucceeds, RefreshFails
<1>2. UNCHANGED vars => Advances
  BY DEF vars
<1>3. SessionInv /\ [Next]_vars => [Advances]_vars
  BY <1>1
<1> HIDE DEF Advances
<1>4. Spec => [][Advances]_vars
  BY <1>3, SessionInvariant, PTL DEF Spec
<1> QED
  BY <1>4, PTL DEF RetryUsesAnotherToken, Advances

\* A browser that is signed out, with no refresh under way, stays so until somebody
\* signs in (api-client.ts:34-36, auth-storage.ts:34-38).
THEOREM SignOutHolds == Spec => SignedOutStaysOut
<1> DEFINE Stays == SignedOut => SignedOut' \/ \E t \in Tabs : signing[t]
<1>1. SessionInv /\ Next => Stays
  <2> SUFFICES ASSUME SessionInv, Next, stored = 0, \A t \in Tabs : inFlight[t] = None,
                      \A t \in Tabs : ~signing[t]
               PROVE  stored' = 0 /\ \A t \in Tabs : inFlight'[t] = None
    BY DEF SignedOut
  <2>0. TypeOK /\ FlightKnown
    BY DEF SessionInv
  <2>1. \A c \in Calls : asking[c] = 0
    <3>1. SUFFICES ASSUME NEW c \in Calls, asking[c] # 0 PROVE FALSE
      OBVIOUS
    <3>2. call[c].pc = "waiting" /\ inFlight[call[c].tab] = c
      BY <2>0, <3>1 DEF FlightKnown
    <3>3. call[c].tab \in Tabs
      BY <2>0, <3>2, CallFacts
    <3> QED
      BY <3>2, <3>3, SessionAssumption
  <2>2. ASSUME NEW c \in Calls PROVE ~RefreshSucceeds(c) /\ ~RefreshFails(c)
    BY <2>0, <2>1, TokenFacts DEF RefreshSucceeds, RefreshFails
  <2>3. ASSUME NEW t \in Tabs PROVE ~Login(t) /\ ~Register(t)
    BY DEF Login, Register, SignedIn
  <2>4. stored' = 0 /\ (inFlight' = inFlight \/ \E t \in Tabs : inFlight' = [inFlight EXCEPT ![t] = None])
    BY <2>2, <2>3 DEF Next, AccessExpires, RefreshExpires, SubmitLogin, SubmitRegister,
       SignInRefused, SignedIn, Logout, ClearAuth, Load, Start, FetchBlob, Answered, Rejected,
       RefreshToken, ForceLoginRedirect, RejectedAgain, Retry, GiveUp, tokens
  <2> QED
    BY <2>0, <2>4 DEF TypeOK
<1>2. UNCHANGED vars => Stays
  BY DEF vars, SignedOut, tokens
<1>3. SessionInv /\ [Next]_vars => [Stays]_vars
  BY <1>1
<1> HIDE DEF Stays
<1>4. Spec => [][Stays]_vars
  BY <1>3, SessionInvariant, PTL DEF Spec
<1> QED
  BY <1>4, PTL DEF SignedOutStaysOut, Stays
=============================================================================
