----------------------------- MODULE ConsoleProofs -----------------------------
(***************************************************************************)
(* Theorems about ConsolePages and the API behind it, for any number of      *)
(* requests, names and loads and any limits.                                 *)
(***************************************************************************)
EXTENDS ConsolePages, FiniteSetTheorems, TLAPS

\* A request that needs a name has one; a reset names a token that was mailed.
Addressed ==
  \A c \in Calls :
    /\ call[c].kind \notin Unnamed \cup {"none", "tenant"} => call[c].name \in Names
    /\ At(c, "inserted") => call[c].name \in Names
    /\ call[c].kind = "reset" => call[c].name \in made

TypeInv == TypeOK /\ Addressed

\* The handler of c goes on or answers, and has committed at most one statement.
Moves(c) ==
  /\ call[c].pc \notin Ended \cup {"idle"}
  /\ version' \in {version, version + 1}
  /\ \E pc \in {"expiring", "passed", "counted", "unused", "inserted", "found", "stored",
                "granted", "updated", "written"} \cup Ended, at \in {call[c].at, version'} : Goes(c, pc, at)

\* It is the same request as before, wherever it stands.
Follows(c) ==
  /\ call'[c].kind = call[c].kind /\ call'[c].name = call[c].name
  /\ call'[c].from = call[c].from /\ call'[c].pc # "idle"

\* What a page does to requests: it lets go of its own, whose handlers go on.
LetsGo ==
  /\ call' \in [Calls -> Requests \cup {Idle}]
  /\ \A c \in Calls :
       \/ call'[c] = call[c]
       \/ Sent(c) /\ call[c].pc \in Ended /\ call'[c] = Idle
       \/ /\ Sent(c) /\ call[c].pc \notin Ended
          /\ call'[c].kind = call[c].kind /\ call'[c].name = call[c].name
          /\ call'[c].pc = call[c].pc /\ call'[c].from = "else" /\ call'[c].at = 0
  /\ UNCHANGED <<tables, reset, limiter, history>>

\* A step of the page, and not of the API.
PageStep ==
  \/ Open \/ Leave
  \/ \E l \in Loads : ServeLoad(l) \/ LoadAnswered(l) \/ LoadFails(l) \/ Refresh(l)
  \/ \E value \in Names : Pick(value)
  \/ \E c \in Calls : Settled(c) \/ Disconnected(c)

\* A request arrives that has the name its kind needs.
Arrives(c, kind, name, from) == Fits(kind, name) /\ Receive(c, kind, name, from)

\* What the page keeps has its type.
ViewOK ==
  /\ left \in BOOLEAN /\ loading \in BOOLEAN /\ failed \in BOOLEAN
  /\ own \in 0..version /\ seen \in 0..version
  /\ shown.at \in (0..version) \cup {None} /\ shown.row \in Names \cup {None}
  /\ load \in [Loads -> Reloads] /\ \A l \in Loads : load[l].at \in 0..version
  /\ busy \subseteq {"form", "save"} /\ edit \in Names \cup {None}

-----------------------------------------------------------------------------
\* An await of a handler is a move of its call, whatever the handler.
LEMMA HandleMoves ==
  ASSUME TypeOK, NEW c \in Calls, Handle(c)
  PROVE  Moves(c)
<1>1. version \in Nat
  BY DEF TypeOK
<1>2. CASE Incr(c)
  <2>1. version' = version /\ At(c, "arrived")
    BY <1>2 DEF Incr, tables
  <2>2. \E pc \in {"expiring", "refused", "passed"} : To(c, pc)
    BY <1>2 DEF Incr
  <2> QED
    BY <2>1, <2>2 DEF Moves, To, Ended, At
<1>3. CASE Expire(c)
  BY <1>3 DEF Expire, Moves, To, Ended, At, tables
<1>4. CASE ReadTenant(c) \/ FindSlug(c)
  BY <1>4 DEF ReadTenant, FindSlug, Is, Moves, To, Ended, At, tables
<1>5. CASE InsertLocation(c)
  BY <1>5 DEF InsertLocation, Is, Writes, Moves, To, Ended, At
<1>6. CASE FindEmail(c)
  BY <1>6 DEF FindEmail, Is, Moves, To, Ended, At, tables
<1>7. CASE InsertTenantWithOwner(c) \/ InsertTenant(c) \/ InsertOwner(c)
  BY <1>7 DEF InsertTenantWithOwner, InsertTenant, InsertOwner, Refuse, Is, Writes, Moves, To,
              Ended, At
<1>8. CASE FindUser(c) \/ SetToken(c) \/ SendMail(c)
  BY <1>8 DEF FindUser, SetToken, SendMail, Is, Writes, Moves, To, Ended, At, tables
<1>9. CASE GetToken(c) \/ DeleteToken(c)
  BY <1>9 DEF GetToken, DeleteToken, Is, Moves, To, Ended, At, tables
<1>10. CASE UpdatePassword(c)
  BY <1>10 DEF UpdatePassword, Is, Writes, Moves, Ended, At
<1>11. CASE Change(c) \/ WriteRow(c) \/ WriteAudit(c) \/ UpdateTenant(c)
  BY <1>11 DEF Change, WriteRow, WriteAudit, UpdateTenant, Is, Writes, Moves, To, Ended, At, tables
<1>12. CASE StartPayment(c) \/ Reject(c)
  BY <1>12 DEF StartPayment, Reject, Is, Moves, To, Ended, At, tables
<1> QED
  BY <1>2, <1>3, <1>4, <1>5, <1>6, <1>7, <1>8, <1>9, <1>10, <1>11, <1>12 DEF Handle

\* After a move every call has its type, and each is what it was but for where it stands.
LEMMA MovesCalls ==
  ASSUME TypeOK, NEW c \in Calls, Moves(c)
  PROVE  /\ call' \in [Calls -> Requests \cup {Idle}]
         /\ version' \in Nat /\ version <= version'
         /\ \A d \in Calls : call'[d].at \in 0..version'
         /\ \A d \in Calls : d # c => call'[d] = call[d]
         /\ call'[c] = Idle \/ Follows(c)
         /\ call[c].pc # "idle"
<1> PICK pc \in {"expiring", "passed", "counted", "unused", "inserted", "found", "stored",
                 "granted", "updated", "written"} \cup Ended, at \in {call[c].at, version'} : Goes(c, pc, at)
  BY DEF Moves
<1>1. version \in Nat /\ \A d \in Calls : call[d].at \in 0..version
  BY DEF TypeOK
<1>2. version' \in Nat /\ version <= version'
  BY <1>1 DEF Moves
<1>3. at \in Nat /\ at \in 0..version' /\ call[c].pc # "idle"
  BY <1>1, <1>2 DEF Moves
<1>4. /\ call' \in [Calls -> Requests \cup {Idle}]
      /\ \A d \in Calls : d # c => call'[d] = call[d]
      /\ \/ call'[c] = Idle
         \/ /\ call'[c].pc = pc /\ call'[c].at = at /\ call'[c].kind = call[c].kind
            /\ call'[c].name = call[c].name /\ call'[c].from = call[c].from
  <2>1. call \in [Calls -> Requests \cup {Idle}] /\ call[c] \in Requests
    BY <1>3 DEF TypeOK, Idle
  <2>2. [call[c] EXCEPT !.pc = pc, !.at = at] \in Requests
    BY <1>3, <2>1 DEF Requests, Ended
  <2> QED
    BY <2>1, <2>2 DEF Goes, Requests
<1>5. Idle.at = 0 /\ pc # "idle"
  BY DEF Idle, Ended
<1>6. \A d \in Calls : call'[d].at \in 0..version'
  BY <1>1, <1>2, <1>3, <1>4, <1>5
<1>7. call'[c] = Idle \/ Follows(c)
  BY <1>4, <1>5 DEF Follows
<1> QED
  BY <1>2, <1>3, <1>4, <1>6, <1>7

\* An await of a handler keeps the types.
LEMMA HandleType ==
  ASSUME TypeInv, NEW c \in Calls, Handle(c), UNCHANGED <<page, view>>
  PROVE  TypeInv'
<1>0. TypeOK /\ Moves(c)
  BY HandleMoves DEF TypeInv
<1>1. /\ call' \in [Calls -> Requests \cup {Idle}]
      /\ version' \in Nat /\ version <= version'
      /\ \A d \in Calls : call'[d].at \in 0..version'
      /\ \A d \in Calls : d # c => call'[d] = call[d]
      /\ call'[c] = Idle \/ Follows(c)
  BY <1>0, MovesCalls
<1>2. \A d \in Calls :
        /\ call[d].kind \notin Unnamed \cup {"none", "tenant"} => call[d].name \in Names
        /\ call[d].pc = "inserted" => call[d].name \in Names
        /\ call[d].kind = "reset" => call[d].name \in made
  BY DEF TypeInv, Addressed, At
<1>3. /\ {location, owner, made} \subseteq SUBSET Names /\ row \in Names
      /\ token \subseteq made /\ spent \in [Names -> 0..2] /\ counter \in 0..(RateLimit + 1)
      /\ RateLimit \in Nat /\ most \in Nat /\ LimitOf \in [Names -> Nat]
  BY <1>0, ConsoleAssumption DEF TypeOK
<1>4. /\ {location', owner', made'} \subseteq SUBSET Names /\ row' \in Names
      /\ token' \subseteq made' /\ spent' \in [Names -> 0..2] /\ made \subseteq made'
      /\ counter' \in 0..(RateLimit + 1) /\ lapses' \in {lapses, TRUE}
      /\ raced' \in BOOLEAN /\ stranded' = stranded /\ most' \in Nat
  <2>0. raced \in BOOLEAN
    BY <1>0 DEF TypeOK
  <2>1. CASE Incr(c)
    BY <1>3, <2>0, <2>1 DEF Incr, Incremented, tables, reset, history
  <2>2. CASE Expire(c)
    BY <1>3, <2>0, <2>2 DEF Expire, tables, reset, history
  <2>3. CASE ReadTenant(c) \/ GetToken(c)
    BY <1>3, <2>0, <2>3 DEF ReadTenant, GetToken, tables, reset, limiter, Overlaps
  <2>4. CASE FindSlug(c) \/ FindEmail(c) \/ FindUser(c) \/ SendMail(c) \/ WriteAudit(c)
               \/ StartPayment(c) \/ Reject(c)
    BY <1>3, <2>0, <2>4 DEF FindSlug, FindEmail, FindUser, SendMail, WriteAudit, StartPayment,
       Reject, tables, reset, limiter, history
  <2>5. CASE InsertLocation(c)
    BY <1>2, <1>3, <2>0, <2>5 DEF InsertLocation, Is, Unnamed, reset, limiter, history
  <2>6. CASE InsertTenantWithOwner(c)
    BY <1>2, <1>3, <2>0, <2>6 DEF InsertTenantWithOwner, Refuse, Is, Unnamed, reset, limiter,
       history
  <2>7. CASE InsertTenant(c)
    BY <1>3, <2>0, <2>7 DEF InsertTenant, reset, limiter, history
  <2>8. CASE InsertOwner(c)
    BY <1>2, <1>3, <2>0, <2>8 DEF InsertOwner, Refuse, Is, At, reset, limiter, history
  <2>9. CASE SetToken(c)
    BY <1>3, <2>0, <2>9 DEF SetToken, Key, limiter, history
  <2>10. CASE UpdatePassword(c)
    <3>1. spent' = [spent EXCEPT ![call[c].name] = IF @ = 2 THEN 2 ELSE @ + 1]
      BY <2>10 DEF UpdatePassword
    <3>2. \A n \in Names : spent[n] \in 0..2 /\ (IF spent[n] = 2 THEN 2 ELSE spent[n] + 1) \in 0..2
      BY <1>3
    <3>3. spent' \in [Names -> 0..2]
      BY <1>3, <3>1, <3>2
    <3> QED
      BY <1>3, <2>0, <2>10, <3>3 DEF UpdatePassword, limiter, history
  <2>11. CASE DeleteToken(c)
    BY <1>3, <2>0, <2>11 DEF DeleteToken, Without, tables, limiter, history
  <2>12. CASE Change(c) \/ WriteRow(c)
    BY <1>3, <2>0, <2>12 DEF Change, WriteRow, reset, limiter, history
  <2>13. CASE UpdateTenant(c)
    <3>1. call[c].name \in Names
      BY <1>2, <2>13 DEF UpdateTenant, Is, Unnamed
    <3> QED
      BY <1>3, <2>0, <2>13, <3>1 DEF UpdateTenant, NewRow, reset, limiter
  <2> QED
    BY <2>1, <2>2, <2>3, <2>4, <2>5, <2>6, <2>7, <2>8, <2>9, <2>10, <2>11, <2>12, <2>13 DEF Handle
<1>5. call'[c].pc = "inserted" => call[c].name \in Names
  <2>1. CASE InsertTenant(c)
    <3>1. SUFFICES ASSUME call[c].name \notin Names PROVE call'[c].pc # "inserted"
      OBVIOUS
    <3>2. call[c] \in Requests /\ call[c].name = None
      BY <1>0, <2>1, <3>1 DEF TypeOK, Requests, Idle, InsertTenant, Is, At
    <3>3. Goes(c, "ok", version')
      BY <2>1, <3>2 DEF InsertTenant, Writes
    <3>4. call'[c] = Idle \/ call'[c].pc = "ok"
      BY <1>0, <3>2, <3>3 DEF Goes, TypeOK, Requests
    <3> QED
      BY <3>4 DEF Idle
  <2>2. CASE ~InsertTenant(c)
    <3>1. \E pc \in {"expiring", "passed", "counted", "unused", "found", "stored", "granted",
              "updated", "written"} \cup Ended, at \in {call[c].at, version'} : Goes(c, pc, at)
      BY <2>2 DEF Handle, Incr, Expire, ReadTenant, FindSlug, InsertLocation, FindEmail,
         InsertTenantWithOwner, InsertOwner, FindUser, SetToken, SendMail, GetToken,
         UpdatePassword, DeleteToken, Change, WriteRow, WriteAudit, UpdateTenant, StartPayment,
         Reject, Refuse, Writes, To, Ended
    <3> PICK pc \in {"expiring", "passed", "counted", "unused", "found", "stored", "granted",
                "updated", "written"} \cup Ended, at \in {call[c].at, version'} : Goes(c, pc, at)
      BY <3>1
    <3>2. call[c] \in Requests
      BY <1>0 DEF TypeOK, Moves, Idle
    <3>3. call'[c] = Idle \/ call'[c].pc = pc
      BY <1>0, <3>2 DEF Goes, TypeOK, Requests
    <3> QED
      BY <3>3 DEF Idle, Ended
  <2> QED
    BY <2>1, <2>2
<1>6. Addressed'
  BY <1>1, <1>2, <1>4, <1>5 DEF Addressed, At, Idle, Follows
<1>7. TypeOK'
  <2>1. {lapses, raced, left, loading, failed}' \subseteq BOOLEAN
    BY <1>0, <1>4 DEF TypeOK, view
  <2>2. /\ {own, seen}' \subseteq 0..version'
        /\ (shown.at)' \in (0..version') \cup {None}
        /\ \A l \in Loads : load'[l].at \in 0..version'
    BY <1>0, <1>1 DEF TypeOK, view
  <2> QED
    BY <1>0, <1>1, <1>4, <2>1, <2>2 DEF TypeOK, view
<1> QED
  BY <1>6, <1>7 DEF TypeInv

\* Time, lapsing keys and the death of the process keep the types.
LEMMA TimeType ==
  ASSUME TypeInv, ApiTime, UNCHANGED <<page, view>>
  PROVE  TypeInv'
<1>1. CASE WindowEnds \/ \E t \in Names : TokenLapses(t)
  <2>1. UNCHANGED <<call, location, owner, row, version, made, spent, most, raced, stranded>>
    BY <1>1 DEF WindowEnds, TokenLapses, tables, reset, history
  <2>2. token' \subseteq token /\ counter' \in {counter, 0} /\ lapses' \in {lapses, FALSE}
    BY <1>1 DEF WindowEnds, TokenLapses, reset, limiter
  <2>3. Addressed'
    BY <2>1 DEF TypeInv, Addressed, At
  <2>4. counter' \in 0..(RateLimit + 1) /\ lapses' \in BOOLEAN /\ token' \subseteq made'
    <3>1. lapses' \in BOOLEAN
      BY <2>2 DEF TypeInv, TypeOK
    <3>2. counter' \in 0..(RateLimit + 1)
      BY <2>2, ConsoleAssumption DEF TypeInv, TypeOK
    <3> QED
      BY <2>1, <2>2, <3>1, <3>2 DEF TypeInv, TypeOK
  <2> QED
    BY <2>1, <2>3, <2>4 DEF TypeInv, TypeOK, view
<1>2. CASE Crash
  <2>1. \A d \in Calls : call[d] \in Requests =>
          [call[d] EXCEPT !.pc = "cut"] \in Requests
    BY DEF Requests, Ended
  <2>2. /\ call' \in [Calls -> Requests \cup {Idle}]
        /\ \A d \in Calls : call'[d].at \in {call[d].at, 0}
        /\ \A d \in Calls : call'[d] \in {Idle, call[d]}
              \/ /\ call'[d].kind = call[d].kind /\ call'[d].name = call[d].name
                 /\ call'[d].pc = "cut"
    BY <1>2, <2>1 DEF Crash, TypeInv, TypeOK, Idle, Requests
  <2>3. Addressed'
    BY <1>2, <2>2 DEF Crash, TypeInv, Addressed, At, Idle, reset
  <2>4. stranded' \subseteq {"expiring", "updated", "resent"}
    BY <1>2 DEF Crash, TypeInv, TypeOK
  <2> QED
    BY <1>2, <2>2, <2>3, <2>4 DEF Crash, TypeInv, TypeOK, tables, reset, limiter, view
<1>3. ASSUME NEW c \in Calls, ReplyLost(c) PROVE TypeInv'
  <2>1. counter' \in 0..(RateLimit + 1)
    BY <1>3, ConsoleAssumption DEF ReplyLost, Incremented, TypeInv, TypeOK
  <2>2. stranded' \subseteq {"expiring", "updated", "resent"}
    BY <1>3 DEF ReplyLost, TypeInv, TypeOK
  <2>3. UNCHANGED <<call, location, owner, row, version, token, made, spent, lapses, most, raced>>
    BY <1>3 DEF ReplyLost, tables, reset
  <2>4. Addressed'
    BY <2>3 DEF TypeInv, Addressed, At
  <2> QED
    BY <2>1, <2>2, <2>3, <2>4 DEF TypeInv, TypeOK, view
<1> QED
  BY <1>1, <1>2, <1>3 DEF ApiTime

\* A change of plan keeps them too, and remembers the best plan.
LEMMA PlanType ==
  ASSUME TypeInv, NEW value \in Names, ChangePlan(value), UNCHANGED <<page, view>>
  PROVE  TypeInv'
<1>1. row' \in Names /\ most' \in Nat
  BY ConsoleAssumption DEF ChangePlan, NewRow, TypeInv, TypeOK
<1>2. UNCHANGED <<call, location, owner, version, token, made, spent, counter, lapses, raced, stranded>>
  BY DEF ChangePlan, reset, limiter
<1>3. Addressed'
  BY <1>2 DEF TypeInv, Addressed, At
<1> QED
  BY <1>1, <1>2, <1>3 DEF TypeInv, TypeOK, view

\* A request that arrives has its type, if it has the name its kind needs.
LEMMA ReceiveCalls ==
  ASSUME TypeInv, NEW c \in Calls, NEW kind \in Kinds, NEW name \in Names \cup {None},
         NEW from \in {"page", "else"}, Arrives(c, kind, name, from)
  PROVE  /\ call' \in [Calls -> Requests \cup {Idle}]
         /\ \A d \in Calls : d # c => call'[d] = call[d]
         /\ call[c].pc = "idle"
         /\ call'[c].kind = kind /\ call'[c].name = name /\ call'[c].from = from
         /\ call'[c].at = 0 /\ call'[c].pc \in {"arrived", "passed"}
         /\ Addressed'
<1>1. /\ call' \in [Calls -> Requests \cup {Idle}]
      /\ \A d \in Calls : d # c => call'[d] = call[d]
      /\ call[c].pc = "idle"
      /\ call'[c].kind = kind /\ call'[c].name = name /\ call'[c].from = from
      /\ call'[c].at = 0 /\ call'[c].pc \in {"arrived", "passed"}
  BY DEF TypeInv, TypeOK, Arrives, Receive, Requests, At
<1>2. Addressed'
  BY <1>1 DEF TypeInv, Addressed, At, Fits, Arrives, Receive, reset
<1> QED
  BY <1>1, <1>2

\* What a page lets go of keeps its type.
LEMMA LetsGoType ==
  ASSUME TypeInv, LetsGo
  PROVE  /\ \A c \in Calls : call'[c].at \in 0..version
         /\ Addressed'
<1>1. \A c \in Calls :
        \/ call'[c] = call[c] \/ call'[c] = Idle
        \/ /\ call'[c].kind = call[c].kind /\ call'[c].name = call[c].name
           /\ call'[c].pc = call[c].pc /\ call'[c].at = 0
  BY DEF LetsGo
<1>2. version \in Nat /\ \A c \in Calls : call[c].at \in 0..version
  BY DEF TypeInv, TypeOK
<1>3. Idle.kind = "none" /\ Idle.pc = "idle" /\ Idle.at = 0
  BY DEF Idle
<1>4. \A c \in Calls : call'[c].at \in 0..version
  BY <1>1, <1>2, <1>3
<1>5. Addressed'
  BY <1>1, <1>3 DEF TypeInv, Addressed, At, LetsGo, reset
<1> QED
  BY <1>4, <1>5

\* Whom a page has given up goes on as somebody else's request, unless it had ended.
LEMMA GivenUpType ==
  ASSUME TypeOK, NEW c \in Calls, Sent(c)
  PROVE  /\ GivenUp(c) \in Requests \cup {Idle}
         /\ call[c].pc \in Ended => GivenUp(c) = Idle
         /\ call[c].pc \notin Ended =>
              /\ GivenUp(c).kind = call[c].kind /\ GivenUp(c).name = call[c].name
              /\ GivenUp(c).pc = call[c].pc /\ GivenUp(c).from = "else" /\ GivenUp(c).at = 0
<1>1. call[c] \in Requests
  BY DEF TypeOK, Sent, Idle
<1>2. CASE call[c].pc \in Ended
  BY <1>2 DEF GivenUp
<1>3. CASE call[c].pc \notin Ended
  BY <1>1, <1>3 DEF GivenUp, Requests
<1> QED
  BY <1>2, <1>3

\* The ways a page has of letting go.
LEMMA UnmountedLetsGo == TypeOK /\ Unmounted => LetsGo
  BY GivenUpType DEF Unmounted, LetsGo, TypeOK

LEMMA AnsweredLetsGo ==
  ASSUME TypeOK, NEW c \in Calls, Answered(c), call[c].pc \in Ended
  PROVE  LetsGo
  BY DEF Answered, LetsGo, TypeOK

LEMMA DisconnectedLetsGo ==
  ASSUME TypeOK, NEW c \in Calls, Disconnected(c)
  PROVE  LetsGo
  BY GivenUpType DEF Disconnected, LetsGo, TypeOK

\* Whatever the page does, it lets go of requests at most.
LEMMA PageLetsGo == TypeOK /\ PageStep => LetsGo
<1> SUFFICES ASSUME TypeOK, PageStep PROVE LetsGo
  OBVIOUS
<1>1. CASE UNCHANGED apiVars
  BY <1>1 DEF apiVars, LetsGo, TypeOK
<1>2. CASE Unmounted
  BY <1>2, UnmountedLetsGo
<1>3. ASSUME NEW c \in Calls, Acknowledged(c) \/ Done(c) \/ Refused(c) PROVE LetsGo
  BY <1>3, AnsweredLetsGo DEF Acknowledged, Done, Refused, At, Ended
<1>4. ASSUME NEW c \in Calls, Disconnected(c) PROVE LetsGo
  BY <1>4, DisconnectedLetsGo
<1>5. ASSUME NEW l \in Loads, ServeLoad(l) \/ LoadAnswered(l) \/ LoadFails(l) \/ Refresh(l)
      PROVE  UNCHANGED apiVars
  BY <1>5 DEF ServeLoad, LoadAnswered, LoadFails, LoadEnds, Refresh
<1>6. ASSUME NEW value \in Names, Pick(value) PROVE UNCHANGED apiVars
  BY <1>6 DEF Pick
<1>7. CASE Open
  BY <1>1, <1>7 DEF Open
<1>8. ASSUME NEW c \in Calls, Away(c) PROVE LetsGo
  BY <1>2, <1>8 DEF Away
<1> QED
  BY <1>1, <1>2, <1>3, <1>4, <1>5, <1>6, <1>7, <1>8 DEF PageStep, Leave, Settled

\* What can be sent from a page, or meanwhile by others.
LEMMA SendableKinds ==
  ASSUME page \in Pages
  PROVE  Sendable[page] \subseteq Kinds /\ Elsewhere[page] \subseteq Kinds
<1>1. page \in Forms \cup Lists
  BY PagesAssumption
<1>2. Sendable[page] \subseteq Kinds
  BY <1>1 DEF Sendable, Kinds, Guarded, Forms, Lists
<1>3. Elsewhere[page] \subseteq Kinds
  BY <1>1 DEF Elsewhere, Kinds, Guarded, Forms, Lists
<1> QED
  BY <1>2, <1>3

\* Every step is one of the API, of time, of the page, or a request that arrives.
LEMMA StepKinds ==
  ASSUME TypeOK, Next
  PROVE  \/ PageStep
         \/ \E c \in Calls : Handle(c) /\ UNCHANGED <<page, view>>
         \/ ApiTime /\ UNCHANGED <<page, view>>
         \/ \E value \in Names : ChangePlan(value) /\ UNCHANGED <<page, view>>
         \/ \E c \in Calls, kind \in Kinds, name \in Names \cup {None} :
              \/ Submit(c, kind, name) /\ kind \in Sendable[page]
              \/ SubmitElsewhere(c, kind, name)
<1>1. Sendable[page] \subseteq Kinds /\ Elsewhere[page] \subseteq Kinds
  BY SendableKinds DEF TypeOK
<1>2. ASSUME NEW c \in Calls, NEW name \in Names \cup {None}, NEW kind \in Sendable[page],
             Submit(c, kind, name)
      PROVE  \E k \in Kinds : Submit(c, k, name) /\ k \in Sendable[page]
  BY <1>1, <1>2
<1>3. ASSUME NEW c \in Calls, NEW name \in Names \cup {None}, NEW kind \in Elsewhere[page],
             SubmitElsewhere(c, kind, name)
      PROVE  \E k \in Kinds : SubmitElsewhere(c, k, name)
  BY <1>1, <1>3
<1> QED
  BY <1>2, <1>3 DEF Next, PageStep, Progress, PlanChanges

\* The initial state has its types.
LEMMA TypeInit == Init => TypeInv
<1> SUFFICES ASSUME Init PROVE TypeInv
  OBVIOUS
<1>1. Some \in Names
  BY ConsoleAssumption DEF Some
<1>2. /\ call \in [Calls -> Requests \cup {Idle}] /\ \A c \in Calls : call[c] = Idle
      /\ Idle.at = 0 /\ Idle.kind = "none" /\ Idle.pc = "idle"
  BY DEF Init, Idle
<1>3. load \in [Loads -> Reloads] /\ \A l \in Loads : load[l].at = 0
  BY DEF Init, Reloads, Asked, NoLoad
<1>4. {location, owner, made} \subseteq SUBSET Names /\ row \in Names
  BY <1>1 DEF Init
<1>5. spent \in [Names -> 0..2] /\ counter \in 0..(RateLimit + 1) /\ version = 0 /\ most \in Nat
  BY <1>1, ConsoleAssumption DEF Init
<1>8. {lapses, raced, left, failed} \subseteq BOOLEAN
  BY DEF Init
<1>7. loading \in BOOLEAN
  BY DEF Init
<1>6. shown.at = None /\ shown.row = None
  BY DEF Init, Nothing
<1> QED
  BY <1>2, <1>3, <1>4, <1>5, <1>6, <1>7, <1>8 DEF Init, TypeInv, TypeOK, Addressed, At

\* The first load and the loads a page adds have their types.
LEMMA LoadTypes ==
  /\ NoLoad \in Reloads /\ NoLoad.at = 0
  /\ \A frees \in SUBSET {"form", "save"} : Asked(frees) \in Reloads /\ Asked(frees).at = 0
  /\ \A kind : Flag(kind) \in SUBSET {"form", "save"}
  BY DEF NoLoad, Asked, Reloads, Flag

\* A reload has its type and leaves the other loads as they are.
LEMMA ReloadType ==
  ASSUME TypeOK, NEW l \in Loads, NEW frees \in SUBSET {"form", "save"}, Reload(l, frees)
  PROVE  /\ load' = [load EXCEPT ![l] = Asked(frees)]
         /\ load' \in [Loads -> Reloads] /\ \A k \in Loads : load'[k].at \in 0..version
         /\ loading' = TRUE /\ failed' = FALSE
<1>1. load \in [Loads -> Reloads] /\ version \in Nat /\ \A k \in Loads : load[k].at \in 0..version
  BY DEF TypeOK
<1>2. load' = [load EXCEPT ![l] = Asked(frees)] /\ loading' = TRUE /\ failed' = FALSE
  BY DEF Reload
<1> QED
  BY <1>1, <1>2, LoadTypes

\* A page that is opened or left is blank.
LEMMA BlankView ==
  ASSUME TypeOK, Blank, version' = version, left' \in BOOLEAN, loading' \in BOOLEAN,
         load' \in [Loads -> Reloads], \A l \in Loads : load'[l].at \in 0..version
  PROVE  ViewOK'
<1>1. version \in Nat
  BY DEF TypeOK
<1>2. shown'.at = None /\ shown'.row = None
  BY DEF Blank, Nothing
<1>3. own' \in 0..version' /\ seen' \in 0..version'
  BY <1>1 DEF Blank
<1>5. failed' \in BOOLEAN
  BY DEF Blank
<1>4. busy' \subseteq {"form", "save"} /\ edit' \in Names \cup {None}
  BY DEF Blank
<1> QED
  BY <1>1, <1>2, <1>3, <1>4, <1>5 DEF ViewOK

LEMMA UnmountedView ==
  ASSUME TypeOK, Unmounted
  PROVE  ViewOK'
<1>1. version' = version /\ Blank /\ left' \in BOOLEAN /\ loading' \in BOOLEAN
  BY DEF Unmounted, tables
<1>2. load' = [l \in Loads |-> NoLoad] /\ version \in Nat
  BY DEF Unmounted, TypeOK
<1>3. load' \in [Loads -> Reloads] /\ \A l \in Loads : load'[l].at \in 0..version
  BY <1>2, LoadTypes
<1> QED
  BY <1>1, <1>3, BlankView

LEMMA OpenView ==
  ASSUME TypeOK, Open
  PROVE  ViewOK'
<1>1. version' = version /\ Blank /\ left' \in BOOLEAN
  BY DEF Open, apiVars, tables
<1>4. loading' \in BOOLEAN
  BY DEF Open
<1>2. /\ load' = [load EXCEPT ![FirstLoad] = IF page \in Lists THEN Asked({}) ELSE NoLoad]
      /\ version \in Nat /\ load \in [Loads -> Reloads]
      /\ \A l \in Loads : load[l].at \in 0..version
  BY DEF Open, TypeOK
<1>3. load' \in [Loads -> Reloads] /\ \A l \in Loads : load'[l].at \in 0..version
  <2>1. PICK first \in {Asked({}), NoLoad} : load' = [load EXCEPT ![FirstLoad] = first]
    BY <1>2
  <2>2. first \in Reloads /\ first.at \in 0..version
    BY <1>2, LoadTypes
  <2>3. load' \in [Loads -> Reloads]
    BY <1>2, <2>1, <2>2
  <2>4. \A l \in Loads : load'[l] = first \/ load'[l] = load[l]
    BY <1>2, <2>1
  <2> QED
    BY <1>2, <2>2, <2>3, <2>4
<1> QED
  BY <1>1, <1>3, <1>4, BlankView

\* Whatever the page does, what it keeps has its type.
LEMMA PageView == TypeOK /\ PageStep => ViewOK'
<1> SUFFICES ASSUME TypeOK, PageStep PROVE ViewOK'
  OBVIOUS
<1>0. version' = version /\ version \in Nat /\ ViewOK
  BY PageLetsGo DEF LetsGo, tables, TypeOK, ViewOK
<1>1. ASSUME NEW l \in Loads, ServeLoad(l) PROVE ViewOK'
  <2>1. load[l] \in Reloads /\ row \in Names
    BY DEF TypeOK
  <2>2. PICK what \in {row, None} :
          load' = [load EXCEPT ![l] = [load[l] EXCEPT !.pc = "served", !.at = version, !.row = what]]
    BY <1>1 DEF ServeLoad
  <2>3. [load[l] EXCEPT !.pc = "served", !.at = version, !.row = what] \in Reloads
    BY <1>0, <2>1 DEF Reloads
  <2>4. [load[l] EXCEPT !.pc = "served", !.at = version, !.row = what].at = version
    BY <2>1 DEF Reloads
  <2>5. load' \in [Loads -> Reloads] /\ \A k \in Loads : load'[k].at \in 0..version
    BY <1>0, <2>2, <2>3, <2>4 DEF ViewOK
  <2> QED
    BY <1>0, <1>1, <2>5 DEF ServeLoad, ViewOK
<1>2. ASSUME NEW l \in Loads, LoadAnswered(l) \/ LoadFails(l) PROVE ViewOK'
  <2>1. LoadEnds(l)
    BY <1>2 DEF LoadAnswered, LoadFails
  <2>2. load' \in [Loads -> Reloads] /\ \A k \in Loads : load'[k].at \in 0..version
    BY <1>0, <2>1, LoadTypes DEF LoadEnds, ViewOK
  <2>3. load[l].at \in 0..version /\ load[l].row \in Names \cup {None}
    BY <1>0 DEF ViewOK, Reloads
  <2>4. /\ seen' \in 0..version /\ failed' \in BOOLEAN
        /\ shown'.at \in (0..version) \cup {None} /\ shown'.row \in Names \cup {None}
    <3>1. CASE LoadAnswered(l)
      BY <1>0, <2>3, <3>1 DEF LoadAnswered, ViewOK
    <3>2. CASE LoadFails(l)
      BY <1>0, <3>2 DEF LoadFails, ViewOK
    <3> QED
      BY <1>2, <3>1, <3>2
  <2> QED
    BY <1>0, <2>1, <2>2, <2>4 DEF LoadEnds, ViewOK
<1>3. ASSUME NEW l \in Loads, Refresh(l) PROVE ViewOK'
  <2>1. Reload(l, {}) /\ UNCHANGED <<left, shown, seen, busy, edit, own>>
    BY <1>3 DEF Refresh
  <2>2. /\ load' \in [Loads -> Reloads] /\ \A k \in Loads : load'[k].at \in 0..version
        /\ loading' = TRUE /\ failed' = FALSE
    BY <2>1, ReloadType
  <2> QED
    BY <1>0, <2>1, <2>2 DEF ViewOK
<1>4. ASSUME NEW value \in Names, Pick(value) PROVE ViewOK'
  BY <1>0, <1>4 DEF Pick, ViewOK
<1>5. ASSUME NEW c \in Calls, Acknowledged(c) PROVE ViewOK'
  <2>1. PICK l \in Loads : Reload(l, Flag(call[c].kind))
    BY <1>5 DEF Acknowledged
  <2>2. Flag(call[c].kind) \in SUBSET {"form", "save"}
    BY LoadTypes
  <2>3. /\ load' \in [Loads -> Reloads] /\ \A k \in Loads : load'[k].at \in 0..version
        /\ loading' = TRUE /\ failed' = FALSE
    BY <2>1, <2>2, ReloadType
  <2>4. call[c].at \in 0..version
    BY DEF TypeOK
  <2> QED
    BY <1>0, <1>5, <2>3, <2>4 DEF Acknowledged, ViewOK
<1>6. ASSUME NEW c \in Calls, Done(c) PROVE ViewOK'
  <2>1. call[c].at \in 0..version
    BY DEF TypeOK
  <2> QED
    BY <1>0, <1>6, <2>1 DEF Done, ViewOK
<1>7. ASSUME NEW c \in Calls, Refused(c) \/ Disconnected(c) PROVE ViewOK'
  BY <1>0, <1>7 DEF Refused, Disconnected, ViewOK
<1> QED
  BY <1>1, <1>2, <1>3, <1>4, <1>5, <1>6, <1>7, OpenView, UnmountedView
     DEF PageStep, Leave, Settled, Away

\* Every step keeps the types.
LEMMA TypeStep == TypeInv /\ [Next]_vars => TypeInv'
<1> SUFFICES ASSUME TypeInv, [Next]_vars PROVE TypeInv'
  OBVIOUS
<1>0. TypeOK
  BY DEF TypeInv
<1>1. CASE PageStep
  <2>1. ViewOK' /\ LetsGo
    BY <1>0, <1>1, PageView, PageLetsGo
  <2>2. (\A c \in Calls : call'[c].at \in 0..version) /\ Addressed'
    BY <2>1, LetsGoType
  <2>3. page' = page
    BY <1>1 DEF PageStep, Open, Leave, Unmounted, ServeLoad, LoadAnswered, LoadFails, LoadEnds,
       Refresh, Pick, Settled, Acknowledged, Done, Away, Refused, Answered, Disconnected
  <2>4. UNCHANGED <<location, owner, row, version, token, made, spent, counter, lapses, most, raced,
                  stranded>>
    BY <2>1 DEF LetsGo, tables, reset, limiter, history
  <2> QED
    BY <1>0, <2>1, <2>2, <2>3, <2>4 DEF TypeInv, TypeOK, ViewOK, LetsGo
<1>2. ASSUME NEW c \in Calls, Handle(c), UNCHANGED <<page, view>> PROVE TypeInv'
  BY <1>2, HandleType
<1>3. CASE ApiTime /\ UNCHANGED <<page, view>>
  BY <1>3, TimeType
<1>4. ASSUME NEW c \in Calls, NEW kind \in Kinds, NEW name \in Names \cup {None},
             Submit(c, kind, name) \/ SubmitElsewhere(c, kind, name)
      PROVE  TypeInv'
  <2>1. PICK from \in {"page", "else"} : Arrives(c, kind, name, from)
    BY <1>4 DEF Submit, SubmitElsewhere, Arrives
  <2>2. call' \in [Calls -> Requests \cup {Idle}] /\ Addressed'
    BY <2>1, ReceiveCalls
  <2>3. \A d \in Calls : call'[d].at \in {call[d].at, 0}
    BY <2>1, ReceiveCalls
  <2>4. UNCHANGED <<location, owner, row, version, token, made, spent, counter, lapses, most, raced,
                  stranded>>
    BY <2>1 DEF Arrives, Receive, tables, reset, limiter, history
  <2>5. busy' \subseteq {"form", "save"} /\ UNCHANGED <<page, left, loading, failed, shown, seen, load, edit, own>>
    BY <1>0, <1>4, LoadTypes DEF Submit, SubmitElsewhere, view, TypeOK
  <2> QED
    BY <1>0, <2>2, <2>3, <2>4, <2>5 DEF TypeInv, TypeOK
<1>5. CASE UNCHANGED vars
  BY <1>5 DEF vars, apiVars, view, tables, reset, limiter, history, TypeInv, TypeOK, Addressed, At
<1> QED
  BY <1>0, <1>1, <1>2, <1>3, <1>4, <1>5, PlanType, StepKinds

\* Types are kept on every page and by every handler, for any number of requests and
\* loads (useAsyncData.ts:6-8).
THEOREM ConsoleTypeCorrect == Spec => []TypeOK
<1>1. Spec => []TypeInv
  BY TypeInit, TypeStep, PTL DEF Spec
<1>2. TypeInv => TypeOK
  BY DEF TypeInv
<1> QED
  BY <1>1, <1>2, PTL

-----------------------------------------------------------------------------
(* Buttons: what disables one is a single request of the page, or the reload *)
(* that follows it.                                                          *)

Holds(c, f) == Sent(c) /\ f \in Flag(call[c].kind)

Buttons ==
  \A f \in {"form", "save"} :
    /\ \A c \in Calls : Holds(c, f) => f \in busy
    /\ \A l \in Loads : f \in load[l].frees => f \in busy
    /\ \A c, d \in Calls : Holds(c, f) /\ Holds(d, f) => c = d
    /\ \A c \in Calls, l \in Loads : ~(Holds(c, f) /\ f \in load[l].frees)
    /\ \A l, k \in Loads : f \in load[l].frees /\ f \in load[k].frees => l = k
    /\ left => f \notin busy

\* Nobody holds a button afresh.
NoNewHolder == \A c \in Calls, f \in {"form", "save"} : Holds(c, f)' => Holds(c, f)

LEMMA IdleHoldsNothing == Idle.pc = "idle" /\ Idle.from = "none"
  BY DEF Idle

LEMMA LetsGoHolders == LetsGo => NoNewHolder /\ \A c \in Calls : Sent(c)' => call'[c] = call[c]
<1> SUFFICES ASSUME LetsGo
             PROVE  NoNewHolder /\ \A c \in Calls : Sent(c)' => call'[c] = call[c]
  OBVIOUS
<1>1. \A c \in Calls : call'[c] = call[c] \/ call'[c] = Idle \/ call'[c].from = "else"
  BY DEF LetsGo
<1>2. \A c \in Calls : Sent(c)' => call'[c] = call[c]
  BY <1>1, IdleHoldsNothing DEF Sent
<1>3. NoNewHolder
  BY <1>2 DEF NoNewHolder, Holds, Sent
<1> QED
  BY <1>2, <1>3

LEMMA HandleHolders ==
  ASSUME TypeOK, NEW c \in Calls, Handle(c)
  PROVE  NoNewHolder
<1>1. /\ \A d \in Calls : d # c => call'[d] = call[d]
      /\ call'[c] = Idle \/ Follows(c)
      /\ call[c].pc # "idle"
  BY HandleMoves, MovesCalls
<1> QED
  BY <1>1, IdleHoldsNothing DEF NoNewHolder, Holds, Sent, Follows

LEMMA TimeHolders ==
  ASSUME TypeOK, ApiTime
  PROVE  NoNewHolder
<1>1. CASE WindowEnds \/ \E t \in Names : TokenLapses(t)
  BY <1>1 DEF WindowEnds, TokenLapses, NoNewHolder, Holds, Sent
<1>2. CASE Crash
  <2>1. \A d \in Calls : [call[d] EXCEPT !.pc = "cut"].kind = call[d].kind
                       /\ [call[d] EXCEPT !.pc = "cut"].from = call[d].from
    BY DEF TypeOK, Requests, Idle
  <2>2. \A d \in Calls : \/ call'[d] = call[d] \/ call'[d] = Idle
                        \/ /\ call[d].pc # "idle" /\ call'[d].kind = call[d].kind
                           /\ call'[d].from = call[d].from
    BY <1>2, <2>1 DEF Crash
  <2> QED
    BY <2>2, IdleHoldsNothing DEF NoNewHolder, Holds, Sent
<1>3. ASSUME NEW c \in Calls, ReplyLost(c) PROVE NoNewHolder
  BY <1>3 DEF ReplyLost, NoNewHolder, Holds, Sent
<1> QED
  BY <1>1, <1>2, <1>3 DEF ApiTime

\* Buttons stay as they are while nobody holds one afresh and the page keeps its state.
LEMMA ButtonsKept ==
  ASSUME Buttons, NoNewHolder, UNCHANGED <<busy, left>>,
         \A l \in Loads : load'[l].frees \in {load[l].frees, {}}
  PROVE  Buttons'
<1>1. \A l \in Loads, f \in {"form", "save"} : f \in load'[l].frees => f \in load[l].frees
  OBVIOUS
<1> QED
  BY <1>1 DEF Buttons, NoNewHolder

\* A request that is over frees its button, or leaves that to the reload it starts.
LEMMA ButtonsFreed ==
  ASSUME TypeOK, Buttons, LetsGo, NEW c \in Calls, Sent(c), ~Sent(c)', UNCHANGED left,
         \/ busy' = busy \ Flag(call[c].kind) /\ UNCHANGED load
         \/ /\ busy' = busy
            /\ \E l \in Loads : load' = [load EXCEPT ![l] = Asked(Flag(call[c].kind))]
  PROVE  Buttons'
<1>1. NoNewHolder /\ \A f \in {"form", "save"} : ~Holds(c, f)'
  BY LetsGoHolders DEF Holds
<1>2. CASE busy' = busy \ Flag(call[c].kind) /\ UNCHANGED load
  <2>1. \A f \in {"form", "save"}, d \in Calls : Holds(d, f)' => Holds(d, f) /\ d # c
    BY <1>1 DEF NoNewHolder
  <2>2. \A f \in {"form", "save"} : f \in Flag(call[c].kind) => Holds(c, f)
    BY DEF Holds
  <2> QED
    BY <1>2, <2>1, <2>2 DEF Buttons
<1>3. ASSUME NEW l \in Loads, busy' = busy, load' = [load EXCEPT ![l] = Asked(Flag(call[c].kind))]
      PROVE  Buttons'
  <2>1. \A f \in {"form", "save"}, d \in Calls : Holds(d, f)' => Holds(d, f) /\ d # c
    BY <1>1 DEF NoNewHolder
  <2>2. \A f \in {"form", "save"} : f \in Flag(call[c].kind) => Holds(c, f)
    BY DEF Holds
  <2>3. \A k \in Loads : load'[k].frees = IF k = l THEN Flag(call[c].kind) ELSE load[k].frees
    BY <1>3 DEF Asked, TypeOK
  <2> QED
    BY <1>3, <2>1, <2>2, <2>3 DEF Buttons
<1> QED
  BY <1>2, <1>3

\* A step of the page leaves each button with one holder at most.
LEMMA ButtonsPage == TypeOK /\ Buttons /\ PageStep => Buttons'
<1> SUFFICES ASSUME TypeOK, Buttons, PageStep PROVE Buttons'
  OBVIOUS
<1>0. LetsGo /\ NoNewHolder /\ load \in [Loads -> Reloads]
  BY PageLetsGo, LetsGoHolders DEF TypeOK
<1>1. ASSUME NEW l \in Loads, ServeLoad(l) PROVE Buttons'
  <2>1. load[l] \in Reloads
    BY <1>0
  <2>2. \A what : [load[l] EXCEPT !.pc = "served", !.at = version, !.row = what].frees = load[l].frees
    BY <2>1 DEF Reloads
  <2>3. \A k \in Loads : load'[k].frees = load[k].frees
    BY <1>0, <1>1, <2>2 DEF ServeLoad
  <2> QED
    BY <1>0, <1>1, <2>3, ButtonsKept DEF ServeLoad
<1>2. ASSUME NEW l \in Loads, LoadEnds(l) PROVE Buttons'
  <2>1. \A k \in Loads : load'[k].frees = IF k = l THEN {} ELSE load[k].frees
    BY <1>0, <1>2 DEF LoadEnds, NoLoad
  <2>2. busy' = busy \ load[l].frees /\ left' = left
    BY <1>2 DEF LoadEnds
  <2> QED
    BY <1>0, <2>1, <2>2 DEF Buttons, NoNewHolder
<1>3. ASSUME NEW l \in Loads, Refresh(l) PROVE Buttons'
  <2>1. \A k \in Loads : load'[k].frees \in {load[k].frees, {}}
    BY <1>0, <1>3 DEF Refresh, Reload, Asked
  <2> QED
    BY <1>0, <1>3, <2>1, ButtonsKept DEF Refresh
<1>4. ASSUME NEW value \in Names, Pick(value) PROVE Buttons'
  BY <1>0, <1>4, ButtonsKept DEF Pick
<1>5. ASSUME NEW c \in Calls, Answered(c), UNCHANGED left,
             \/ busy' = busy \ Flag(call[c].kind) /\ UNCHANGED load
             \/ /\ busy' = busy
                /\ \E l \in Loads : load' = [load EXCEPT ![l] = Asked(Flag(call[c].kind))]
      PROVE  Buttons'
  <2>1. Sent(c) /\ ~Sent(c)'
    BY <1>5, IdleHoldsNothing DEF Answered, Sent, TypeOK
  <2> QED
    BY <1>0, <1>5, <2>1, ButtonsFreed
<1>6. ASSUME NEW c \in Calls, Acknowledged(c) PROVE Buttons'
  BY <1>5, <1>6 DEF Acknowledged, Reload
<1>7. ASSUME NEW c \in Calls, Done(c) PROVE Buttons'
  BY <1>5, <1>7 DEF Done
<1>8. ASSUME NEW c \in Calls, Refused(c) PROVE Buttons'
  BY <1>5, <1>8 DEF Refused, Freed
<1>9. ASSUME NEW c \in Calls, Disconnected(c) PROVE Buttons'
  <2>1. Sent(c) /\ call'[c] = GivenUp(c)
    BY <1>9 DEF Disconnected, TypeOK
  <2>2. ~Sent(c)'
    BY <2>1, GivenUpType, IdleHoldsNothing DEF Sent
  <2> QED
    BY <1>0, <1>9, <2>1, <2>2, ButtonsFreed DEF Disconnected, Freed
<1>10. CASE Unmounted
  <2>1. \A c \in Calls : call'[c] = IF Sent(c) THEN GivenUp(c) ELSE call[c]
    BY <1>10 DEF Unmounted
  <2>2. \A c \in Calls : ~Sent(c)'
    BY <2>1, GivenUpType, IdleHoldsNothing DEF Sent
  <2>3. (\A l \in Loads : load'[l].frees = {}) /\ busy' = {}
    BY <1>10 DEF Unmounted, NoLoad, Blank
  <2> QED
    BY <2>2, <2>3 DEF Buttons, Holds
<1>11. CASE Open
  <2>1. \A f \in {"form", "save"} : f \notin busy
    BY <1>11 DEF Open, Buttons
  <2>2. /\ \A f \in {"form", "save"}, l \in Loads : f \notin load[l].frees
        /\ \A f \in {"form", "save"}, c \in Calls : ~Holds(c, f)'
    BY <1>0, <2>1 DEF Buttons, NoNewHolder
  <2>3. \A l \in Loads : load'[l].frees \in {load[l].frees, {}}
    BY <1>0, <1>11 DEF Open, Asked, NoLoad
  <2>4. busy' = {}
    BY <1>11 DEF Open, Blank
  <2> QED
    BY <2>2, <2>3, <2>4 DEF Buttons
<1> QED
  BY <1>1, <1>2, <1>3, <1>4, <1>6, <1>7, <1>8, <1>9, <1>10, <1>11
     DEF PageStep, Leave, Settled, Away, LoadAnswered, LoadFails

\* A request that the page sends takes buttons nobody holds.
LEMMA ButtonsSubmit ==
  ASSUME TypeInv, Buttons, NEW c \in Calls, NEW kind \in Kinds, NEW name \in Names \cup {None},
         Submit(c, kind, name) \/ SubmitElsewhere(c, kind, name)
  PROVE  Buttons'
<1>1. CASE Submit(c, kind, name)
  <2>1. Arrives(c, kind, name, "page")
    BY <1>1 DEF Submit, Arrives
  <2>2. \A d \in Calls : d # c => call'[d] = call[d]
    BY <2>1, ReceiveCalls
  <2>3. call[c].pc = "idle" /\ call'[c].kind = kind
    BY <2>1, ReceiveCalls
  <2>4. busy' = busy \cup Flag(kind) /\ Flag(kind) \cap busy = {} /\ UNCHANGED <<left, load>> /\ ~left
    BY <1>1 DEF Submit, Usable, Drawn
  <2>5. \A f \in {"form", "save"} :
          /\ \A d \in Calls : d # c /\ Holds(d, f)' => Holds(d, f)
          /\ Holds(c, f)' => f \in Flag(kind)
    BY <2>2, <2>3 DEF Holds, Sent
  <2> QED
    BY <2>4, <2>5 DEF Buttons
<1>2. CASE SubmitElsewhere(c, kind, name)
  <2>1. Arrives(c, kind, name, "else")
    BY <1>2 DEF SubmitElsewhere, Arrives
  <2>2. /\ \A d \in Calls : d # c => call'[d] = call[d]
        /\ call'[c].from = "else"
    BY <2>1, ReceiveCalls
  <2>3. NoNewHolder
    BY <2>2 DEF NoNewHolder, Holds, Sent
  <2> QED
    BY <1>2, <2>3, ButtonsKept DEF SubmitElsewhere, view
<1> QED
  BY <1>1, <1>2

\* In every state each button has one holder at most.
LEMMA ButtonsStep == TypeInv /\ Buttons /\ [Next]_vars => Buttons'
<1> SUFFICES ASSUME TypeInv, Buttons, [Next]_vars PROVE Buttons'
  OBVIOUS
<1>0. TypeOK
  BY DEF TypeInv
<1>1. CASE PageStep
  BY <1>0, <1>1, ButtonsPage
<1>2. ASSUME NEW c \in Calls, Handle(c), UNCHANGED <<page, view>> PROVE Buttons'
  BY <1>0, <1>2, HandleHolders, ButtonsKept DEF view
<1>3. CASE ApiTime /\ UNCHANGED <<page, view>>
  BY <1>0, <1>3, TimeHolders, ButtonsKept DEF view
<1>4. ASSUME NEW c \in Calls, NEW kind \in Kinds, NEW name \in Names \cup {None},
             Submit(c, kind, name) \/ SubmitElsewhere(c, kind, name)
      PROVE  Buttons'
  BY <1>4, ButtonsSubmit
<1>5. CASE UNCHANGED vars
  <2>1. NoNewHolder
    BY <1>5 DEF vars, apiVars, NoNewHolder, Holds, Sent
  <2> QED
    BY <1>5, <2>1, ButtonsKept DEF vars, view
<1>6. ASSUME NEW value \in Names, ChangePlan(value), UNCHANGED <<page, view>> PROVE Buttons'
  <2>1. NoNewHolder
    BY <1>6 DEF ChangePlan, NoNewHolder, Holds, Sent
  <2> QED
    BY <1>6, <2>1, ButtonsKept DEF view
<1> QED
  BY <1>0, <1>1, <1>2, <1>3, <1>4, <1>5, <1>6, StepKinds

LEMMA ButtonsInit == Init => Buttons
<1> SUFFICES ASSUME Init PROVE Buttons
  OBVIOUS
<1>1. \A c \in Calls : ~Sent(c)
  BY IdleHoldsNothing DEF Init, Sent
<1>2. \A l \in Loads : load[l].frees = {}
  BY DEF Init, Asked, NoLoad
<1> QED
  BY <1>1, <1>2 DEF Buttons, Holds, Init

\* Types and buttons hold together, on which what follows rests.
Grounds == TypeInv /\ Buttons

LEMMA GroundsStep == Grounds /\ [Next]_vars => Grounds'
  BY TypeStep, ButtonsStep DEF Grounds

LEMMA GroundsInit == Init => Grounds
  BY TypeInit, ButtonsInit DEF Grounds

-----------------------------------------------------------------------------
(* What becomes of the requests in the API in a step that is not an await of  *)
(* a handler.                                                               *)

\* No handler goes on: requests arrive, are let go of, or stay where they stand.
Quiet ==
  /\ UNCHANGED <<location, row, version, made, spent, most, raced, stranded>>
  /\ token' \subseteq token
  /\ counter' = 0 \/ UNCHANGED limiter
  /\ \A c \in Calls :
       \/ call[c].pc = "idle" /\ call'[c].pc \in {"arrived", "passed"} /\ call'[c].at = 0
       \/ call[c].pc \in Ended /\ call'[c] = Idle
       \/ /\ call'[c].kind = call[c].kind /\ call'[c].name = call[c].name
          /\ call'[c].pc = call[c].pc /\ call'[c].at \in {call[c].at, 0}

\* The process dies and its handlers end where they stand.
Dies ==
  /\ UNCHANGED <<location, row, version, token, made, spent, counter, lapses, most, raced>>
  /\ stranded' = stranded \cup ({call[c].pc : c \in Calls} \cap {"expiring", "updated"})
  /\ \A c \in Calls :
       \/ call'[c] = call[c] /\ call[c].pc \in Ended \cup {"idle"}
       \/ call'[c] = Idle
       \/ call'[c].kind = call[c].kind /\ call'[c].pc = "cut" /\ call'[c].at = call[c].at

\* Requests stay where they stand: the plan changes, or the client of Redis repeats itself.
Aside ==
  /\ UNCHANGED <<call, location, version, token, made, spent, raced>>
  /\ \/ UNCHANGED limiter /\ UNCHANGED stranded /\ \E value \in Names : NewRow(value)
     \/ \E c \in Calls : ReplyLost(c) /\ UNCHANGED <<row, most>>

LEMMA CrashDies == TypeOK /\ Crash => Dies
<1> SUFFICES ASSUME TypeOK, Crash PROVE Dies
  OBVIOUS
<1>1. \A c \in Calls : /\ [call[c] EXCEPT !.pc = "cut"].kind = call[c].kind
                       /\ [call[c] EXCEPT !.pc = "cut"].pc = "cut"
                       /\ [call[c] EXCEPT !.pc = "cut"].at = call[c].at
  BY DEF TypeOK, Requests, Idle
<1> QED
  BY <1>1 DEF Crash, Dies, tables, reset, limiter

LEMMA LetsGoQuiet == LetsGo => Quiet
<1> SUFFICES ASSUME LetsGo PROVE Quiet
  OBVIOUS
<1>1. \A c \in Calls :
        \/ call[c].pc \in Ended /\ call'[c] = Idle
        \/ /\ call'[c].kind = call[c].kind /\ call'[c].name = call[c].name
           /\ call'[c].pc = call[c].pc /\ call'[c].at \in {call[c].at, 0}
  BY DEF LetsGo
<1> QED
  BY <1>1 DEF LetsGo, Quiet, tables, reset, limiter, history

LEMMA ArrivesQuiet ==
  ASSUME TypeInv, NEW c \in Calls, NEW kind \in Kinds, NEW name \in Names \cup {None},
         Submit(c, kind, name) \/ SubmitElsewhere(c, kind, name)
  PROVE  Quiet
<1>1. PICK from \in {"page", "else"} : Arrives(c, kind, name, from)
  BY DEF Submit, SubmitElsewhere, Arrives
<1>2. /\ \A d \in Calls : d # c => call'[d] = call[d]
      /\ call[c].pc = "idle" /\ call'[c].at = 0 /\ call'[c].pc \in {"arrived", "passed"}
  BY <1>1, ReceiveCalls
<1> QED
  BY <1>1, <1>2 DEF Arrives, Receive, Quiet, tables, reset, limiter, history

\* Every step is an await of a handler, the death of the process, quiet or aside.
LEMMA ApiSteps ==
  ASSUME TypeInv, [Next]_vars
  PROVE  Quiet \/ Dies \/ Aside \/ \E c \in Calls : Handle(c)
<1>0. TypeOK
  BY DEF TypeInv
<1>1. CASE PageStep
  BY <1>0, <1>1, PageLetsGo, LetsGoQuiet
<1>2. CASE ApiTime
  <2>1. CASE WindowEnds \/ \E t \in Names : TokenLapses(t)
    BY <2>1 DEF WindowEnds, TokenLapses, Quiet, tables, reset, limiter, history
  <2>2. ASSUME NEW c \in Calls, ReplyLost(c) PROVE Aside
    BY <2>2 DEF ReplyLost, Aside, tables, reset
  <2> QED
    BY <1>0, <1>2, <2>1, <2>2, CrashDies DEF ApiTime
<1>3. CASE UNCHANGED vars
  BY <1>3 DEF vars, apiVars, tables, reset, limiter, history, Quiet
<1>4. ASSUME NEW value \in Names, ChangePlan(value) PROVE Aside
  BY <1>4 DEF ChangePlan, Aside, reset
<1> QED
  BY <1>0, <1>1, <1>2, <1>3, <1>4, ArrivesQuiet, StepKinds

-----------------------------------------------------------------------------
(* The rate limit.                                                          *)

\* Only INCR and EXPIRE touch the key, and only EXPIRE leaves "expiring".
LEMMA LimitLapsesStep == TypeInv /\ LimitLapses /\ [Next]_vars => LimitLapses'
<1> SUFFICES ASSUME TypeInv, LimitLapses, [Next]_vars, counter' # 0
             PROVE  LimitLapses'
  BY DEF LimitLapses
<1>0. TypeOK
  BY DEF TypeInv
<1>1. CASE Quiet
  <2>1. UNCHANGED <<counter, lapses, stranded>>
    BY <1>1 DEF Quiet, limiter
  <2>2. \A c \in Calls : At(c, "expiring") => At(c, "expiring")'
    BY <1>1 DEF Quiet, At, Ended
  <2> QED
    BY <2>1, <2>2 DEF LimitLapses
<1>2. CASE Dies
  BY <1>2 DEF Dies, LimitLapses, At
<1>3. ASSUME NEW c \in Calls, Handle(c)
      PROVE  LimitLapses'
  <2>1. \A d \in Calls : d # c => call'[d] = call[d]
    BY <1>0, <1>3, HandleMoves, MovesCalls
  <2>2. CASE Expire(c)
    BY <2>2 DEF Expire, LimitLapses
  <2>3. CASE Incr(c)
    <3>1. call[c].pc = "arrived" /\ call[c] \in Requests /\ UNCHANGED <<lapses, stranded>>
      BY <1>0, <2>3 DEF Incr, At, TypeOK, Idle, history
    <3>2. CASE counter' = 1
      <4>1. Goes(c, "expiring", call[c].at)
        BY <2>3, <3>2 DEF Incr, First, To
      <4>2. call'[c].pc = "expiring"
        BY <1>0, <3>1, <4>1 DEF Goes, Ended, TypeOK, Requests
      <4> QED
        BY <4>2 DEF At, LimitLapses
    <3>3. CASE counter' # 1
      <4>1. counter # 0
        BY <1>0, <2>3, <3>3, ConsoleAssumption DEF Incr, Incremented, TypeOK
      <4> QED
        BY <2>1, <3>1, <4>1 DEF LimitLapses, At
    <3> QED
      BY <3>2, <3>3
  <2>4. CASE ~Incr(c) /\ ~Expire(c)
    <3>1. UNCHANGED <<counter, lapses, stranded>> /\ call[c].pc # "expiring"
      BY <1>3, <2>4 DEF Handle, ReadTenant, FindSlug, InsertLocation, FindEmail,
         InsertTenantWithOwner, InsertTenant, InsertOwner, FindUser, SetToken, SendMail, GetToken,
         UpdatePassword, DeleteToken, Change, WriteRow, WriteAudit, UpdateTenant, StartPayment,
         Reject, Is, At, limiter, history
    <3> QED
      BY <2>1, <3>1 DEF LimitLapses, At
  <2> QED
    BY <2>2, <2>3, <2>4
<1>4. CASE Aside
  <2>1. CASE UNCHANGED limiter /\ UNCHANGED stranded
    BY <1>4, <2>1 DEF Aside, LimitLapses, At, limiter
  <2>2. ASSUME NEW c \in Calls, ReplyLost(c) PROVE LimitLapses'
    <3>1. UNCHANGED <<call, lapses>> /\ stranded \subseteq stranded'
      BY <2>2 DEF ReplyLost
    <3>2. CASE counter' = 1
      BY <2>2, <3>2 DEF ReplyLost, First, LimitLapses
    <3>3. CASE counter' # 1
      <4>1. counter # 0
        BY <1>0, <2>2, <3>3, ConsoleAssumption DEF ReplyLost, Incremented, TypeOK
      <4> QED
        BY <3>1, <4>1 DEF LimitLapses, At
    <3> QED
      BY <3>2, <3>3
  <2> QED
    BY <1>4, <2>1, <2>2 DEF Aside
<1> QED
  BY <1>1, <1>2, <1>3, <1>4, ApiSteps

\* No interleaving of requests leaves a key without a time to live, for any number of requests
\* and any limit; only a death of the process between the two commands does, or the INCR
\* that made the key sent again (redis.service.ts:10-14, 68-74).
THEOREM RateLimitLapses == Spec => []LimitLapses
<1>1. Init => LimitLapses
  BY DEF Init, LimitLapses
<1>2. Spec => [](TypeInv /\ LimitLapses)
  BY <1>1, TypeInit, TypeStep, LimitLapsesStep, PTL DEF Spec
<1> QED
  BY <1>2, PTL

-----------------------------------------------------------------------------
(* Refusals.                                                                *)

\* A request that has written is about to say so, or writes more than once.
Truthful ==
  \A c \in Calls :
    call[c].at # 0 => call[c].pc \in {"ok", "updated", "cut"} \/ call[c].kind \in Piecemeal

LEMMA TruthfulHandler ==
  ASSUME TypeOK, Truthful, NEW c \in Calls, Handle(c)
  PROVE  \/ call'[c].at = 0
         \/ call'[c].pc \in {"ok", "updated", "cut"}
         \/ call'[c].kind \in Piecemeal
<1>1. Moves(c) /\ call[c] \in Requests /\ call \in [Calls -> Requests \cup {Idle}]
  BY HandleMoves DEF TypeOK, Moves, Idle
<1>2. call'[c] = Idle \/ Follows(c)
  BY <1>1, MovesCalls
<1>3. CASE call[c].kind \in Piecemeal
  BY <1>2, <1>3 DEF Follows, Idle
<1>4. CASE call[c].kind \notin Piecemeal /\ \E pc \in {"ok", "updated"} : Goes(c, pc, version')
  <2>1. PICK pc \in {"ok", "updated"} : Goes(c, pc, version')
    BY <1>4
  <2>2. call'[c] = Idle \/ call'[c].pc = pc
    BY <1>1, <2>1 DEF Goes, Requests
  <2> QED
    BY <2>1, <2>2 DEF Idle
<1>5. CASE /\ call[c].kind \notin Piecemeal
           /\ call[c].pc \notin {"ok", "updated", "cut"}
           /\ \E pc \in {"expiring", "passed", "counted", "unused", "found", "granted"} \cup Ended :
                Goes(c, pc, call[c].at)
  <2>1. PICK pc \in {"expiring", "passed", "counted", "unused", "found", "granted"} \cup Ended :
          Goes(c, pc, call[c].at)
    BY <1>5
  <2>2. call'[c] = Idle \/ call'[c].at = call[c].at
    BY <1>1, <2>1 DEF Goes, Requests
  <2>3. call[c].at = 0
    BY <1>5 DEF Truthful
  <2> QED
    BY <2>2, <2>3 DEF Idle
<1>6. CASE DeleteToken(c)
  <2>1. Goes(c, "ok", call[c].at)
    BY <1>6 DEF DeleteToken, To
  <2>2. call'[c] = Idle \/ call'[c].pc = "ok"
    BY <1>1, <2>1 DEF Goes, Requests
  <2> QED
    BY <2>2 DEF Idle
<1>7. CASE InsertTenant(c) \/ InsertOwner(c) \/ SetToken(c) \/ SendMail(c) \/ WriteRow(c)
  BY <1>3, <1>7 DEF InsertTenant, InsertOwner, SetToken, SendMail, WriteRow, Is, Piecemeal
<1>8. CASE ~DeleteToken(c) /\ ~InsertTenant(c) /\ ~InsertOwner(c) /\ ~SetToken(c) /\ ~SendMail(c)
           /\ ~WriteRow(c)
  <2>1. \/ \E pc \in {"ok", "updated"} : Goes(c, pc, version')
        \/ /\ call[c].pc \notin {"ok", "updated", "cut"}
           /\ \E pc \in {"expiring", "passed", "counted", "unused", "found", "granted"} \cup Ended :
                Goes(c, pc, call[c].at)
    BY <1>8 DEF Handle, Incr, Expire, ReadTenant, FindSlug, InsertLocation, FindEmail,
       InsertTenantWithOwner, FindUser, GetToken, UpdatePassword, Change, WriteAudit,
       UpdateTenant, StartPayment, Reject, Refuse, Writes, To, Is, At, Ended
  <2> QED
    BY <1>3, <1>4, <1>5, <2>1
<1> QED
  BY <1>6, <1>7, <1>8

LEMMA TruthfulStep == TypeInv /\ Truthful /\ [Next]_vars => Truthful'
<1> SUFFICES ASSUME TypeInv, Truthful, [Next]_vars PROVE Truthful'
  OBVIOUS
<1>0. TypeOK /\ Idle.at = 0
  BY DEF TypeInv, Idle
<1>1. CASE Quiet
  BY <1>0, <1>1 DEF Quiet, Truthful
<1>2. CASE Dies
  BY <1>0, <1>2 DEF Dies, Truthful
<1>3. ASSUME NEW c \in Calls, Handle(c) PROVE Truthful'
  <2>1. \A d \in Calls : d # c => call'[d] = call[d]
    BY <1>0, <1>3, HandleMoves, MovesCalls
  <2> QED
    BY <1>0, <1>3, <2>1, TruthfulHandler DEF Truthful
<1>4. CASE Aside
  BY <1>4 DEF Aside, Truthful
<1> QED
  BY <1>1, <1>2, <1>3, <1>4, ApiSteps

\* A refusal leaves nothing behind, for any number of requests, where the handler writes
\* once or in one nested write (auth.service.ts:77-105, locations.service.ts:57).
THEOREM RefusalsLeaveNothing == Spec => []RefusedLeavesNothing
<1>1. Init => Truthful
  BY DEF Init, Truthful, Idle
<1>2. Truthful => RefusedLeavesNothing
  BY DEF Truthful, RefusedLeavesNothing, At
<1>3. Spec => [](TypeInv /\ Truthful)
  BY <1>1, TypeInit, TypeStep, TruthfulStep, PTL DEF Spec
<1> QED
  BY <1>2, <1>3, PTL

-----------------------------------------------------------------------------
(* The limit of locations.                                                  *)

\* A creation has counted and not yet inserted.
Counting(c) == call[c].kind = "location" /\ call[c].pc \in {"counted", "unused"}

\* The best plan so far allows what the present one does.  Unless two overlapped, one at
\* most is between the count and the insert, and there is room for it under the best plan.
OneCounts ==
  /\ LimitOf[row] <= most
  /\ ~raced =>
       /\ \A c, d \in Calls : Counting(c) /\ Counting(d) => c = d
       /\ Cardinality(location) <= most
       /\ (\E c \in Calls : Counting(c)) => Cardinality(location) < most

\* Two creations of the page would hold one button.
LEMMA PageCountsOnce ==
  ASSUME Buttons, NEW c \in Calls, NEW d \in Calls, Sent(c), Sent(d),
         call[c].kind = "location", call[d].kind = "location"
  PROVE  c = d
<1>1. Holds(c, "form") /\ Holds(d, "form")
  BY DEF Holds, Flag
<1> QED
  BY <1>1 DEF Buttons

\* A handler is between count and insert because it counted, or was there.
LEMMA CountingHandler ==
  ASSUME TypeOK, NEW c \in Calls, Handle(c), Counting(c)'
  PROVE  \/ ReadTenant(c) /\ BelowLimit
         \/ FindSlug(c) /\ Counting(c)
<1>1. Moves(c) /\ call[c] \in Requests /\ call \in [Calls -> Requests \cup {Idle}]
  BY HandleMoves DEF TypeOK, Moves, Idle
<1>2. \A pc, at : Goes(c, pc, at) => call'[c] = Idle \/ call'[c].pc = pc
  BY <1>1 DEF Goes, Requests
<1>3. call'[c].pc \in {"counted", "unused"} /\ call'[c].kind = "location" /\ call'[c] # Idle
  BY DEF Counting, Idle
<1>4. call[c].kind = "location"
  BY <1>1, <1>3, MovesCalls DEF Follows
<1>5. CASE ReadTenant(c)
  <2>1. CASE BelowLimit
    BY <1>5, <2>1
  <2>2. CASE ~BelowLimit
    <3>1. Goes(c, "refused", call[c].at)
      BY <1>5, <2>2 DEF ReadTenant, To
    <3> QED
      BY <1>2, <1>3, <3>1
  <2> QED
    BY <2>1, <2>2
<1>6. CASE FindSlug(c)
  BY <1>4, <1>6 DEF FindSlug, Is, At, Counting
<1>7. CASE ~ReadTenant(c) /\ ~FindSlug(c)
  <2>1. \E pc \in {"expiring", "passed", "inserted", "found", "stored", "granted", "updated",
                  "written"} \cup Ended,
           at \in {call[c].at, version'} : Goes(c, pc, at)
    BY <1>4, <1>7 DEF Handle, Incr, Expire, InsertLocation, FindEmail, InsertTenantWithOwner,
       InsertTenant, InsertOwner, FindUser, SetToken, SendMail, GetToken, UpdatePassword,
       DeleteToken, Change, WriteRow, WriteAudit, UpdateTenant, StartPayment, Reject, Refuse,
       Writes, To, Is, At, Ended
  <2> QED
    BY <1>2, <1>3, <2>1 DEF Ended
<1> QED
  BY <1>5, <1>6, <1>7

\* raced is never taken back, slugs come one at a time, and a new plan is remembered.
LEMMA LocationHandler ==
  ASSUME NEW c \in Calls, Handle(c)
  PROVE  /\ raced => raced'
         /\ \/ location' = location
            \/ /\ Counting(c) /\ location' = location \cup {call[c].name}
         /\ UNCHANGED <<row, most>> \/ NewRow(call[c].name)
<1>1. CASE InsertLocation(c)
  BY <1>1 DEF InsertLocation, Is, At, Counting, history
<1>2. CASE ReadTenant(c) \/ GetToken(c)
  BY <1>2 DEF ReadTenant, GetToken, tables
<1>3. CASE UpdateTenant(c)
  BY <1>3 DEF UpdateTenant
<1>4. CASE ~InsertLocation(c) /\ ~ReadTenant(c) /\ ~GetToken(c) /\ ~UpdateTenant(c)
  BY <1>4 DEF Handle, Incr, Expire, FindSlug, FindEmail, InsertTenantWithOwner,
     InsertTenant, InsertOwner, FindUser, SetToken, SendMail, UpdatePassword, DeleteToken,
     Change, WriteRow, WriteAudit, StartPayment, Reject, Refuse, tables, history
<1> QED
  BY <1>1, <1>2, <1>3, <1>4

\* The best plan is never forgotten.
LEMMA BestKept ==
  ASSUME TypeOK, LimitOf[row] <= most, NEW value, value \in Names, NewRow(value)
  PROVE  /\ LimitOf[row'] <= most' /\ most <= most'
<1>1. LimitOf[value] \in Nat /\ most \in Nat
  BY ConsoleAssumption DEF TypeOK
<1> QED
  BY <1>1 DEF NewRow

LEMMA OneCountsStep == Grounds /\ OneCounts /\ [Next]_vars => OneCounts'
<1> SUFFICES ASSUME Grounds, OneCounts, [Next]_vars PROVE OneCounts'
  OBVIOUS
<1>0. TypeInv /\ TypeOK /\ Buttons /\ LimitOf[row] <= most
  BY DEF Grounds, TypeInv, OneCounts
<1>1. /\ most \in Nat /\ most' \in Nat
      /\ IsFiniteSet(location) /\ Cardinality(location) \in Nat
  <2>1. IsFiniteSet(location)
    BY <1>0, FS_Subset, ConsoleAssumption DEF TypeOK
  <2> QED
    BY <1>0, <2>1, TypeStep, FS_CardinalityType DEF TypeInv, TypeOK
<1>2. ASSUME UNCHANGED <<location, raced>>, \A c \in Calls : Counting(c)' => Counting(c),
             UNCHANGED <<row, most>> \/ \E value \in Names : NewRow(value)
      PROVE  OneCounts'
  <2>1. LimitOf[row'] <= most' /\ most <= most'
    <3>1. CASE UNCHANGED <<row, most>>
      BY <1>0, <1>1, <3>1
    <3>2. CASE \E value \in Names : NewRow(value)
      BY <1>0, <3>2, BestKept
    <3> QED
      BY <1>2, <3>1, <3>2
  <2>2. ~raced' => Cardinality(location') <= most'
    BY <1>2, <1>1, <2>1 DEF OneCounts
  <2>3. ~raced' /\ (\E c \in Calls : Counting(c)') => Cardinality(location') < most'
    BY <1>2, <1>1, <2>1 DEF OneCounts
  <2>4. ~raced' => \A c, d \in Calls : Counting(c)' /\ Counting(d)' => c = d
    BY <1>2 DEF OneCounts
  <2> QED
    BY <2>1, <2>2, <2>3, <2>4 DEF OneCounts
<1>3. CASE Quiet
  BY <1>2, <1>3 DEF Quiet, Counting, OneCounts, Idle
<1>4. CASE Dies
  BY <1>2, <1>4 DEF Dies, Counting, OneCounts, Idle, Ended
<1>5. CASE Aside
  BY <1>2, <1>5 DEF Aside, Counting
<1>6. ASSUME NEW c \in Calls, Handle(c), ~raced', ~UpdateTenant(c), UNCHANGED <<row, most>>
      PROVE  OneCounts'
  <2>1. ~raced
    BY <1>6, LocationHandler
  <2>2. \A d \in Calls : d # c => call'[d] = call[d]
    BY <1>0, <1>6, HandleMoves, MovesCalls
  <2>3. \A d \in Calls : d # c /\ Counting(d)' => Counting(d)
    BY <2>2 DEF Counting
  <2>4. CASE Counting(c)' /\ ReadTenant(c)
    <3>1. \A d \in Calls : d # c => ~Counting(d)
      <4>1. SUFFICES ASSUME NEW d \in Calls, d # c, Counting(d) PROVE FALSE
        OBVIOUS
      <4>2. call[c].from = "page" /\ call[d].from = "page" /\ call[c].kind = "location"
        BY <1>6, <2>4, <4>1 DEF ReadTenant, Is, Overlaps, Counting
      <4>3. Sent(c) /\ Sent(d)
        BY <2>4, <4>1, <4>2 DEF Sent, ReadTenant, Is, At, Counting
      <4> QED
        BY <1>0, <4>1, <4>2, <4>3, PageCountsOnce DEF Counting
    <3>2. BelowLimit
      BY <1>0, <1>6, <2>4, CountingHandler DEF FindSlug, ReadTenant, Is, At
    <3>3. location' = location
      BY <2>4 DEF ReadTenant, tables
    <3>4. Cardinality(location') < most'
      BY <1>0, <1>6, <1>1, <3>2, <3>3, ConsoleAssumption DEF BelowLimit, TypeOK
    <3>5. Cardinality(location') <= most'
      BY <1>1, <3>3, <3>4
    <3>6. \A d, e \in Calls : Counting(d)' /\ Counting(e)' => d = e
      BY <2>3, <3>1
    <3> QED
      BY <1>0, <1>6, <3>4, <3>5, <3>6 DEF OneCounts
  <2>5. CASE Counting(c)' /\ ~ReadTenant(c)
    <3>1. FindSlug(c) /\ Counting(c)
      BY <1>0, <1>6, <2>5, CountingHandler
    <3> QED
      BY <1>2, <1>6, <2>3, <3>1 DEF FindSlug, tables, history
  <2>6. CASE ~Counting(c)'
    <3>1. CASE location' = location
      BY <1>6, <2>1, <2>3, <2>6, <3>1 DEF OneCounts
    <3>2. CASE Counting(c) /\ location' = location \cup {call[c].name}
      <4>1. \A d \in Calls : ~Counting(d)'
        BY <2>1, <2>3, <2>6, <3>2 DEF OneCounts
      <4>3. /\ Cardinality(location) \in Nat
            /\ Cardinality(location') \in {Cardinality(location), Cardinality(location) + 1}
        BY <1>1, <3>2, FS_CardinalityType, FS_AddElement
      <4>4. Cardinality(location) < most
        BY <2>1, <3>2 DEF OneCounts
      <4>5. Cardinality(location') <= most'
        BY <1>6, <1>1, <4>3, <4>4
      <4> QED
        BY <1>6, <4>1, <4>5 DEF OneCounts
    <3> QED
      BY <1>6, <3>1, <3>2, LocationHandler
  <2> QED
    BY <2>4, <2>5, <2>6
<1>7. ASSUME NEW c \in Calls, Handle(c) PROVE OneCounts'
  <2>1. CASE UpdateTenant(c)
    <3>1. UNCHANGED <<location, raced>> /\ NewRow(call[c].name) /\ call[c].kind = "save"
      BY <2>1 DEF UpdateTenant, Is
    <3>2. call[c].name \in Names
      BY <1>0, <3>1 DEF TypeInv, Addressed, Unnamed
    <3>3. ~Counting(c)'
      <4>1. \A d \in {c} : call'[d] = Idle \/ Follows(d)
        BY <1>0, <1>7, HandleMoves, MovesCalls
      <4> QED
        BY <3>1, <4>1 DEF Counting, Idle, Follows
    <3>4. \A d \in Calls : d # c => call'[d] = call[d]
      BY <1>0, <1>7, HandleMoves, MovesCalls
    <3>5. \A d \in Calls : Counting(d)' => Counting(d)
      BY <3>3, <3>4 DEF Counting
    <3> QED
      BY <1>2, <3>1, <3>2, <3>5
  <2>2. CASE ~UpdateTenant(c)
    <3>1. UNCHANGED <<row, most>>
      BY <1>7, <2>2 DEF Handle, Incr, Expire, ReadTenant, FindSlug, InsertLocation, FindEmail,
         InsertTenantWithOwner, InsertTenant, InsertOwner, FindUser, SetToken, SendMail, GetToken,
         UpdatePassword, DeleteToken, Change, WriteRow, WriteAudit, StartPayment, Reject, Refuse,
         tables, history
    <3>2. CASE raced'
      BY <1>0, <3>1, <3>2 DEF OneCounts
    <3> QED
      BY <1>6, <1>7, <2>2, <3>1, <3>2
  <2> QED
    BY <2>1, <2>2
<1> QED
  BY <1>0, <1>3, <1>4, <1>5, <1>7, ApiSteps

\* The limit of the best plan so far is kept by one page and one request at a time, whenever
\* the plan changes, on whatever page, for any limits and any number of requests
\* (locations.service.ts:36-57).
THEOREM LimitOfLocations == Spec => []LimitHolds
<1>1. Init => OneCounts
  <2> SUFFICES ASSUME Init PROVE OneCounts
    OBVIOUS
  <2>1. Cardinality(location) = 0
    BY FS_EmptySet DEF Init
  <2>2. \A c \in Calls : ~Counting(c)
    BY IdleHoldsNothing DEF Init, Counting
  <2>3. most = LimitOf[row] /\ most \in Nat
    BY ConsoleAssumption DEF Init, Some
  <2> QED
    BY <2>1, <2>2, <2>3 DEF OneCounts
<1>2. OneCounts => LimitHolds
  BY DEF OneCounts, LimitHolds
<1>3. Spec => [](Grounds /\ OneCounts)
  BY <1>1, GroundsInit, GroundsStep, OneCountsStep, PTL DEF Spec
<1> QED
  BY <1>2, <1>3, PTL

-----------------------------------------------------------------------------
(* Reset links.                                                             *)

\* A reset has found its key and not yet deleted it.
Using(c) == call[c].kind = "reset" /\ call[c].pc \in {"granted", "updated"}

\* The key of t is about to be deleted by the reset that has set the password.
Deleting(t) == \E c \in Calls : Is(c, "reset", "updated") /\ call[c].name = t

\* Unless two overlapped or a process died on the way, one reset at most uses a key,
\* and a token that has set a password has no key, or one that is about to go.
OneUses ==
  ~raced /\ "updated" \notin stranded =>
    /\ \A c, d \in Calls : Using(c) /\ Using(d) => c = d
    /\ \A t \in Names :
         /\ spent[t] # 2
         /\ spent[t] = 1 => t \in made /\ (t \notin token \/ Deleting(t))
    /\ \A c \in Calls : Is(c, "reset", "granted") => spent[call[c].name] = 0

\* Two resets of the page would hold one button.
LEMMA PageUsesOnce ==
  ASSUME Buttons, NEW c \in Calls, NEW d \in Calls, Sent(c), Sent(d),
         call[c].kind = "reset", call[d].kind = "reset"
  PROVE  c = d
<1>1. Holds(c, "form") /\ Holds(d, "form")
  BY DEF Holds, Flag
<1> QED
  BY <1>1 DEF Buttons

\* The handlers that do not reset a password leave keys and uses alone, but for the
\* one that makes a new token.
LEMMA OtherHandlers ==
  ASSUME TypeOK, NEW c \in Calls, Handle(c), ~GetToken(c), ~UpdatePassword(c), ~DeleteToken(c)
  PROVE  /\ UNCHANGED <<spent, stranded>> /\ raced' \in {raced, TRUE}
         /\ ~Is(c, "reset", "updated")
         /\ Using(c)' => FALSE
         /\ \/ UNCHANGED <<token, made>>
            \/ \E t \in Names \ made : made' = made \cup {t} /\ token' = token \cup {t}
<1>1. Moves(c) /\ call[c] \in Requests /\ call \in [Calls -> Requests \cup {Idle}]
  BY HandleMoves DEF TypeOK, Moves, Idle
<1>2. \A pc, at : Goes(c, pc, at) => call'[c] = Idle \/ call'[c].pc = pc
  BY <1>1 DEF Goes, Requests
<1>3. /\ ~Is(c, "reset", "updated")
      /\ \E pc \in {"expiring", "passed", "counted", "unused", "inserted", "found", "stored",
                   "written"} \cup Ended,
            at \in {call[c].at, version'} : Goes(c, pc, at)
  BY DEF Handle, Incr, Expire, ReadTenant, FindSlug, InsertLocation, FindEmail,
     InsertTenantWithOwner, InsertTenant, InsertOwner, FindUser, SetToken, SendMail,
     Change, WriteRow, WriteAudit, UpdateTenant, StartPayment, Reject, Refuse, Writes, To, Is, At, Ended
<1>4. ~Using(c)'
  BY <1>2, <1>3 DEF Using, Idle, Ended
<1>5. UNCHANGED <<spent, stranded>>
  BY DEF Handle, Incr, Expire, ReadTenant, FindSlug, InsertLocation, FindEmail,
     InsertTenantWithOwner, InsertTenant, InsertOwner, FindUser, SetToken, SendMail,
     Change, WriteRow, WriteAudit, UpdateTenant, StartPayment, Reject, reset, history
<1>6. raced' \in {raced, TRUE}
  <2>1. CASE ReadTenant(c)
    <3>1. raced \in BOOLEAN /\ Overlaps(c, {"counted", "unused"}) \in BOOLEAN
      BY DEF TypeOK, Overlaps
    <3> QED
      BY <2>1, <3>1 DEF ReadTenant
  <2>2. CASE ~ReadTenant(c)
    BY <2>2 DEF Handle, Incr, Expire, FindSlug, InsertLocation, FindEmail,
       InsertTenantWithOwner, InsertTenant, InsertOwner, FindUser, SetToken, SendMail,
       Change, WriteRow, WriteAudit, UpdateTenant, StartPayment, Reject, history
  <2> QED
    BY <2>1, <2>2
<1>7. \/ UNCHANGED <<token, made>>
      \/ \E t \in Names \ made : made' = made \cup {t} /\ token' = token \cup {t}
  <2>1. CASE SetToken(c)
    BY <2>1 DEF SetToken, Key
  <2>2. CASE ~SetToken(c)
    BY <2>2 DEF Handle, Incr, Expire, ReadTenant, FindSlug, InsertLocation, FindEmail,
       InsertTenantWithOwner, InsertTenant, InsertOwner, FindUser, SendMail,
       Change, WriteRow, WriteAudit, UpdateTenant, StartPayment, Reject, reset
  <2> QED
    BY <2>1, <2>2
<1> QED
  BY <1>3, <1>4, <1>5, <1>6, <1>7

\* The three awaits of a reset.
LEMMA ResetHandlers ==
  ASSUME TypeOK, NEW c \in Calls
  PROVE  /\ GetToken(c) =>
              /\ call'[c].pc = "granted" => call[c].name \in token /\ call'[c].name = call[c].name
              /\ call'[c].pc # "updated"
         /\ UpdatePassword(c) =>
              call'[c].kind = "reset" /\ call'[c].pc = "updated" /\ call'[c].name = call[c].name
         /\ DeleteToken(c) => ~Using(c)'
<1>1. ASSUME call[c].pc # "idle"
      PROVE  call[c] \in Requests /\ call \in [Calls -> Requests \cup {Idle}]
  BY <1>1 DEF TypeOK, Idle
<1>2. ASSUME GetToken(c)
      PROVE  /\ call'[c].pc = "granted" => call[c].name \in token /\ call'[c].name = call[c].name
             /\ call'[c].pc # "updated"
  <2>1. call[c] \in Requests /\ call \in [Calls -> Requests \cup {Idle}]
    BY <1>1, <1>2 DEF GetToken, Is, At
  <2>2. CASE call[c].name \in token
    <3>1. Goes(c, "granted", call[c].at)
      BY <1>2, <2>2 DEF GetToken, To
    <3> QED
      BY <2>1, <2>2, <3>1 DEF Goes, Requests, Ended
  <2>3. CASE call[c].name \notin token
    <3>1. Goes(c, "refused", call[c].at)
      BY <1>2, <2>3 DEF GetToken, To
    <3>2. call'[c] = Idle \/ call'[c].pc = "refused"
      BY <2>1, <3>1 DEF Goes, Requests
    <3> QED
      BY <3>2 DEF Idle
  <2> QED
    BY <2>2, <2>3
<1>3. ASSUME UpdatePassword(c)
      PROVE  call'[c].kind = "reset" /\ call'[c].pc = "updated" /\ call'[c].name = call[c].name
  <2>1. call[c] \in Requests /\ call \in [Calls -> Requests \cup {Idle}]
    BY <1>1, <1>3 DEF UpdatePassword, Is, At
  <2>2. Goes(c, "updated", version') /\ call[c].kind = "reset"
    BY <1>3 DEF UpdatePassword, Writes, Is
  <2> QED
    BY <2>1, <2>2 DEF Goes, Requests, Ended
<1>4. ASSUME DeleteToken(c) PROVE ~Using(c)'
  <2>1. call[c] \in Requests /\ call \in [Calls -> Requests \cup {Idle}]
    BY <1>1, <1>4 DEF DeleteToken, Is, At
  <2>2. Goes(c, "ok", call[c].at)
    BY <1>4 DEF DeleteToken, To
  <2>3. call'[c] = Idle \/ call'[c].pc = "ok"
    BY <2>1, <2>2 DEF Goes, Requests
  <2> QED
    BY <2>3 DEF Using, Idle
<1> QED
  BY <1>2, <1>3, <1>4

LEMMA OneUsesHandler ==
  ASSUME Grounds, OneUses, NEW c \in Calls, Handle(c), ~raced', "updated" \notin stranded'
  PROVE  OneUses'
<1>0. TypeOK /\ Buttons /\ Addressed
  BY DEF Grounds, TypeInv
<1>1. \A d \in Calls : d # c => call'[d] = call[d]
  BY <1>0, HandleMoves, MovesCalls
<1>2. stranded' = stranded /\ (raced => raced')
  BY LocationHandler DEF Handle, Incr, Expire, ReadTenant, FindSlug, InsertLocation, FindEmail,
     InsertTenantWithOwner, InsertTenant, InsertOwner, FindUser, SetToken, SendMail, GetToken,
     UpdatePassword, DeleteToken, Change, WriteRow, WriteAudit, UpdateTenant, StartPayment,
     Reject, history
<1>3. /\ \A d, e \in Calls : Using(d) /\ Using(e) => d = e
      /\ \A t \in Names :
           /\ spent[t] # 2
           /\ spent[t] = 1 => t \in made /\ (t \notin token \/ Deleting(t))
      /\ \A d \in Calls : Is(d, "reset", "granted") => spent[call[d].name] = 0
  BY <1>2 DEF OneUses
<1>4. \A d \in Calls : d # c =>
        /\ Using(d)' <=> Using(d)
        /\ Is(d, "reset", "granted")' <=> Is(d, "reset", "granted")
        /\ Is(d, "reset", "updated")' <=> Is(d, "reset", "updated")
  BY <1>1 DEF Using, Is, At
<1>5. CASE GetToken(c)
  <2>1. UNCHANGED <<token, made, spent>> /\ call[c].pc = "passed" /\ call[c].kind = "reset"
    BY <1>5 DEF GetToken, Is, At, reset
  <2>2. \A d \in Calls : d # c => ~Using(d)
    <3>1. SUFFICES ASSUME NEW d \in Calls, d # c, Using(d) PROVE FALSE
      OBVIOUS
    <3>2. call[c].from = "page" /\ call[d].from = "page"
      BY <1>5, <2>1, <3>1 DEF GetToken, Overlaps, Using
    <3> QED
      BY <1>0, <2>1, <3>1, <3>2, PageUsesOnce DEF Using, Sent
  <2>3. \A t \in Names : Deleting(t) => FALSE
    BY <2>1, <2>2 DEF Deleting, Using, Is, At
  <2>4. Is(c, "reset", "granted")' => spent[call[c].name] = 0 /\ call'[c].name = call[c].name
    <3>1. SUFFICES ASSUME call'[c].pc = "granted"
                   PROVE  spent[call[c].name] = 0 /\ call'[c].name = call[c].name
      BY DEF Is, At
    <3>2. call[c].name \in token /\ call'[c].name = call[c].name
      BY <1>0, <1>5, <3>1, ResetHandlers
    <3>3. call[c].name \in Names /\ spent[call[c].name] \in 0..2
      BY <1>0, <3>2 DEF TypeOK
    <3> QED
      BY <1>3, <2>3, <3>2, <3>3
  <2> QED
    BY <1>1, <1>3, <1>4, <2>1, <2>2, <2>3, <2>4 DEF OneUses
<1>6. CASE UpdatePassword(c)
  <2>1. /\ Using(c) /\ spent[call[c].name] = 0 /\ call[c].pc = "granted"
        /\ call[c].name \in made /\ call[c].name \in Names
    BY <1>0, <1>3, <1>6 DEF UpdatePassword, Is, At, Using, Addressed, TypeOK
  <2>2. /\ spent' = [spent EXCEPT ![call[c].name] = 1] /\ UNCHANGED <<token, made>>
    BY <1>6, <2>1 DEF UpdatePassword
  <2>3. call'[c].kind = "reset" /\ call'[c].pc = "updated" /\ call'[c].name = call[c].name
    BY <1>0, <1>6, ResetHandlers
  <2>4. \A d \in Calls : d # c => ~Using(d) /\ ~Using(d)'
    BY <1>3, <1>4, <2>1
  <2>5. \A t \in Names : ~Deleting(t)
    BY <2>1, <2>4 DEF Deleting, Using, Is, At
  <2>6. \A d \in Calls : ~Is(d, "reset", "granted")'
    BY <2>3, <2>4 DEF Using, Is, At
  <2>7. \A t \in Names : t = call[c].name => Deleting(t)'
    BY <2>3 DEF Deleting, Is, At
  <2>8. \A t \in Names : spent'[t] = IF t = call[c].name THEN 1 ELSE spent[t]
    BY <1>0, <2>2 DEF TypeOK
  <2>9. \A t \in Names :
          /\ spent'[t] # 2
          /\ spent'[t] = 1 => t \in made' /\ (t \notin token' \/ Deleting(t)')
    BY <1>3, <2>1, <2>2, <2>5, <2>7, <2>8
  <2>10. \A d, e \in Calls : Using(d)' /\ Using(e)' => d = e
    BY <2>4
  <2> QED
    BY <2>6, <2>9, <2>10 DEF OneUses
<1>7. CASE DeleteToken(c)
  <2>1. UNCHANGED <<made, spent>> /\ token' = token \ {call[c].name} /\ Using(c)
    BY <1>7 DEF DeleteToken, Without, Is, At, Using
  <2>2. ~Using(c)' /\ \A d \in Calls : d # c => ~Using(d)
    BY <1>0, <1>3, <1>7, <2>1, ResetHandlers
  <2>3. \A d \in Calls : ~Using(d)'
    BY <1>4, <2>2
  <2>4. \A t \in Names : Deleting(t) => t = call[c].name
    BY <2>2 DEF Deleting, Using, Is, At
  <2>5. \A d \in Calls : ~Is(d, "reset", "granted")'
    BY <2>3 DEF Using, Is, At
  <2>6. \A t \in Names : spent'[t] # 2 /\ (spent'[t] = 1 => t \in made' /\ t \notin token')
    BY <1>3, <2>1, <2>4
  <2> QED
    BY <2>3, <2>5, <2>6 DEF OneUses
<1>8. CASE ~GetToken(c) /\ ~UpdatePassword(c) /\ ~DeleteToken(c)
  <2>1. spent' = spent /\ ~Is(c, "reset", "updated") /\ ~Using(c)'
    BY <1>0, <1>8, OtherHandlers
  <2>2. \A t \in Names : Deleting(t) => Deleting(t)'
    BY <1>1, <2>1 DEF Deleting, Is, At
  <2>3. \A t \in Names : t \in made => t \in made' /\ (t \in token' => t \in token)
    BY <1>0, <1>8, OtherHandlers
  <2>4. ~Is(c, "reset", "granted")'
    BY <2>1 DEF Using, Is, At
  <2>5. \A d \in Calls : Is(d, "reset", "granted")' => spent'[call'[d].name] = 0
    BY <1>1, <1>3, <1>4, <2>1, <2>4
  <2>6. \A t \in Names :
          /\ spent'[t] # 2
          /\ spent'[t] = 1 => t \in made' /\ (t \notin token' \/ Deleting(t)')
    BY <1>3, <2>1, <2>2, <2>3
  <2>7. \A d, e \in Calls : Using(d)' /\ Using(e)' => d = e
    BY <1>3, <1>4, <2>1
  <2> QED
    BY <2>5, <2>6, <2>7 DEF OneUses
<1> QED
  BY <1>5, <1>6, <1>7, <1>8

LEMMA OneUsesStep == Grounds /\ OneUses /\ [Next]_vars => OneUses'
<1> SUFFICES ASSUME Grounds, OneUses, [Next]_vars, ~raced', "updated" \notin stranded'
             PROVE  OneUses'
  BY DEF OneUses
<1>0. TypeInv
  BY DEF Grounds
<1>1. CASE Quiet
  <2>1. UNCHANGED <<made, spent, raced, stranded>> /\ token' \subseteq token
    BY <1>1 DEF Quiet
  <2>2. \A c \in Calls :
          /\ Is(c, "reset", "granted")' => Is(c, "reset", "granted") /\ call'[c].name = call[c].name
          /\ Is(c, "reset", "updated") => Is(c, "reset", "updated")' /\ call'[c].name = call[c].name
          /\ Using(c)' => Using(c)
    BY <1>1 DEF Quiet, Is, At, Using, Idle, Ended
  <2>3. \A t \in Names : Deleting(t) => Deleting(t)'
    BY <2>2 DEF Deleting
  <2> QED
    BY <2>1, <2>2, <2>3 DEF OneUses
<1>2. CASE Dies
  <2>1. UNCHANGED <<made, spent, raced, token>> /\ "updated" \notin stranded
    BY <1>2 DEF Dies
  <2>2. \A c \in Calls : call[c].pc # "updated" /\ ~Using(c)'
    BY <1>2 DEF Dies, Using, Idle, Ended
  <2>3. \A t \in Names : ~Deleting(t)
    BY <2>2 DEF Deleting, Is, At
  <2>4. \A c \in Calls : ~Is(c, "reset", "granted")'
    BY <2>2 DEF Using, Is, At
  <2> QED
    BY <2>1, <2>2, <2>3, <2>4 DEF OneUses
<1>3. CASE Aside
  <2>1. /\ call' = call /\ made' = made /\ spent' = spent /\ raced' = raced /\ token' = token
        /\ stranded \subseteq stranded'
    BY <1>3 DEF Aside, ReplyLost
  <2>2. \A c \in Calls :
          /\ Using(c)' => Using(c)
          /\ Is(c, "reset", "granted")' => Is(c, "reset", "granted")
          /\ Is(c, "reset", "updated") => Is(c, "reset", "updated")'
    BY <2>1 DEF Using, Is, At
  <2>3. \A t \in Names : Deleting(t) => Deleting(t)'
    BY <2>1, <2>2 DEF Deleting
  <2> QED
    BY <2>1, <2>2, <2>3 DEF OneUses
<1> QED
  BY <1>0, <1>1, <1>2, <1>3, OneUsesHandler, ApiSteps

\* A reset link is used up by the first password it sets, unless two resets overlap or the
\* process dies between the two writes, for any number of requests and tokens
\* (auth.service.ts:129-144).
THEOREM ResetLinkWorksOnce == Spec => []LinkWorksOnce
<1>1. Init => OneUses
  BY IdleHoldsNothing DEF Init, OneUses, Using, Is, At
<1>2. OneUses => LinkWorksOnce
  BY DEF OneUses, LinkWorksOnce
<1>3. Spec => [](Grounds /\ OneUses)
  BY <1>1, GroundsInit, GroundsStep, OneUsesStep, PTL DEF Spec
<1> QED
  BY <1>2, <1>3, PTL

-----------------------------------------------------------------------------
(* Lists.                                                                   *)

\* A load that will list the page's own newest change.
Brings(l) == load[l].pc = "asked" \/ (load[l].pc = "served" /\ load[l].at >= own)

\* What an open page has not listed, some load of it will, or it shows an error.
Listing ==
  page \in Lists /\ ~left =>
    /\ own <= seen \/ failed \/ \E l \in Loads : Brings(l)
    /\ shown.at # None \/ failed \/ \E l \in Loads : load[l].pc # "idle"

\* Payment and checkout write nothing that a page lists.
PayWritesNothing == \A c \in Calls : call[c].kind = "pay" => call[c].at = 0

LEMMA PayStep == TypeInv /\ PayWritesNothing /\ [Next]_vars => PayWritesNothing'
<1> SUFFICES ASSUME TypeInv, PayWritesNothing, [Next]_vars PROVE PayWritesNothing'
  OBVIOUS
<1>0. TypeOK /\ Idle.at = 0
  BY DEF TypeInv, Idle
<1>1. CASE Quiet
  BY <1>0, <1>1 DEF Quiet, PayWritesNothing
<1>2. CASE Dies
  BY <1>0, <1>2 DEF Dies, PayWritesNothing
<1>3. ASSUME NEW c \in Calls, Handle(c) PROVE PayWritesNothing'
  <2>1. /\ \A d \in Calls : d # c => call'[d] = call[d]
        /\ call'[c] = Idle \/ Follows(c)
        /\ call[c].pc # "idle"
    BY <1>0, <1>3, HandleMoves, MovesCalls
  <2>2. call[c].kind = "pay" => call'[c].at = 0
    <3>1. SUFFICES ASSUME call[c].kind = "pay" PROVE call'[c].at = 0
      OBVIOUS
    <3>2. \E pc \in {"expiring", "passed"} \cup Ended : Goes(c, pc, call[c].at)
      BY <1>3, <3>1 DEF Handle, Incr, Expire, ReadTenant, FindSlug, InsertLocation, FindEmail,
         InsertTenantWithOwner, InsertTenant, InsertOwner, FindUser, SetToken, SendMail, GetToken,
         UpdatePassword, DeleteToken, Change, WriteRow, WriteAudit, UpdateTenant, StartPayment,
         Reject, To, Is, Ended
    <3>3. PICK pc \in {"expiring", "passed"} \cup Ended : Goes(c, pc, call[c].at)
      BY <3>2
    <3>4. call[c] \in Requests /\ call \in [Calls -> Requests \cup {Idle}]
      BY <1>0, <2>1 DEF TypeOK, Idle
    <3>5. call'[c] = Idle \/ call'[c].at = call[c].at
      BY <3>3, <3>4 DEF Goes, Requests
    <3> QED
      BY <1>0, <3>1, <3>5 DEF PayWritesNothing
  <2> QED
    BY <1>0, <2>1, <2>2 DEF PayWritesNothing, Follows
<1>4. CASE Aside
  BY <1>4 DEF Aside, PayWritesNothing
<1> QED
  BY <1>1, <1>2, <1>3, <1>4, ApiSteps

\* A reload brings everything, and takes the error away.
LEMMA ReloadBrings ==
  ASSUME TypeOK, NEW l \in Loads, NEW frees \in SUBSET {"form", "save"}, Reload(l, frees)
  PROVE  Listing'
<1>1. load'[l] = Asked(frees)
  BY ReloadType DEF TypeOK
<1>2. load'[l].pc = "asked"
  BY <1>1 DEF Asked
<1> QED
  BY <1>2 DEF Listing, Brings

LEMMA PageListing == TypeOK /\ PayWritesNothing /\ Listing /\ PageStep => Listing'
<1> SUFFICES ASSUME TypeOK, PayWritesNothing, Listing, PageStep PROVE Listing'
  OBVIOUS
<1>0. load \in [Loads -> Reloads] /\ version \in Nat /\ own \in 0..version /\ seen \in 0..version
  BY DEF TypeOK
<1>1. ASSUME NEW l \in Loads, ServeLoad(l) PROVE Listing'
  <2>1. load[l] \in Reloads
    BY <1>0
  <2>2. PICK what \in {row, None} :
          load' = [load EXCEPT ![l] = [load[l] EXCEPT !.pc = "served", !.at = version, !.row = what]]
    BY <1>1 DEF ServeLoad
  <2>3. load'[l].pc = "served" /\ load'[l].at = version
    BY <1>0, <2>1, <2>2 DEF Reloads
  <2>4. \A k \in Loads : k # l => load'[k] = load[k]
    BY <1>0, <2>2
  <2>5. UNCHANGED <<page, left, own, seen, failed, shown>>
    BY <1>1 DEF ServeLoad
  <2>6. own' <= load'[l].at
    BY <1>0, <2>3, <2>5
  <2>7. Brings(l)'
    BY <2>3, <2>6 DEF Brings
  <2> QED
    BY <2>3, <2>7 DEF Listing
<1>2. ASSUME NEW l \in Loads, LoadAnswered(l) PROVE Listing'
  <2>1. /\ load[l].pc = "served" /\ load' = [load EXCEPT ![l] = NoLoad]
        /\ UNCHANGED <<page, left, own, failed>>
        /\ shown' = [at |-> load[l].at, row |-> load[l].row]
        /\ seen' = IF load[l].at > seen THEN load[l].at ELSE seen
    BY <1>2 DEF LoadAnswered, LoadEnds
  <2>2. load[l].at \in 0..version
    BY DEF TypeOK
  <2>3. shown'.at # None
    BY <1>0, <2>1, <2>2, ConsoleAssumption
  <2>4. \A k \in Loads : k # l => (Brings(k) => Brings(k)')
    BY <1>0, <2>1 DEF Brings
  <2>5. own <= seen \/ (load[l].pc = "served" /\ load[l].at >= own) => own' <= seen'
    BY <1>0, <2>1, <2>2
  <2>6. Brings(l) => own' <= seen'
    BY <2>1, <2>5 DEF Brings
  <2>7. page \in Lists /\ ~left => own' <= seen' \/ failed' \/ \E k \in Loads : Brings(k)'
    BY <2>1, <2>4, <2>5, <2>6 DEF Listing
  <2> QED
    BY <2>1, <2>3, <2>7 DEF Listing
<1>3. ASSUME NEW l \in Loads, LoadFails(l) PROVE Listing'
  BY <1>3 DEF LoadFails, Listing
<1>4. ASSUME NEW l \in Loads, Refresh(l) PROVE Listing'
  BY <1>4, ReloadBrings DEF Refresh
<1>5. ASSUME UNCHANGED <<page, left, own, seen, failed, shown, load>> PROVE Listing'
  BY <1>5 DEF Listing, Brings
<1>6. ASSUME NEW value \in Names, Pick(value) PROVE Listing'
  BY <1>5, <1>6 DEF Pick
<1>7. ASSUME NEW c \in Calls, Acknowledged(c) PROVE Listing'
  BY <1>7, ReloadBrings, LoadTypes DEF Acknowledged
<1>8. ASSUME NEW c \in Calls, Done(c) PROVE Listing'
  <2>1. page \notin Lists \/ call[c].kind = "pay"
    BY <1>8 DEF Done, LoadsAgain
  <2>2. CASE page \notin Lists
    BY <1>8, <2>2 DEF Done, Answered, Listing
  <2>3. CASE call[c].kind = "pay"
    <3>1. call[c].at = 0
      BY <2>3 DEF PayWritesNothing
    <3>2. own' = own
      BY <1>0, <1>8, <3>1 DEF Done
    <3> QED
      BY <1>5, <1>8, <3>2 DEF Done, Answered
  <2> QED
    BY <2>1, <2>2, <2>3
<1>9. ASSUME NEW c \in Calls, Refused(c) \/ Disconnected(c) PROVE Listing'
  BY <1>5, <1>9 DEF Refused, Answered, Disconnected
<1>10. CASE Unmounted
  BY <1>10 DEF Unmounted, Listing
<1>11. CASE Open
  <2>1. FirstLoad \in Loads
    BY PagesAssumption DEF FirstLoad
  <2>2. load' = [load EXCEPT ![FirstLoad] = IF page \in Lists THEN Asked({}) ELSE NoLoad] /\ page' = page
    BY <1>11 DEF Open
  <2>3. page' \in Lists => load'[FirstLoad].pc = "asked"
    BY <1>0, <2>1, <2>2 DEF Asked
  <2> QED
    BY <2>1, <2>3 DEF Listing, Brings
<1> QED
  BY <1>1, <1>2, <1>3, <1>4, <1>6, <1>7, <1>8, <1>9, <1>10, <1>11
     DEF PageStep, Leave, Settled, Away

LEMMA ListingStep == TypeInv /\ PayWritesNothing /\ Listing /\ [Next]_vars => Listing'
<1> SUFFICES ASSUME TypeInv, PayWritesNothing, Listing, [Next]_vars PROVE Listing'
  OBVIOUS
<1>0. TypeOK
  BY DEF TypeInv
<1>1. CASE PageStep
  BY <1>0, <1>1, PageListing
<1>2. ASSUME UNCHANGED <<page, left, own, seen, failed, shown, load>> PROVE Listing'
  BY <1>2 DEF Listing, Brings
<1>3. CASE UNCHANGED <<page, view>>
  BY <1>2, <1>3 DEF view
<1>4. ASSUME NEW c \in Calls, NEW kind \in Kinds, NEW name \in Names \cup {None},
             Submit(c, kind, name) \/ SubmitElsewhere(c, kind, name)
      PROVE  Listing'
  BY <1>2, <1>4 DEF Submit, SubmitElsewhere, view
<1> QED
  BY <1>0, <1>1, <1>3, <1>4, StepKinds DEF vars

LEMMA ListingInit == Init => Listing /\ PayWritesNothing
<1> SUFFICES ASSUME Init PROVE Listing /\ PayWritesNothing
  OBVIOUS
<1>1. PayWritesNothing
  BY DEF Init, PayWritesNothing, Idle
<1>2. FirstLoad \in Loads
  BY PagesAssumption DEF FirstLoad
<1>3. page \in Lists => load[FirstLoad].pc = "asked"
  BY <1>2 DEF Init, Asked
<1> QED
  BY <1>1, <1>2, <1>3 DEF Listing, Brings

\* A page at rest has listed its own changes, for any number of loads and requests
\* answered in any order (useAsyncData.ts:10-21, PlansPage.tsx:31-53).
THEOREM PagesShowOwnChanges == Spec => []ShowsOwnChanges
<1>1. TypeOK /\ Listing => ShowsOwnChanges
  <2> SUFFICES ASSUME TypeOK, Listing, AtRest PROVE shown.at # None /\ seen >= own
    BY DEF ShowsOwnChanges
  <2>1. /\ page \in Lists /\ ~left /\ ~failed
        /\ \A l \in Loads : load[l].pc = "idle"
    BY DEF AtRest
  <2>2. \A l \in Loads : ~Brings(l)
    BY <2>1 DEF Brings
  <2>3. own <= seen /\ shown.at # None
    BY <2>1, <2>2 DEF Listing
  <2>4. own \in Nat /\ seen \in Nat
    BY DEF TypeOK
  <2> QED
    BY <2>3, <2>4
<1>2. Spec => [](TypeInv /\ PayWritesNothing /\ Listing)
  BY TypeInit, TypeStep, ListingInit, PayStep, ListingStep, PTL DEF Spec
<1>3. TypeInv => TypeOK
  BY DEF TypeInv
<1> QED
  BY <1>1, <1>2, <1>3, PTL
=============================================================================
