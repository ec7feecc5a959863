------------------------------ MODULE ConsoleApi ------------------------------
(***************************************************************************)
(* The API behind the forms of the owner, the administrator and whoever     *)
(* signs up: locations, accounts, tenants, password reset and the rate       *)
(* limit.  A handler reads, awaits and writes what it decided on what it     *)
(* read; nothing but the unique columns of the database holds two apart.     *)
(* Tables no handler decides upon are only counted, in version.              *)
(***************************************************************************)
EXTENDS Naturals, FiniteSets

CONSTANTS
  Calls,       \* requests that may be in the API together
  Names,       \* slugs, addresses, reset tokens, states of a tenant
  LimitOf,     \* SAAS_PLAN_LOCATION_LIMITS of the plan of a state of the tenant
  RateLimit,   \* requests of a route let through in a window
  MaxChanges,  \* bound on the writes made before a request, or before the next of a batch
  None

ASSUME ConsoleAssumption ==
  /\ IsFiniteSet(Calls) /\ IsFiniteSet(Names) /\ Names # {}
  /\ None \notin Names \cup Nat
  /\ LimitOf \in [Names -> Nat]
  /\ {RateLimit, MaxChanges} \subseteq Nat /\ RateLimit > 0

VARIABLES
  call,      \* the requests
  location,  \* slugs of the tenant's locations
  owner,     \* addresses that have an account
  row,       \* plan and licence of the tenant
  version,   \* writes so far
  token,     \* password-reset keys in Redis
  made,      \* reset tokens generated so far
  spent,     \* spent[t]: how often t has set a password, up to twice
  counter,   \* the rate-limit key of the route, 0 when there is none
  lapses,    \* that key has a time to live
  most,      \* the highest limit of the plans the tenant has had
  raced,     \* two check-and-write handlers overlapped that one page does not start together
  stranded   \* where a dying process, or a command sent twice, left two commands half done

tables == <<location, owner, row, version>>
reset == <<token, made, spent>>
limiter == <<counter, lapses>>
history == <<most, raced, stranded>>
apiVars == <<call, tables, reset, limiter, history>>

Guarded == {"register", "forgot", "reset"}
Kinds == Guarded \cup {"location", "tenant", "create", "remove", "batch", "suspend", "save", "pay"}

\* "from": the page that awaits the answer, or somebody else, the page that gave up too.
Idle == [kind |-> "none", name |-> None, pc |-> "idle", from |-> "none", at |-> 0]
At(c, pc) == call[c].pc = pc
Is(c, kind, pc) == call[c].kind = kind /\ At(c, pc)
Ended == {"ok", "refused", "cut"}

\* The handler goes on at pc, or answers, which is seen only by a page that waits.
Goes(c, pc, at) ==
  call' = [call EXCEPT ![c] = IF pc \in Ended /\ @.from # "page" THEN Idle
                              ELSE [@ EXCEPT !.pc = pc, !.at = at]]
To(c, pc) == Goes(c, pc, call[c].at)
Writes(c, pc) ==
  /\ version' = version + 1
  /\ Goes(c, pc, version')

\* A request arrives, with what was typed or picked, or an empty field.
Receive(c, kind, name, from) ==
  /\ At(c, "idle") /\ c = CHOOSE d \in Calls : At(d, "idle")
  /\ version < MaxChanges
  /\ call' = [call EXCEPT ![c] =
       [kind |-> kind, name |-> name, from |-> from, at |-> 0,
        pc |-> IF kind \in Guarded THEN "arrived" ELSE "passed"]]
  /\ UNCHANGED <<tables, reset, limiter, history>>

-----------------------------------------------------------------------------
(* RateLimitGuard and checkRateLimit: INCR, and EXPIRE by whoever made the  *)
(* key.  Numbers beyond the limit are not told apart.  Sent twice, EXPIRE   *)
(* changes nothing.                                                         *)

\* The request that starts the window; a slip: the one that exceeds the limit.
FirstBeyondLimit(n) == n > RateLimit
First(n) == n = 1

Incremented == IF counter > RateLimit THEN counter ELSE counter + 1

Incr(c) ==
  /\ At(c, "arrived")
  /\ counter' = Incremented
  /\ To(c, IF First(counter') THEN "expiring"
           ELSE IF counter' > RateLimit THEN "refused" ELSE "passed")
  /\ UNCHANGED <<tables, reset, lapses, history>>

\* The connection breaks before the reply: the client sends INCR again when it is back,
\* and nobody is told of the number that made the key.
ReplyLost(c) ==
  /\ At(c, "arrived")
  /\ counter' = Incremented
  /\ stranded' = IF First(counter') THEN stranded \cup {"resent"} ELSE stranded
  /\ UNCHANGED <<call, tables, reset, lapses, most, raced>>

Expire(c) ==
  /\ At(c, "expiring")
  /\ lapses' = TRUE
  /\ To(c, "passed")
  /\ UNCHANGED <<tables, reset, counter, history>>

\* The window is over and Redis drops the key.
WindowEnds ==
  /\ lapses
  /\ counter' = 0 /\ lapses' = FALSE
  /\ UNCHANGED <<call, tables, reset, history>>

-----------------------------------------------------------------------------
(* LocationsService.create: count, look for the slug, insert.               *)

\* Another request of this kind has read and not yet written, and it is not one of
\* two that the same page sends: a colleague's, or one the page has given up.
Overlaps(c, pcs) ==
  \E d \in Calls \ {c} :
    /\ call[d].kind = call[c].kind /\ call[d].pc \in pcs
    /\ ~(call[c].from = "page" /\ call[d].from = "page")

\* The limit of the plan the tenant has at this moment.
BelowLimit == Cardinality(location) < LimitOf[row]

ReadTenant(c) ==
  /\ Is(c, "location", "passed")
  /\ To(c, IF BelowLimit THEN "counted" ELSE "refused")
  /\ raced' = (raced \/ Overlaps(c, {"counted", "unused"}))
  /\ UNCHANGED <<tables, reset, limiter, most, stranded>>

FindSlug(c) ==
  /\ Is(c, "location", "counted")
  /\ To(c, IF call[c].name \in location THEN "refused" ELSE "unused")
  /\ UNCHANGED <<tables, reset, limiter, history>>

\* The index on (tenantId, slug) refuses a slug that was taken meanwhile.
InsertLocation(c) ==
  /\ Is(c, "location", "unused")
  /\ \/ /\ call[c].name \notin location
        /\ location' = location \cup {call[c].name}
        /\ Writes(c, "ok")
     \/ /\ call[c].name \in location
        /\ To(c, "refused")
        /\ UNCHANGED <<location, version>>
  /\ UNCHANGED <<owner, row, reset, limiter, history>>

-----------------------------------------------------------------------------
(* AuthService.register, and TenantsService.create, which writes the tenant  *)
(* and its owner in two statements.                                         *)

FindEmail(c) ==
  /\ Is(c, "register", "passed")
  /\ To(c, IF call[c].name \in owner THEN "refused" ELSE "unused")
  /\ UNCHANGED <<tables, reset, limiter, history>>

\* User.email is unique.
EmailFree(c) == call[c].name \notin owner
Refuse(c) == To(c, "refused") /\ UNCHANGED <<owner, version>>

\* A slip: the tenant is written first and stays when the address is taken.
InsertTenantThenOwner(c) ==
  /\ Is(c, "register", "unused")
  /\ owner' = owner \cup {call[c].name}
  /\ Writes(c, IF EmailFree(c) THEN "ok" ELSE "refused")
  /\ UNCHANGED <<location, row, reset, limiter, history>>

\* A nested write: the tenant and its owner, or neither.
InsertTenantWithOwner(c) ==
  /\ Is(c, "register", "unused")
  /\ \/ /\ EmailFree(c)
        /\ owner' = owner \cup {call[c].name}
        /\ Writes(c, "ok")
     \/ ~EmailFree(c) /\ Refuse(c)
  /\ UNCHANGED <<location, row, reset, limiter, history>>

\* Without an address and a password the tenant gets no owner.
InsertTenant(c) ==
  /\ Is(c, "tenant", "passed")
  /\ Writes(c, IF call[c].name = None THEN "ok" ELSE "inserted")
  /\ UNCHANGED <<location, owner, row, reset, limiter, history>>

InsertOwner(c) ==
  /\ Is(c, "tenant", "inserted")
  /\ \/ /\ EmailFree(c)
        /\ owner' = owner \cup {call[c].name}
        /\ Writes(c, "ok")
     \/ ~EmailFree(c) /\ Refuse(c)
  /\ UNCHANGED <<location, row, reset, limiter, history>>

-----------------------------------------------------------------------------
(* AuthService.forgotPassword and resetPassword.                            *)

FindUser(c) ==
  /\ Is(c, "forgot", "passed")
  /\ To(c, IF call[c].name \in owner THEN "found" ELSE "ok")
  /\ UNCHANGED <<tables, reset, limiter, history>>

\* A slip: the key is written with the address instead of the token.
KeyOfUser(c, t) == call[c].name
Key(c, t) == t

\* A token of its own.
SetToken(c) ==
  /\ Is(c, "forgot", "found")
  /\ \E t \in Names \ made :
       /\ made' = made \cup {t}
       /\ token' = token \cup {Key(c, t)}
  /\ Writes(c, "stored")
  /\ UNCHANGED <<location, owner, row, spent, limiter, history>>

\* The mail, which may fail; the key stays.
SendMail(c) ==
  /\ Is(c, "forgot", "stored")
  /\ To(c, "ok") \/ To(c, "refused")
  /\ UNCHANGED <<tables, reset, limiter, history>>

TokenLapses(t) ==
  /\ t \in token
  /\ token' = token \ {t}
  /\ UNCHANGED <<call, tables, made, spent, limiter, history>>

GetToken(c) ==
  /\ Is(c, "reset", "passed")
  /\ To(c, IF call[c].name \in token THEN "granted" ELSE "refused")
  /\ raced' = (raced \/ Overlaps(c, {"granted", "updated"}))
  /\ UNCHANGED <<tables, reset, limiter, most, stranded>>

UpdatePassword(c) ==
  /\ Is(c, "reset", "granted")
  /\ spent' = [spent EXCEPT ![call[c].name] = IF @ = 2 THEN 2 ELSE @ + 1]
  /\ Writes(c, "updated")
  /\ UNCHANGED <<location, owner, row, token, made, limiter, history>>

\* A slip: the key is left to lapse.
Forget(t) == token
Without(t) == token \ {t}

DeleteToken(c) ==
  /\ Is(c, "reset", "updated")
  /\ token' = Without(call[c].name)
  /\ To(c, "ok")
  /\ UNCHANGED <<tables, made, spent, limiter, history>>

-----------------------------------------------------------------------------
(* The handlers that look a row up and write one row: plans, and            *)
(* TenantsService.update.  Payment and checkout write none that a page      *)
(* lists.  A batch of vouchers and a suspension write a row, then the audit *)
(* log, and a batch goes on, with no transaction around it.                 *)

Change(c) ==
  /\ call[c].kind \in {"create", "remove"} /\ At(c, "passed")
  /\ Writes(c, "ok")
  /\ UNCHANGED <<location, owner, row, reset, limiter, history>>

WriteRow(c) ==
  /\ call[c].kind \in {"batch", "suspend"} /\ At(c, "passed")
  /\ Writes(c, "written")
  /\ UNCHANGED <<location, owner, row, reset, limiter, history>>

WriteAudit(c) ==
  /\ At(c, "written")
  /\ \/ To(c, "ok")
     \/ call[c].kind = "batch" /\ version < MaxChanges /\ To(c, "passed")
  /\ UNCHANGED <<tables, reset, limiter, history>>

NewRow(value) ==
  /\ row' = value
  /\ most' = IF LimitOf[value] > most THEN LimitOf[value] ELSE most

UpdateTenant(c) ==
  /\ Is(c, "save", "passed")
  /\ NewRow(call[c].name)
  /\ Writes(c, "ok")
  /\ UNCHANGED <<location, owner, reset, limiter, raced, stranded>>

\* One UPDATE by a webhook of Stripe, by a payment, or by the administrator.
ChangePlan(value) ==
  /\ value # row
  /\ NewRow(value)
  /\ UNCHANGED <<call, location, owner, version, reset, limiter, raced, stranded>>

StartPayment(c) ==
  /\ Is(c, "pay", "passed")
  /\ To(c, "ok")
  /\ UNCHANGED <<tables, reset, limiter, history>>

\* Validation, a row that is gone, an upstream that says no, a statement that fails.
Reject(c) ==
  /\ call[c].pc \in {"passed", "counted", "unused", "inserted", "found", "granted", "written"}
  /\ To(c, "refused")
  /\ UNCHANGED <<tables, reset, limiter, history>>

\* The process dies and is started again: handlers end where they stand.
Crash ==
  /\ call' = [c \in Calls |-> IF call[c].pc \in Ended \cup {"idle"} THEN call[c]
                              ELSE IF call[c].from # "page" THEN Idle
                              ELSE [call[c] EXCEPT !.pc = "cut"]]
  /\ stranded' = stranded \cup ({call[c].pc : c \in Calls} \cap {"expiring", "updated"})
  /\ UNCHANGED <<tables, reset, limiter, most, raced>>

\* One await of the handler of c.
Handle(c) ==
  \/ Incr(c) \/ Expire(c)
  \/ ReadTenant(c) \/ FindSlug(c) \/ InsertLocation(c)
  \/ FindEmail(c) \/ InsertTenantWithOwner(c)
  \/ InsertTenant(c) \/ InsertOwner(c)
  \/ FindUser(c) \/ SetToken(c) \/ SendMail(c)
  \/ GetToken(c) \/ UpdatePassword(c) \/ DeleteToken(c)
  \/ Change(c) \/ WriteRow(c) \/ WriteAudit(c) \/ UpdateTenant(c) \/ StartPayment(c)
  \/ Reject(c)

ApiTime ==
  \/ WindowEnds \/ Crash
  \/ \E t \in Names : TokenLapses(t)
  \/ \E c \in Calls : ReplyLost(c)
=============================================================================
