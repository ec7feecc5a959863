----------------------------- MODULE ConsolePages -----------------------------
(***************************************************************************)
(* A browser tab on a page of the console or on one of its forms, composed  *)
(* with the API behind it.  A page that lists something loads it with        *)
(* useAsyncData and loads it again after each of its own changes; loads and  *)
(* changes are answered in any order, or not at all, while colleagues use    *)
(* the same API.  The user may leave the page and come back to it.           *)
(***************************************************************************)
EXTENDS ConsoleApi

CONSTANTS
  Pages,      \* pages the tab may be on
  PlanPages,  \* bound: those during which the tenant's plan changes
  Loads       \* reloads of a page that may be under way together

VARIABLES
  page,       \* the page the tab is on
  left,       \* the tab has been sent elsewhere
  loading,    \* useAsyncData shows its spinner
  failed,     \* useAsyncData has an error
  shown,      \* data: the version listed, None before the first, and the tenant's row in it
  seen,       \* the newest version listed since the page was opened
  load,       \* reloads under way
  busy,       \* buttons that are disabled: of the form, or of the row being saved
  edit,       \* what the administrator has picked for the tenant, or None
  own         \* the newest change the API has acknowledged to this page

view == <<left, loading, failed, shown, seen, load, busy, edit, own>>
vars == <<apiVars, page, view>>

\* useAsyncData is not used by the forms of the signed out.
Forms == {"register", "forgot", "reset"}
Lists == {"plans", "vouchers", "devices", "sessions", "tenants", "billing", "reports"}

ASSUME PagesAssumption == Pages \subseteq Forms \cup Lists /\ Loads # {}

\* What the tab can send from a page, and what others can.
Sendable ==
  [plans |-> {"create", "remove"}, vouchers |-> {"batch"}, sessions |-> {"suspend"},
   devices |-> {"location"}, tenants |-> {"tenant", "save"}, billing |-> {"pay"},
   reports |-> {}, register |-> {"register"}, forgot |-> {"forgot"}, reset |-> {"reset"}]
Elsewhere ==
  [plans |-> {"create", "remove"}, vouchers |-> {"batch"}, sessions |-> {"suspend"},
   devices |-> {"location"}, tenants |-> {"save"}, billing |-> {"create"},
   reports |-> {"location"},
   register |-> {"register"}, forgot |-> {"forgot"}, reset |-> {"reset", "forgot"}]

\* The button that starts a request is disabled by: the form's flag, savingId, or nothing.
Flag(kind) ==
  IF kind = "save" THEN {"save"} ELSE IF kind \in {"remove", "suspend"} THEN {} ELSE {"form"}

NoLoad == [pc |-> "idle", at |-> 0, row |-> None, frees |-> {}]
Asked(frees) == [pc |-> "asked", at |-> 0, row |-> None, frees |-> frees]
Nothing == [at |-> None, row |-> None]

\* A page is mounted: its state is new, and its first load is under way.
FirstLoad == CHOOSE l \in Loads : TRUE
Blank ==
  /\ failed' = FALSE /\ shown' = Nothing /\ seen' = 0
  /\ busy' = {} /\ edit' = None /\ own' = 0
Open ==
  /\ left /\ left' = FALSE
  /\ Blank
  /\ loading' = (page \in Lists)
  /\ load' = [load EXCEPT ![FirstLoad] = IF page \in Lists THEN Asked({}) ELSE NoLoad]
  /\ UNCHANGED <<apiVars, page>>

\* Accounts and mailed links matter where a request reads them; names are alike.
Some == CHOOSE n \in Names : TRUE

Init ==
  /\ page \in Pages
  /\ left = FALSE
  /\ loading = (page \in Lists) /\ failed = FALSE
  /\ shown = Nothing /\ seen = 0
  /\ load = [l \in Loads |-> IF l = FirstLoad /\ page \in Lists THEN Asked({}) ELSE NoLoad]
  /\ busy = {} /\ edit = None /\ own = 0
  /\ call = [c \in Calls |-> Idle]
  /\ location = {} /\ version = 0 /\ row = Some /\ most = LimitOf[row]
  /\ owner \in IF page \in {"register", "forgot"} THEN {{}, {Some}} ELSE {{}}
  /\ made = IF page = "reset" THEN {Some} ELSE {}
  /\ token = made
  /\ spent = [t \in Names |-> 0]
  /\ counter = 0 /\ lapses = FALSE
  /\ raced = FALSE /\ stranded = {}

Sent(c) == call[c].from = "page" /\ call[c].pc # "idle"

\* The handler goes on when nobody waits for it.
GivenUp(c) == IF call[c].pc \in Ended THEN Idle ELSE [call[c] EXCEPT !.from = "else", !.at = 0]

\* The page is unmounted; what it has sent goes on.
Unmounted ==
  /\ ~left /\ left' = TRUE
  /\ Blank
  /\ loading' = FALSE /\ load' = [l \in Loads |-> NoLoad]
  /\ call' = [c \in Calls |-> IF Sent(c) THEN GivenUp(c) ELSE call[c]]
  /\ UNCHANGED <<page, tables, reset, limiter, history>>

\* The user goes elsewhere.
Leave == Unmounted

-----------------------------------------------------------------------------
(* useAsyncData.                                                            *)

Reload(l, frees) ==
  /\ load[l].pc = "idle" /\ l = CHOOSE k \in Loads : load[k].pc = "idle"
  /\ load' = [load EXCEPT ![l] = Asked(frees)]
  /\ loading' = TRUE /\ failed' = FALSE

\* The handler of the list reads the tables; one page lists tenants.
ServeLoad(l) ==
  /\ load[l].pc = "asked"
  /\ load' = [load EXCEPT ![l] = [@ EXCEPT !.pc = "served", !.at = version,
                                           !.row = IF page = "tenants" THEN row ELSE None]]
  /\ UNCHANGED <<apiVars, page, left, loading, failed, shown, seen, busy, edit, own>>

\* Whichever answer comes takes the spinner away, and the handler that awaited the
\* reload runs its finally.
LoadEnds(l) ==
  /\ load' = [load EXCEPT ![l] = NoLoad]
  /\ loading' = FALSE
  /\ busy' = busy \ load[l].frees
  /\ UNCHANGED <<apiVars, page, left, edit, own>>

LoadAnswered(l) ==
  /\ load[l].pc = "served"
  /\ LoadEnds(l)
  /\ shown' = [at |-> load[l].at, row |-> load[l].row]
  /\ seen' = IF load[l].at > seen THEN load[l].at ELSE seen
  /\ UNCHANGED failed

LoadFails(l) ==
  /\ load[l].pc = "asked"
  /\ LoadEnds(l)
  /\ failed' = TRUE
  /\ UNCHANGED <<shown, seen>>

\* The page is drawn: the spinner hides it, and two pages show an error in its place.
Drawn ==
  /\ ~left /\ ~loading
  /\ page \in {"tenants", "billing", "reports"} => ~failed /\ shown.at # None

\* The 30-second timer of the devices page runs under the spinner too; on the
\* billing page it is the button.
Refresh(l) ==
  /\ ~left
  /\ page = "devices" \/ (page = "billing" /\ Drawn)
  /\ Reload(l, {})
  /\ UNCHANGED <<apiVars, page, left, shown, seen, busy, edit, own>>

-----------------------------------------------------------------------------
(* The buttons and forms.                                                   *)

\* A slip: the button stays enabled.
UsableAlways(kind) == TRUE
Usable(kind) == Flag(kind) \cap busy = {}

\* Slugs are alike: one that is used or asked for, or else the next.
Known == Names \cap (location \cup {call[c].name : c \in Calls})
Slugs == Known \cup (IF Names \subseteq Known THEN {} ELSE {CHOOSE n \in Names : n \notin Known})

\* What these requests carry is told apart by nothing.
Unnamed == {"create", "remove", "batch", "suspend", "pay"}

\* A reset key is one the mail names; a forgotten password needs a token left to make.
Fits(kind, name) ==
  /\ name = None => kind \in Unnamed \cup {"tenant"}
  /\ name # None => kind \notin Unnamed
  /\ kind = "reset" => name \in made
  /\ kind = "location" => name \in Slugs
  /\ kind = "forgot" => Cardinality(made) + Cardinality({c \in Calls : call[c].kind = "forgot"})
                          < Cardinality(Names)

\* A select of the tenant's row, also while the row is being saved.
Pick(value) ==
  /\ page = "tenants" /\ Drawn
  /\ edit' = value
  /\ UNCHANGED <<apiVars, page, left, loading, failed, shown, seen, load, busy, own>>

\* Saving sends what was picked, when it differs from what is listed.
Submit(c, kind, name) ==
  /\ Drawn /\ Usable(kind) /\ Fits(kind, name)
  /\ kind = "save" => edit # None /\ name = edit /\ edit # shown.row
  /\ Receive(c, kind, name, "page")
  /\ busy' = busy \cup Flag(kind)
  /\ UNCHANGED <<page, left, loading, failed, shown, seen, load, edit, own>>

\* Colleagues, Stripe for the licence, and others at the same forms.
SubmitElsewhere(c, kind, name) ==
  /\ Fits(kind, name)
  /\ Receive(c, kind, name, "else")
  /\ UNCHANGED <<page, view>>

\* The plan counts where locations are made; no page that makes them lists it.
PlanChanges(value) ==
  /\ page \in PlanPages
  /\ ChangePlan(value)
  /\ UNCHANGED <<page, view>>

Answered(c) ==
  /\ Sent(c)
  /\ call' = [call EXCEPT ![c] = Idle]
  /\ UNCHANGED <<page, tables, reset, limiter, history>>

\* Slips: the list is not loaded again; the flag is put back on success only.
LoadsAgainNever(kind) == FALSE
LoadsAgain(kind) == page \in Lists /\ kind # "pay"
FreedNever(kind) == {}
Freed(kind) == Flag(kind)

\* A change is acknowledged: the pick it saved is dropped, with what was picked
\* since, and the list is loaded before the button comes back.
Acknowledged(c) ==
  /\ Answered(c) /\ At(c, "ok") /\ LoadsAgain(call[c].kind)
  /\ \E l \in Loads : Reload(l, Flag(call[c].kind))
  /\ own' = IF call[c].at > own THEN call[c].at ELSE own
  /\ edit' = IF call[c].kind = "save" THEN None ELSE edit
  /\ UNCHANGED <<left, shown, seen, busy>>

\* A message in place of the form, or an error about Khalti's missing script.
Done(c) ==
  /\ Answered(c) /\ At(c, "ok") /\ ~LoadsAgain(call[c].kind)
  /\ call[c].kind \notin {"register", "reset"}
  /\ busy' = busy \ Flag(call[c].kind)
  /\ own' = IF call[c].at > own THEN call[c].at ELSE own
  /\ UNCHANGED <<left, loading, failed, shown, seen, load, edit>>

\* To the dashboard, the login page, or a page of Stripe or eSewa.
Away(c) ==
  /\ Sent(c) /\ At(c, "ok") /\ call[c].kind \in {"register", "reset", "pay"}
  /\ Unmounted

Refused(c) ==
  /\ Answered(c) /\ call[c].pc \in {"refused", "cut"}
  /\ busy' = busy \ Freed(call[c].kind)
  /\ UNCHANGED <<left, loading, failed, shown, seen, load, edit, own>>

\* The connection is lost: an error for the page, nothing for the handler.
Disconnected(c) ==
  /\ Sent(c)
  /\ call' = [call EXCEPT ![c] = GivenUp(c)]
  /\ busy' = busy \ Freed(call[c].kind)
  /\ UNCHANGED <<tables, reset, limiter, history>>
  /\ UNCHANGED <<page, left, loading, failed, shown, seen, load, edit, own>>

Settled(c) == Acknowledged(c) \/ Done(c) \/ Away(c) \/ Refused(c)
Progress(c) == Settled(c) \/ (Handle(c) /\ UNCHANGED <<page, view>>)

Next ==
  \/ Open \/ Leave
  \/ \E l \in Loads : ServeLoad(l) \/ LoadAnswered(l) \/ LoadFails(l) \/ Refresh(l)
  \/ \E value \in Names : Pick(value)
  \/ \E c \in Calls, name \in Names \cup {None} :
       \/ \E kind \in Sendable[page] : Submit(c, kind, name)
       \/ \E kind \in Elsewhere[page] : SubmitElsewhere(c, kind, name)
  \/ \E c \in Calls : Progress(c) \/ Disconnected(c)
  \/ ApiTime /\ UNCHANGED <<page, view>>
  \/ \E value \in Names : PlanChanges(value)

Spec == Init /\ [][Next]_vars

\* Handlers go on, requests are answered or fail, and the tab takes what it is given;
\* its two loads under way at a time are a bound, so it takes an answer that it could
\* take again and again.
Fairness ==
  /\ \A c \in Calls : SF_vars(Progress(c))
  /\ \A l \in Loads : WF_vars(ServeLoad(l) \/ LoadAnswered(l) \/ LoadFails(l))

FairSpec == Spec /\ Fairness

-----------------------------------------------------------------------------
(* Properties.                                                              *)

Requests ==
  [kind : Kinds, name : Names \cup {None}, from : {"page", "else"},
   pc : {"arrived", "expiring", "passed", "counted", "unused", "inserted", "found", "stored",
         "granted", "updated", "written"} \cup Ended,
   at : Nat]
Reloads ==
  [pc : {"idle", "asked", "served"}, at : Nat, row : Names \cup {None},
   frees : SUBSET {"form", "save"}]

\* Every variable holds a value of its type; the page's own newest change is one the
\* tables have, and a request that only read is not said to have written
\* (useAsyncData.ts:6-8, TenantsPage.tsx:31-44).
TypeOK ==
  /\ call \in [Calls -> Requests \cup {Idle}]
  /\ {location, owner, made} \subseteq SUBSET Names /\ row \in Names
  /\ version \in Nat /\ {own, seen} \subseteq 0..version
  /\ \A c \in Calls : call[c].at \in 0..version
  /\ token \subseteq made /\ spent \in [Names -> 0..2]
  /\ counter \in 0..(RateLimit + 1)
  /\ {lapses, raced, left, loading, failed} \subseteq BOOLEAN
  /\ most \in Nat /\ stranded \subseteq {"expiring", "updated", "resent"}
  /\ page \in Pages
  /\ shown.at \in (0..version) \cup {None} /\ shown.row \in Names \cup {None}
  /\ load \in [Loads -> Reloads] /\ \A l \in Loads : load[l].at \in 0..version
  /\ busy \subseteq {"form", "save"}
  /\ edit \in Names \cup {None}

\* A tenant has never more locations than the best of the plans it has had allows, though the
\* count is taken two awaits before the insert and the plan may change at any time, unless
\* two creations overlapped that one page does not start together: its button is
\* disabled until the answer (locations.service.ts:36-57, DevicesPage.tsx:33-46).
LimitHolds == Cardinality(location) <= most \/ raced

\* A request the API refuses has changed nothing, whatever it found out only when it wrote,
\* except in the four handlers that write more than once outside a transaction:
\* they may be refused half way (auth.service.ts:77-123, tenants.service.ts:30-54,
\* locations.service.ts:57, vouchers.service.ts:108-146, sessions.service.ts:32-44).
Piecemeal == {"tenant", "batch", "suspend", "forgot"}
RefusedLeavesNothing ==
  \A c \in Calls : At(c, "refused") /\ call[c].kind \notin Piecemeal => call[c].at = 0

\* A reset link sets a password once, unless two requests with it overlap or the
\* process dies before it has deleted the key (auth.service.ts:129-144).
LinkWorksOnce == (\E t \in Names : spent[t] = 2) => raced \/ "updated" \in stranded

\* A rate-limit key that nobody is about to give a time to live has one, whoever asks while
\* it is made.  Two things strand it, and then the route is refused for ever: the process
\* dies between the two commands, or the INCR that makes the key is sent again because its
\* reply was lost (redis.service.ts:10-14, 68-74).
LimitLapses ==
  counter # 0 =>
    lapses \/ {"expiring", "resent"} \cap stranded # {} \/ \E c \in Calls : At(c, "expiring")

\* A page that has come to rest has listed its own acknowledged changes.  It may show
\* an older list since, when an answer was overtaken by that of a later load
\* (useAsyncData.ts:10-21, PlansPage.tsx:31-53, SessionsPage.tsx:22-30).
AtRest ==
  /\ page \in Lists /\ ~left /\ ~loading /\ ~failed
  /\ \A l \in Loads : load[l].pc = "idle"
  /\ \A c \in Calls : ~Sent(c)
ShowsOwnChanges == AtRest => shown.at # None /\ seen >= own

\* The spinner goes and the button comes back, or the tab is elsewhere, whatever
\* becomes of the request (useAsyncData.ts:18-20, PlansPage.tsx:44-46,
\* BillingPage.tsx:42-45).
PageComesBack ==
  /\ loading ~> ~loading \/ left
  /\ \A flag \in {"form", "save"} : flag \in busy ~> flag \notin busy \/ left
=============================================================================
