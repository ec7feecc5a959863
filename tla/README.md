# Formal models of Sub-Based Internet

Sub-Based Internet sells internet access at venues: a tenant (the venue's owner)
pays for a licence, issues vouchers for Wi-Fi plans, a guest redeems a voucher or a
texted code on the captive portal, and an agent on the venue's router lets the guest's
device through for as long as the session lasts. This directory holds TLA+ models of
the parts of the program that keep state and run concurrently, the TLC runs that check
them, and proofs of their safety properties for every value of the constants.

Everything runs from this directory:

    tlc -workers 2 -config VoucherRaces.cfg MCVoucherRedemption
    tlapm VoucherRedemptionProofs.tla

Source paths below are relative to `src/`; `api/` stands for `apps/api/src/`, `web/`
for `apps/web/src/`, `agent/` for `gateway/agent/src/`.

## 1. The system

| Part | State it keeps | Operations | Talks to |
|---|---|---|---|
| Vouchers (`api/modules/vouchers`) | table Voucher | createBatch, redeem | Redis lock, WifiSession, AuditLog, licence |
| Maintenance job (`api/modules/jobs`) | none of its own | expireStaleRecords every 60 s and at startup | Voucher, WifiSession |
| Wi-Fi plans (`api/modules/wifi-plans`) | table WifiPlan | create, update, remove (cascades to vouchers) | Voucher, WifiSession |
| Sessions (`api/modules/sessions`) | table WifiSession | suspend | AuditLog |
| Gateway API (`api/modules/gateway`) | Location.lastHeartbeatAt, dataUsedMb | heartbeat, getSessions, reportUsage | WifiSession, AuditLog, agent |
| Gateway agent (`agent/utils`) | enforced map, usage counters, offline cache | poll, sync, usage report, shutdown | gateway API, driver |
| Drivers and scripts (`agent/drivers`, `agent/script`) | iptables rules, tc classes | allow, block, shape, read | the router |
| Licence (`api/common/license`) | Tenant.licenseStatus (read) | checkTenant | vouchers, portal, gateway |
| Stripe billing (`api/modules/billing`) | table Tenant | checkout, portal, five webhooks | Stripe |
| Khalti, eSewa (`api/modules/nepal-payments`) | table Payment, Tenant | initiate, verify, callback | Khalti, eSewa |
| Tenants (`api/modules/tenants`) | table Tenant | create, update | — |
| SMS access (`api/modules/portal-auth`) | one-time codes in Redis | sendOtp, verifyOtp | Redis, SMS provider, WifiSession |
| Portal page (`web/components/portal`) | step of the page, phone form | voucher, SMS, back, retry | vouchers, SMS access |
| API client (`web/lib/api-client.ts`, `web/hooks/useAuth.tsx`) | tokens in localStorage, refreshInFlight | fetch, refresh, forced logout, login, logout | authentication API |
| Authentication (`api/modules/auth`) | table User, reset tokens in Redis | login, refresh, register, forgot, reset | Redis, mail, Tenant |
| Locations (`api/modules/locations`) | table Location | create (plan limit), update, regenerateGatewayKey | AuditLog |
| Rate limit (`api/common/guards`, `api/common/redis`) | counters in Redis | checkRateLimit | Redis |
| Dashboard and admin pages (`web/components`, `web/hooks/useAsyncData.ts`) | the list shown, spinner, error, the flag of a form, the row being saved | load, reload, submit, pick, save | all of the API |
| Reports, health, deployment | none | reads, scripts | — |

What makes it hard:

* **Handlers interleave at every `await`.** A NestJS handler reads a row, awaits, and
  writes what it decided on the old value. Only single statements and `$transaction`
  are atomic. Voucher redemption adds a Redis lock that lapses after 30 s and is
  released by whoever finishes, so it cannot be what keeps redemption single.
* **Two copies of the truth.** The router's rules, the agent's map and the cloud's rows
  are changed one after the other, with a script or a request in between that may fail.
* **Crashes.** The API may die between two statements (lock left behind, audit entry
  missing); the agent dies with its map while the router keeps its rules.
* **Delivery.** Stripe repeats and reorders events; usage reports and portal answers get
  lost; answers arrive after the page has moved on.
* **Time.** Deadlines pass between a check and the write that relies on it; the job
  compares with a clock it read earlier.
* **Liveness.** What is over must be taken down in the end, what was paid for must come
  up, a spinner must stop.

What correctness means, part by part: a voucher opens one session, and tables and
answers agree (vouchers, job); usage adds up, caps hold, what is suspended stays so and
is audited before anybody is told (sessions, gateway API); the router lets through exactly
whom the cloud lists (agent); the licence is what Stripe said last (billing); no dead code
opens a session
and the page never claims a connection that is not there (SMS access, portal); one
refresh at a time, signed out means signed out (API client); what is refused is not
done, a limit is kept, a reset link works once (locations, authentication, tenants); a
page shows the changes made on it and becomes usable again (pages).

`PROJECT.json` lists every component with its status, every hazard at its line with the
properties that watch it, the definition-to-source map, and the findings.

## 2. Modules and how they correspond to the code

**VoucherPass** is the abstract specification: what a voucher is worth to its holder
(`unissued`, `valid`, `used`, `lapsed`, `withdrawn`) and whom it has admitted. No lock,
no tables, no calls.

**CloudSessions** is the abstract specification of a Wi-Fi session as a venue sees it: it
begins once, already over if the redemption was slow, may be suspended while it runs, and
once its time is over it is over. It is written once and used from both sides:
VoucherRedemption and SessionLedger implement it, and GatewayAgent's cloud consists of its
actions.

**VenueAccess** is the abstract specification of the router: the venue learns a list of
sessions that have begun (or loses it), serves a device for a session of that list, which
may open it, give it the session's speed, or both, and shuts a device out only when no
session of the list still runs for it. When it closes it takes rules down while it may
still serve, and then starts again. No polls, scripts, maps or processes.

**VoucherRedemption** is the cloud side of a voucher. `voucher`, `session`,
`redeemedLog` and `createdLog` are the tables; `req[r]` is one call of `redeem`, whose
`pc` stands at the await it has reached: `FindVoucher` (the `findUnique` with the plan,
kept as a snapshot `seen`), `CheckLicense` (licence read afresh, status and expiry
judged on the snapshot), `AcquireLock` (`SET NX EX`; ioredis may retry a command that
did get through and then find its own key), `CommitRedemption` /
`RefuseRedemption` / `AbortRedemption` (the transaction, whose commit may be reported
as an error), `ReleaseLock` (`finally`). `batch` is `createBatch`, a loop of insert and
audit without transaction. `job[j]` is a run of `expireStaleRecords`: `now` is read
once, its two statements run in any order. The operator changes or deletes the plan and
the licence comes and goes; `Crash` ends every handler and leaves tables and lock;
`LockLapse` may happen at any time, as a stalled process may be of any length.
`KeepsPromise` says that all this implements `VoucherPass` under the mapping `PassOf`, and
`RedemptionKeepsSessions` that the session table implements `CloudSessions` under
`PhaseOf`: an EXPIRED row, or an ACTIVE one whose time is over and which the job has not yet
reached, is a session that is over (`getSessions` compares `expiresAt` itself).

**SessionLedger** is the row of a running session: reports (find, write, audit),
suspensions (find, write, audit), what they answer (`Answer`), the job, changes of the plan's
cap, a statement that is rejected (`Fail`: the caller has an error, what was written stays),
crashes. `credited`, `raced`, `recapped`, `told`, `cut` are history: what reports added, which
sessions had two reports under way at once, whose cap changed, whose suspension somebody was
told of, and where a call ended between a suspension and its entry. `LedgerKeepsSessions`
says that the rows
implement `CloudSessions`; here a session may be suspended too.

**GatewayAgent** is `pollOnce` and `SessionManager.sync` at the grain of awaits.
`thread` names the poll whose continuation runs — the agent is one JavaScript thread, so
between two awaits nothing else happens. A script is started (`Await`), takes effect and
ends (`RunScript`), and its awaiting poll goes on (`Resume`). What is on the router is kept
as the scripts write it: `open`, the devices with an ACCEPT rule, and `rate`, the class a
device is put in, as `allow-mac.sh` adds the one and then the other without `set -e`. A script
does all of its work (`"done"`), any part of it and exits 0 (`"silent"`), none and exits
non-zero (`"refused"`), or any part of it until the timeout kills it (`"cut"`). `spoiled` is
history: the devices whose last script did less than what the map notes of it. The catch
block enforces the cache (`Caught`), an exception out of `start` ends the process
(`Thrown`), `Crash` empties the maps and leaves the rules. `Shutdown` is SIGTERM, which only
clears the timers; `Flush` and `Delete` are the two halves of `teardown.sh`, and `Exit` the
`process.exit` after it. A poll under way goes on between them, so a script may put a rule
back after the flush, and the chain that has it is then not deleted (`stage = "kept"`). The
cloud is an environment: CloudSessions, a licence and lost requests. `AccessFollowsList`
says that the agent implements `VenueAccess` with the offline cache as the venue's list.

**UsageMetering** is how bytes become megabytes charged: the tc class, the agent's
counters, the drain, the report. `sync` runs between the awaits of a collection, which has
one for every session of the map (`Collect`, `ReadUsage`) and none when the map is empty
(`CollectNothing`).

**Billing** is the Tenant row under the five webhook handlers, payments and the
administrator. `stripe` is what Stripe has, `log` the events it made, in order;
`HandleWebhook(i)` may handle any event not yet acknowledged, again if the answer was
lost, in any order, or never. History: `told` is the event of a subscription that was handled
last, `stale` says that an invoice which belongs to another event has set the licence since,
`manual` that a payment or the administrator has written the row, `overlapped` that a
subscription was started while another ran. A payment has the reference it was completed
with (`ref`); `verifying` holds the verifications that await Khalti, each with its token.

**DashboardSession** is `fetchJson`, the shared `refreshInFlight`, the one attempt of
`fetchBlob`, forced logout, login, registration and logout in tabs that share
localStorage. `signing` does not say which form was sent: that shows in the action that
takes the answer. `Register` stores the tokens and leaves `user` as it is, as the form
does. `Quiet` says that what a settled promise
wakes runs before the tab's next event.

**GuestPortal** composes the portal page, the SMS access service and the voucher
service. The voucher side is taken from `VoucherPass` (`Pass!Use`), which
VoucherRedemption implements. A request goes on when its page moves on; its answer is
handled at whatever step the page then shows.

**ConsoleApi** is the API behind the owner's and the administrator's forms, await by
await: `RateLimitGuard` (`Incr`, `Expire`: two commands; `ReplyLost`: ioredis, with
`maxRetriesPerRequest: null`, sends an INCR again whose reply was lost),
`LocationsService.create` (`ReadTenant` with the count and the limit of the plan the tenant
has at that moment, `FindSlug`, `InsertLocation`), `register` (`FindEmail`,
`InsertTenantWithOwner`, one nested write), `TenantsService.create` (`InsertTenant`,
`InsertOwner`, two writes), `forgotPassword` (`SetToken`, then `SendMail`, which may fail and
leave the key) and `resetPassword` (`GetToken`, `UpdatePassword`, `DeleteToken`), `update` of a
tenant, `createBatch` and `suspend` (`WriteRow`, `WriteAudit`, in a loop for the batch, with no
transaction), and the handlers that look up and write one row (`Change`). `Reject` is any
statement that fails. `ChangePlan` is a plan changed by Stripe, a payment or the administrator
while all this goes on. `version` counts writes and is what pages list. `raced`
records that two check-and-write handlers overlapped which one page does not start
together, `stranded` between which two commands a process died or a command was sent twice,
`most` the highest limit of the plans the tenant has had.

**ConsolePages** extends it with a browser tab: `useAsyncData` (`loading`, `failed`,
`shown`, up to two loads under way, answered in any order), the buttons (`busy`: a form's
own flag, or `savingId` of the tenants page), what the administrator has picked (`edit`),
and requests of colleagues, or of the same user in a page given up, at the same API. What
a page can send is `Sendable`; what brings a button back and what loads again after an
answer differ from page to page and are operators of the module.

**VoucherRedemptionProofs, SessionLedgerProofs, GatewayAgentProofs, BillingProofs,
DashboardSessionProofs, GuestPortalProofs, ConsoleProofs** hold the theorems about the
module each extends (ConsoleProofs: both Console modules); section 5 gives the arguments.

`MCxxx` modules give the constants TLC needs (symmetry sets, functions, the limits of plans). Operators
marked "a slip" or "variant" are not part of a specification: each is a plausible bug in
the definition below it, and a property that does not notice its slip would be worthless.

## 3. Runs

All constants below are per run; state counts are distinct states.

| Run | Instance | Properties | States |
|---|---|---|---|
| VoucherRaces | 1 voucher, 2 calls, 2 devices, 1 job, clock 0..2, 1 crash | TypeOK, OneSessionPerVoucher, RedemptionIsRecorded, AnsweredTruthfully, ExpiredOnlyAfterDeadline, KeepsPromise, RedemptionKeepsSessions | 902,760 |
| VoucherLiveness | as above with 1 call and 1 device, no symmetry | StaleRecordsAreExpired | 42,552 |
| Gateway | 3 sessions on 2 devices, 2 speeds, cloud lost at times, scripts work | TypeOK, SyncMakesRouterAgree, OverEventuallyBlocked, PlanSpeedApplies | 78,912 |
| GatewayFaults | 2 sessions on 1 device, FAIL_FAST, scripts end in all four ways, 1 shutdown or restart | PaidEventuallyOnline, SyncServesListed, AccessFollowsList | 231,866 |
| GatewayRestart (violated) | 2 sessions on 1 device, 1 restart | OverEventuallyBlocked | — |
| Billing | 2 subscriptions, 2 plans, 1 payment with 2 tokens, 5 events | TypeOK, LicenseFollowsStripe, PaidIsNeverCutOff, VerifiedPaymentStays | 1,213,212 |
| BillingUpgrade (violated) | 2 subscriptions, 5 events | UpgradeKeepsLicense | — |
| SessionLedger | 1 session, 3 calls, reports of 1 and 2 MB, caps 2 and 3, 1 crash | TypeOK, CapIsEnforced, UsageIsWhatWasReported, SuspensionIsAudited, LedgerKeepsSessions | 688,194 |
| UsageMetering (violated) | 1 session, 3 units of traffic, 3 reports | ChargedForItsTraffic | — |
| DashboardSession | 2 tabs, 2 calls, 2 token pairs | TypeOK, EveryCallSettles, SingleFlight, RetryUsesAnotherToken, SignedOutStaysOut | 157,600 |
| GuestPortal | 2 pages, 1 phone number, 2 requests, 1 voucher, 2 codes | TypeOK, DeadCodeOpensNothing, ConnectedMeansSession, LoadingEnds | 378,300 |
| ConsolePages | 10 pages, 2 requests, 2 names, 2 loads, plans for 1 and 2 locations, 2 requests a window, 2 writes | TypeOK, LimitHolds, RefusedLeavesNothing, LinkWorksOnce, LimitLapses, ShowsOwnChanges, PageComesBack | 179,133 |

Why these bounds. The races are between two callers over one object: two redemptions of
one voucher, two reports and a suspension of one session, two pages on one phone number,
two calls of one tab, two subscriptions of one tenant, two requests with one reset link,
two loads of one page. A third adds no new kind of race for these properties, and the
theorems of section 5 cover any number. A clock of three values has a "before", "at" and
"after" of a deadline. Two
codes give an old one and its replacement; two token pairs give a pair and the one it is
refreshed to. Five events hold a checkout (two events) with a failed renewal and a
cancellation, or two checkouts and an end. On the pages, two names give a slug, an
address or a reset link that is taken and one that is free, plans for one and for two
locations and a limit of two requests are met by two calls, and two writes are one of the
page and one of a colleague; the module takes no request once `MaxChanges` writes are made, but
finishes those it has. `PlanPages` bounds on which page the plan changes in the run: the reports
page, where a colleague makes locations and the tab makes no changes of its own, since changes
of plan beside every other page multiply the states and meet nothing there that decides on the
plan. The theorem about the limit holds for every `PlanPages`. In GatewayFaults one end of the
process (`MaxRestarts = 1`) is a crash or a shutdown at any point; the theorems about
GatewayAgent allow any number. Bounds are named constants (`MaxTime`,
`MaxCrashes`, `MaxUsed`, `MaxEvents`, `MaxRestarts`, `MaxTraffic`, `MaxReports`,
`MaxCodes`, `MaxIssued`, `MaxChanges`, `PlanPages`) and appear only in guards.
GatewayAgent's `Polls` has one member: the
timer can start a second poll, which the module allows (see section 6).

Symmetry is used in VoucherRaces, the Billing runs and SessionLedger, where only safety
is checked.

Deadlock is checked in every run. None of the models stops: operators, time, licences or
Stripe can always do something.

### Fairness

* VoucherLiveness: the job is registered as a repeating BullMQ job and runs at startup,
  and a statement that was sent returns. Nothing is assumed of guests, operators or locks:
  a lock may stay as long as it likes, the job does not take it.
* Gateway*: the interval keeps firing (weak), the thread runs continuations that are
  ready (strong, because other polls take the thread in turn), and of the requests and
  scripts that are tried again and again some succeed (strong). `Exit` is weakly fair: the
  15-second timeout of `runScript` ends the wait for teardown. The cloud need not stop
  changing, and no guest needs to do anything.
* DashboardSession: every request is answered or fails; strong, because a tab handles an
  answer only between other events.
* GuestPortal: a voucher request is answered, if only by an error (`fetch` rejects when
  the connection is gone), and the page gets the answer.
* ConsolePages: a handler goes on and its answer, or an error, reaches the page, and so
  does that of a load. Strong for requests: an answer that calls for a reload waits for one
  of the two loads, and that there are two is the model's bound. The user need do nothing.

## 4. What the runs found

Three statements of the documentation or plain purposes of the code do not hold.

1. *GatewayRestart.* The agent blocks only MACs in its in-memory map
   (`agent/utils/session-manager.ts:9,59`) and `init-iptables.sh` keeps the rules it
   finds. A guest whose session ends while the agent is down keeps the access for ever:
   `output/architecture/openwrt-venue-pilot.md:222`, "access blocked on next poll".
2. *UsageMetering.* `collectUsageFromDriver` adds the reading of `tc`, a running total,
   to the counter at every report (`agent/utils/session-manager.ts:47`), so the same
   traffic is charged again and caps are reached early.
3. *BillingUpgrade.* An owner who upgrades by a second checkout loses the licence when
   the first subscription is cancelled, as the row follows the last event of either
   (`api/modules/billing/billing.service.ts:205`).

Six more places where the code allows what a reader may not expect. The models take each of
these steps, and the comment of the property next to it says what is left after it:

* *Late webhooks.* `output/architecture/stripe-live-setup.md:167` says of double processing
  "Idempotent updates — safe to retry". Each handler is idempotent: an event handled twice in
  a row changes nothing more. But handlers write what the event says and not what Stripe says
  now, so an old event that is handled again after a newer one puts the old plan and
  licence back, until the newest is handled once more or Stripe sends another.
  `LicenseFollowsStripe` starts from the newest event being handled (`ToldNewest`), in
  whatever order and however often the others were, and ends where an older one is handled.
* *Two verifications of one payment.* The second to end replaces the reference of the first
  (`api/modules/nepal-payments/nepal-payments.service.ts:149`). `VerifiedPaymentStays` allows
  that for a verification that had begun before, and nothing else.
* *Suspensions without an entry.* `suspend` and `reportUsage` write the status and then the
  audit log. When the second statement fails or the process dies, the session stays suspended
  with no entry. `SuspensionIsAudited` has these calls in `cut`; whoever was answered
  "suspended" can rely on it.
* *Half-done requests.* Four handlers write more than once outside a transaction and may answer
  an error with part of it written: a tenant without an owner, a batch cut short, a suspension
  without an entry, a reset key without a mail (`Piecemeal`).
* *A rate limit for ever.* An INCR that is sent again after its reply was lost answers 2, and
  nobody sets the time to live (`api/common/redis/redis.service.ts:12,69`); the death of the
  process between the two commands does the same (`stranded`).
* *More locations than the plan.* After a downgrade, or when two creations overlap, which also
  resets do (`raced`): `LimitHolds` is about the best plan the tenant has had, and `LinkWorksOnce`
  and it leave out the overlap itself.

## 5. Theorems

Each holds for every value of the constants that meets the assumption of its module
(`RedemptionAssumption`, `LedgerAssumption`, `AgentAssumption`, `BillingAssumption`,
`SessionAssumption`, `PortalAssumption`, `ConsoleAssumption` with `PagesAssumption`): bounds
are naturals, `None` is none of the named things, the maps of the agent have their types,
calls and names of the console are finite and a rate limit is positive. `Spec` has no
fairness there; none is needed for safety.

**Vouchers.** `OneSessionPerVoucher` and `RedemptionIsRecorded` are not inductive: they say
nothing of calls under way or of audit rows whose plan was deleted. `RedemptionInv` adds
that every audit row names a session that exists (`LogNamesSessions`), every session
that points at a voucher has its row and a REDEEMED voucher (`SessionsAreLogged`), a
voucher has one row at most (`OneRowPerVoucher`) and none when it was never redeemed
(`UnusedIsUnlogged`), a REDEEMED voucher has its session (`RedeemedIsBound`), and a call
before its transaction has opened no session (`NoSessionBeforeCommit`, which is what
makes the inserted row fresh). The commit is the one step that matters: its guard, the
conditional update, says the voucher is ACTIVE, hence unlogged, hence unbound. The lock
occurs nowhere in the argument. From `RedemptionInv` follow `OneSessionPerVoucherTheorem`
and `RedemptionIsRecordedTheorem`; `StatusIsFinalTheorem` follows from the types and the
two guards; `KeepsPromiseTheorem` maps every step to a step of VoucherPass or a stutter,
and needs `UnusedIsUnlogged` to show that the set of admitted devices is a singleton.
`AnsweredTruthfullyTheorem` rests on what a call that has its answer knows
(`Truthful`) and on the tables only growing (`TablesGrow`): a truth once told stays one.
`ExpiredOnlyAfterDeadlineTheorem` needs that a run's `now` is never ahead of the clock
(`JobsAreLate`). `RedemptionIsCloud` is the second refinement: a commit begins a session,
fresh by `NoSessionBeforeCommit`; ticks and the job can only end sessions, any number at
once (`SomeEnd`); a deleted plan changes no phase.

**Ledger.** What a report will write depends on what it read, so `UsageInv` relates the
reports under way to the row: what was read is at most what was credited and, unless two
reports overlapped or the cap changed, still what the row says (`ReadsHold`); at most
one report is under way unless the session is marked (`AloneUnlessRaced`). From it
follow `UsageTheorem` and `CapTheorem` — the cap holds even when reports overlap,
because each compares what it writes. `NeverReactivatedTheorem` needs the types only.
`SuspensionIsAuditedTheorem` rests on where a call stands: one that is to answer has its
session suspended and logged, one that is to audit has it suspended, and a late report may
write SUSPENDED but never ACTIVE, so what was told stays true. `LedgerIsCloud` needs that a row is
EXPIRED only when it is due (`ExpiredIsDue`): otherwise suspending an expired row, which
the code does, would bring a session back as suspended before its time.

**Agent.** Three theorems, each with the hypotheses it needs and no more.

*Any number of overlapping polls, any outcome of scripts, any restarts:* `AgentTypeCorrect`
and `OnlyBuyersAreOnline`. `SoldInv` follows a session on its way to the router: what the
cloud offers has begun, and so has what is cached, listed by a poll or named by a script
under way, which is of that session's MAC; and so have the sessions of the rules such a
script leaves, whole or half done. Since nothing that began is ever unbegun
(`CloudFacts`), a stale list is still a list of buyers.

*One poll at a time (`Polls = {p}`), any outcome of scripts, any restarts:*
`AgentFollowsList`, the refinement of VenueAccess. `FollowInv` says that while a poll syncs,
its list is part of the cache, and a MAC it is to block has no session there that still
runs; a script under way is of the one or the other, and no rule is on a chain or a qdisc
that teardown has deleted. So the step in which a script takes effect, wholly or in part, is
`Serve` or `ShutOut`, a list that arrives or is lost with the process is `Learn`, SIGTERM is
`Close`, the two halves of teardown are `TakeDown`, and every other step of the agent is a
stutter. With two polls the statement is false: the second poll replaces the cache while the
first still acts on its own list (`agent/utils/agent.ts:38`); TLC shows it when `Polls` has
two members.

*What a sync leaves behind, one poll at a time (`LoneAgent(p)`), with or without
GATEWAY_FAIL_FAST:* `RouterIs` says what the router has for the MAC of the script under way,
before and after it ends, and that every other MAC that is not spoiled is `AsNoted`: a MAC in
the map has the rule the map says, and one that is not has no rule, unless an earlier
process left one. `SyncIs` says that what is cached and not yet enforced is still on the
list to be handled, and what is enforced and not cached is still to be blocked. When list
and block are empty, router and cache agree, spoiled rules aside. With restarts the invariant
still gives `ListedAreServed`, that nobody on the list is offline when a sync ends, unless the
map has an entry for a rule that a script spoiled (`Mistaken`: no sync repairs it, and that
is the code); that nobody else is online (`RouterAgrees`, `RulesAreKnown`) needs a process
that lives on (`MaxRestarts = 0`), and GatewayRestart shows why. The cloud may change at every
step: the cache is what is compared.

*Composition.* The agent's theorems assume of the cloud that it behaves as CloudSessions;
`RedemptionIsCloud` and `LedgerIsCloud` discharge that for the tables the cloud really has.
VenueAccess over CloudSessions is thus what the system promises end to end: a device is let
through only for a session that was opened by one voucher (`OneSessionPerVoucher`) and was
on the list when the cloud was last heard of.

**Billing.** The row depends on the last event handled, the property on Stripe, and between
them lies the log. `LogShape` says in which patterns Stripe appends (a paid invoice and
its checkout, a change and its invoice), `LogIsCurrent` that without overlap the end of the
log says what the current subscription is, and `RowFollowsLog` that the row says what the event
`told` said: its subscription always, its plan unless somebody wrote the row (`manual`), its
licence unless an invoice of another event did too (`stale`). Nothing is assumed of the order:
when `told` is the newest event of the log (`ToldNewest`), the two meet, and `LicenseFollows`
holds whatever was handled before. `PaidIsKept` needs the last part of `RowFollowsLog`, that
only the event of an end makes a tenant EXPIRED, and that such an event is in the log only when
the subscription has ended. `VerifiedIsKept` needs that a payment which awaits Khalti is a
Khalti payment (`PaymentsKnown`): who asks writes, when confirmed, the plan that is there
already and its own token, and when refused, nothing.

**API client.** `FlightKnown` says that the call a tab's promise belongs to is asking and
waits for itself, so a second one asking would be the same (`OneRefreshPerTab`).
`TokensAdvance` says that pairs are numbered as issued and that a call which goes out again
finds a newer one than it was refused with, or none (`RetriesAdvance`). `SignOutHolds`
follows from the first: only a refresh in flight or a sign-in stores tokens.

**Portal.** `CodesAlive` says that what Redis holds is not dead and belongs to one number,
also a code that a call has matched and not yet deleted, so that the delete of an old
call never hits the code of another number; `PhonesKnown` that a request names its number;
`AnswersTrue` that an "ok" under
way has its session. Hence `DeadCodesAreDead` and `ConnectedIsTrue`.

**Console.** One argument carries `LimitOfLocations`, `ResetLinkWorksOnce` and
`PagesShowOwnChanges`: a disabled button has exactly one holder, a request that awaits its
answer or the reload that follows it (`Buttons`). So a page never has two creations, or
two resets, between check and write; those of others are counted in `raced`. On that rest
`OneCounts` (one creation at most is between its count and its insert, and there is room for it
under the best plan so far), `OneUses` (a token that has
set a password has no key, or one about to go), and `Listing` (what an open page has not
listed, a load under way will, unless it shows an error). The API's steps come in three
kinds, shown once (`Quiet`, `Dies`, `Handle`), and each invariant is preserved by kinds
rather than by its dozens of actions. `Truthful` (a request that has written is about to say so,
unless it is `Piecemeal`) gives `RefusalsLeaveNothing`; `RateLimitLapses`
is its own invariant, as every step that makes the key either owes it a time to live or is one
of the two that strand it.

Proved only: `StatusIsFinal` and `NeverReactivated` (the runs check `KeepsPromise`,
`RedemptionKeepsSessions` and `LedgerKeepsSessions`, which imply most of it), `RuleIsKnown`, the half
of `RouterAgrees` about the map, and `OnlySoldIsOnline`, whose content is the case of
overlapping polls, which the runs of one poll do not have. `RouterAgrees` for scripts that do
part of their work is proved only too: the run Gateway has scripts that work.

Model-checked only: all liveness (`StaleRecordsAreExpired`,
`OverEventuallyBlocked`, `PlanSpeedApplies`, `PaidEventuallyOnline`, `EveryCallSettles`,
`LoadingEnds`, `PageComesBack`), since TLAPS does not reason about fairness here; and the
three properties that runs show violated, which are not theorems.

## 6. What is abstracted or left out

* Tokens, MACs, phone numbers and codes are model values or numbers; parsing and
  validation only as "refused". The location of a voucher is a refusal at the start.
* The licence is a flag that changes at any time; in GuestPortal a refusal that may
  happen at any time. A client that sees its connection drop while the handler goes on is
  covered by `Lost` (after the handler ended) and `Crash` (before).
* GatewayAgent: `Polls` has one member in the runs. With two, a script that blocks a
  device and one that allows it can overlap, and the router then disagrees with both lists
  until the map changes again; no document says what should happen. `OnlyBuyersAreOnline`
  and `AgentTypeCorrect` hold for any number.
* A script that outlives its process, killed or exited, ends before the next process begins
  (procd respawns after 5 s, systemd after `RestartSec=10`): its step is taken before the end.
* A rule the map takes for whole although a script spoiled it is not repaired by any sync. This
  may also happen with GATEWAY_FAIL_FAST: a block that the timeout cuts after the rule is gone
  leaves the map entry, and when the device is listed again at the same speed before it is
  blocked again, sync finds the entry and runs no script, so the guest stays shut out.
  `Mistaken` names exactly these devices.
* Router: one rule and one class per MAC. Two MACs that hash to one tc class are not modelled.
  After teardown no FORWARD rule jumps to a chain that was kept, until the next start makes one;
  `open` is about the rules. RouterOS has no chain to delete, so what a script of the MikroTik
  driver adds after the teardown stays; that is not modelled.
* UsageMetering has no cap and no licence: the cap is SessionLedger's, and what a licence does
  to sessions is GatewayAgent's (`Offered`) and VoucherRedemption's. The report timer is
  bounded to one report under way.
* DashboardSession: a write of the tokens to localStorage is one step, as `setAuth` is
  synchronous. A refresh in flight at sign-out stores tokens afterwards; the property
  SignedOutStaysOut therefore speaks of a browser with no refresh under way.
* ConsoleApi: slugs of one tenant only, as limit and index are per tenant; one route's
  rate-limit key. A key that an address used up is refused until the window ends, which is
  all a guard can do. The row of a tenant holds plan and licence as one value, and a plan
  without a limit of locations is one whose limit no tenant reaches.
* ConsolePages: a page that loads several things at once (plans with vouchers, the overview)
  loads one, since `useAsyncData` runs all its calls as one promise. The administrator sees
  one tenant. In the page, `savingId` is one for all rows (`TenantsPage.tsx:34,69`), so saving a
  second tenant enables the first one's button before its answer; no property depends on
  that. What is typed is a name or nothing.
* Not modelled: `update` and `regenerateGatewayKey` of locations, the heartbeat (it writes
  a time nobody decides upon), the QR preview of the vouchers page (where the answer for the
  voucher picked first may come last and show its code, `VouchersPage.tsx:51`), reports and health
  (read-only), deployment, seed. Reasons are in `PROJECT.json`.

## 7. Plan

Order: what loses money or access first.

1. Done: VoucherPass, VoucherRedemption, SessionLedger, GatewayAgent, UsageMetering, Billing,
   DashboardSession, GuestPortal, ConsoleApi, ConsolePages and their runs; the theorems of
   section 5, which cover every safety property a run checks.
2. Next properties: that somebody who has registered is signed in, which `Register` of
   DashboardSession as the code has it does not keep; what an eSewa payment may become, once
   a document says it.
3. Next modules: router classes (two MACs in one class of `lib.sh`); the agent's usage
   report with the cap, so that `UsageMetering` and `SessionLedger` meet.
4. Compositions: from a report that reaches the cap to the rule that goes, within one poll;
   VenueAccess with a bound on how old the list may be.
