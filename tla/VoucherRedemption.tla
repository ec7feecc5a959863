-------------------------- MODULE VoucherRedemption --------------------------
(***************************************************************************)
(* The cloud side of a voucher's life: a batch is issued, portal guests    *)
(* redeem, the maintenance job expires what is stale, the operator changes *)
(* plans and licences, and the API process may crash.  Every await of a    *)
(* handler is a step boundary; a Prisma statement or transaction is one    *)
(* step.                                                                   *)
(***************************************************************************)
EXTENDS Integers, FiniteSets

CONSTANTS
  Vouchers,     \* voucher rows that may ever be created
  Macs,         \* guest devices
  Requests,     \* calls of POST /vouchers/redeem; also names the session a call opens
  Jobs,         \* runs of the maintenance job that may overlap (startup, repeat)
  Durations,    \* values of WifiPlan.durationMins, in clock units
  TicketLife,   \* expiresInHours of a batch, in clock units
  MaxTime,      \* bound on the clock
  MaxCrashes,   \* bound on the crashes of the API process
  None          \* the SQL NULL

ASSUME RedemptionAssumption ==
  /\ Durations \subseteq Nat \ {0}
  /\ TicketLife \in Nat
  /\ MaxTime \in Nat
  /\ MaxCrashes \in Nat
  /\ None \notin Vouchers \cup Macs

VARIABLES
  clock,        \* wall-clock time, shared by the API, the database and the job
  licensed,     \* allowSessions of checkTenant: the tenant's licence is not EXPIRED
  planMins,     \* WifiPlan.durationMins, 0 when the plan row is deleted
  voucher,      \* the Voucher table
  session,      \* the WifiSession table, one possible row per request
  createdLog,   \* AuditLog rows VOUCHER_CREATED
  redeemedLog,  \* AuditLog rows VOUCHER_REDEEMED
  lock,         \* lock[v]: the Redis key lock:voucher:redeem:<v> exists
  batch,        \* the createBatch handler
  req,          \* the redeem handlers
  job,          \* the runs of expireStaleRecords
  crashes       \* crashes so far

vars == <<clock, licensed, planMins, voucher, session, createdLog, redeemedLog,
          lock, batch, req, job, crashes>>

VoucherStatuses == {"UNISSUED", "ACTIVE", "REDEEMED", "EXPIRED", "REMOVED"}
Time == 0 .. MaxTime

\* A voucher row exists from its creation until its plan is deleted.
Stored(v) == voucher[v].status \in {"ACTIVE", "REDEEMED", "EXPIRED"}

\* The two conditions of the updateMany statements, and for each the condition a
\* careless edit could leave: the runs check that the properties notice.
RedeemableOnSight(v) == Stored(v)
Redeemable(v) == voucher[v].status = "ACTIVE"

StaleWhenDue(row, now) == row.status = "ACTIVE" /\ row.expiresAt <= now
StaleInAnyStatus(row, now) == row.status \in {"ACTIVE", "REDEEMED"} /\ row.expiresAt < now
Stale(row, now) == row.status = "ACTIVE" /\ row.expiresAt < now

NoSnapshot == [status |-> "UNISSUED", expiresAt |-> 0, mins |-> 0]

Init ==
  /\ clock = 0
  /\ licensed = TRUE
  /\ planMins \in Durations
  /\ voucher = [v \in Vouchers |-> [status |-> "UNISSUED", expiresAt |-> 0,
                                    redeemedAt |-> 0, redeemedMac |-> None]]
  /\ session = [r \in Requests |-> [status |-> "NONE", voucher |-> None,
                                    mac |-> None, expiresAt |-> 0]]
  /\ createdLog = {}
  /\ redeemedLog = {}
  /\ lock = [v \in Vouchers |-> FALSE]
  /\ batch = [pc |-> "idle", expiresAt |-> 0, made |-> None]
  /\ req = [r \in Requests |-> [pc |-> "idle", voucher |-> None, mac |-> None,
                                seen |-> NoSnapshot, until |-> 0, answer |-> "none"]]
  /\ job = [j \in Jobs |-> [now |-> 0, todo |-> {}]]
  /\ crashes = 0

-----------------------------------------------------------------------------
(* createBatch: the vouchers of a batch share one expiresAt; each is        *)
(* inserted, then audited, outside any transaction.                         *)

BatchIdle == [pc |-> "idle", expiresAt |-> 0, made |-> None]

\* The model has only so many rows to hand out.
RowLeft == \E v \in Vouchers : voucher[v].status = "UNISSUED"

BatchBegin ==
  /\ batch.pc = "idle"
  /\ planMins # 0
  /\ RowLeft
  /\ batch' = [pc |-> "create", expiresAt |-> clock + TicketLife, made |-> None]
  /\ UNCHANGED <<clock, licensed, planMins, voucher, session, createdLog,
                 redeemedLog, lock, req, job, crashes>>

BatchCreate(v) ==
  /\ batch.pc = "create"
  /\ planMins # 0
  /\ voucher[v].status = "UNISSUED"
  /\ voucher' = [voucher EXCEPT ![v].status = "ACTIVE",
                                ![v].expiresAt = batch.expiresAt]
  /\ batch' = [batch EXCEPT !.pc = "audit", !.made = v]
  /\ UNCHANGED <<clock, licensed, planMins, session, createdLog, redeemedLog,
                 lock, req, job, crashes>>

\* The loop goes on to the next voucher or returns.
BatchAudit ==
  /\ batch.pc = "audit"
  /\ createdLog' = createdLog \cup {batch.made}
  /\ \/ /\ RowLeft
        /\ batch' = [batch EXCEPT !.pc = "create", !.made = None]
     \/ batch' = BatchIdle
  /\ UNCHANGED <<clock, licensed, planMins, voucher, session, redeemedLog,
                 lock, req, job, crashes>>

\* A statement of the loop fails (the plan is gone, the database is away):
\* the handler throws and leaves what it has done.
BatchFail ==
  /\ batch.pc # "idle"
  /\ batch' = BatchIdle
  /\ UNCHANGED <<clock, licensed, planMins, voucher, session, createdLog,
                 redeemedLog, lock, req, job, crashes>>

-----------------------------------------------------------------------------
(* redeem, one action per await.                                            *)

\* The call ends; its local variables are dead.
Ended(r, answer) ==
  [req[r] EXCEPT !.pc = "done", !.seen = NoSnapshot, !.until = 0, !.answer = answer]

\* findUnique with the plan and the location.  A token nobody knows and the slug
\* of another location are refused at once.
FindVoucher(r) ==
  /\ req[r].pc = "idle"
  /\ \/ \E v \in Vouchers, m \in Macs :
          /\ Stored(v)
          /\ req' = [req EXCEPT ![r] =
                      [pc |-> "license", voucher |-> v, mac |-> m,
                       seen |-> [status |-> voucher[v].status,
                                 expiresAt |-> voucher[v].expiresAt,
                                 mins |-> planMins],
                       until |-> 0, answer |-> "none"]]
     \/ req' = [req EXCEPT ![r] = Ended(r, "refused")]
  /\ UNCHANGED <<clock, licensed, planMins, voucher, session, createdLog,
                 redeemedLog, lock, batch, job, crashes>>

\* The licence is read afresh; status and expiry are judged on the snapshot.
CheckLicense(r) ==
  /\ req[r].pc = "license"
  /\ req' = [req EXCEPT ![r] =
              IF /\ licensed
                 /\ req[r].seen.status = "ACTIVE"
                 /\ ~(req[r].seen.expiresAt < clock)
              THEN [@ EXCEPT !.pc = "lock"]
              ELSE Ended(r, "refused")]
  /\ UNCHANGED <<clock, licensed, planMins, voucher, session, createdLog,
                 redeemedLog, lock, batch, job, crashes>>

\* sessionExpiresAt, computed from the snapshot's plan.
SessionEndBackwards(r) == clock - req[r].seen.mins
SessionEnd(r) == clock + req[r].seen.mins

\* SET key 1 EX 30 NX.  When the connection drops after the key is set, the
\* client sends the command again, finds the key it set itself and gives up.
AcquireLock(r) ==
  /\ req[r].pc = "lock"
  /\ \/ /\ ~lock[req[r].voucher]
        /\ req' = [req EXCEPT ![r] = [@ EXCEPT !.pc = "transaction",
                                               !.until = SessionEnd(r)]]
     \/ req' = [req EXCEPT ![r] = Ended(r, "refused")]
  /\ lock' = [lock EXCEPT ![req[r].voucher] = TRUE]
  /\ UNCHANGED <<clock, licensed, planMins, voucher, session, createdLog,
                 redeemedLog, batch, job, crashes>>

\* The transaction commits: conditional update, session insert, audit insert.
\* The commit may be acknowledged or the acknowledgement lost.
CommitRedemption(r) ==
  LET v == req[r].voucher
      m == req[r].mac
  IN
  /\ req[r].pc = "transaction"
  /\ Redeemable(v)
  /\ voucher' = [voucher EXCEPT ![v].status = "REDEEMED",
                                ![v].redeemedAt = clock,
                                ![v].redeemedMac = m]
  /\ session' = [session EXCEPT ![r] = [status |-> "ACTIVE", voucher |-> v,
                                        mac |-> m, expiresAt |-> req[r].until]]
  /\ redeemedLog' = redeemedLog \cup {[session |-> r, voucher |-> v, mac |-> m]}
  /\ \E answer \in {"redeemed", "failed"} :
       req' = [req EXCEPT ![r].pc = "unlock", ![r].answer = answer]
  /\ UNCHANGED <<clock, licensed, planMins, createdLog, lock, batch, job, crashes>>

\* (Variant: a second redemption taken for a harmless repeat.)
RefuseRedemptionAsRepeat(r) ==
  /\ req[r].pc = "transaction"
  /\ ~Redeemable(req[r].voucher)
  /\ req' = [req EXCEPT ![r].pc = "unlock", ![r].answer = "redeemed"]
  /\ UNCHANGED <<clock, licensed, planMins, voucher, session, createdLog,
                 redeemedLog, lock, batch, job, crashes>>

\* updateMany matched no ACTIVE row: the transaction throws and rolls back.
RefuseRedemption(r) ==
  /\ req[r].pc = "transaction"
  /\ ~Redeemable(req[r].voucher)
  /\ req' = [req EXCEPT ![r].pc = "unlock", ![r].answer = "already"]
  /\ UNCHANGED <<clock, licensed, planMins, voucher, session, createdLog,
                 redeemedLog, lock, batch, job, crashes>>

\* The database fails or times out: rollback.
AbortRedemption(r) ==
  /\ req[r].pc = "transaction"
  /\ req' = [req EXCEPT ![r].pc = "unlock", ![r].answer = "failed"]
  /\ UNCHANGED <<clock, licensed, planMins, voucher, session, createdLog,
                 redeemedLog, lock, batch, job, crashes>>

\* finally: DEL key, whoever set it.
ReleaseLock(r) ==
  /\ req[r].pc = "unlock"
  /\ lock' = [lock EXCEPT ![req[r].voucher] = FALSE]
  /\ req' = [req EXCEPT ![r] = Ended(r, req[r].answer)]
  /\ UNCHANGED <<clock, licensed, planMins, voucher, session, createdLog,
                 redeemedLog, batch, job, crashes>>

\* The key's 30 s are over, however far its holder has got.
LockLapse(v) ==
  /\ lock[v]
  /\ lock' = [lock EXCEPT ![v] = FALSE]
  /\ UNCHANGED <<clock, licensed, planMins, voucher, session, createdLog,
                 redeemedLog, batch, req, job, crashes>>

-----------------------------------------------------------------------------
(* expireStaleRecords: `now' is read once, the two updateMany statements    *)
(* run in either order, with anything in between.                           *)

\* (Variant: the run at startup, and no repeat registered.)
JobStartOnce(j) ==
  /\ clock = 0
  /\ job[j].todo = {}
  /\ job' = [job EXCEPT ![j] = [now |-> clock, todo |-> {"sessions", "vouchers"}]]
  /\ UNCHANGED <<clock, licensed, planMins, voucher, session, createdLog,
                 redeemedLog, lock, batch, req, crashes>>

JobStart(j) ==
  /\ job[j].todo = {}
  /\ job' = [job EXCEPT ![j] = [now |-> clock, todo |-> {"sessions", "vouchers"}]]
  /\ UNCHANGED <<clock, licensed, planMins, voucher, session, createdLog,
                 redeemedLog, lock, batch, req, crashes>>

Without(j, part) ==
  LET left == job[j].todo \ {part}
  IN  [now |-> IF left = {} THEN 0 ELSE job[j].now, todo |-> left]

ExpireSessions(j) ==
  /\ "sessions" \in job[j].todo
  /\ session' = [r \in Requests |->
                  IF Stale(session[r], job[j].now)
                  THEN [session[r] EXCEPT !.status = "EXPIRED"]
                  ELSE session[r]]
  /\ job' = [job EXCEPT ![j] = Without(j, "sessions")]
  /\ UNCHANGED <<clock, licensed, planMins, voucher, createdLog, redeemedLog,
                 lock, batch, req, crashes>>

ExpireVouchers(j) ==
  /\ "vouchers" \in job[j].todo
  /\ voucher' = [v \in Vouchers |->
                  IF Stale(voucher[v], job[j].now)
                  THEN [voucher[v] EXCEPT !.status = "EXPIRED"]
                  ELSE voucher[v]]
  /\ job' = [job EXCEPT ![j] = Without(j, "vouchers")]
  /\ UNCHANGED <<clock, licensed, planMins, session, createdLog, redeemedLog,
                 lock, batch, req, crashes>>

-----------------------------------------------------------------------------
(* The rest of the cloud.                                                   *)

\* Stripe webhooks, Nepal payments and the platform admin set the licence.
SetLicense(allowed) ==
  /\ licensed' = allowed
  /\ UNCHANGED <<clock, planMins, voucher, session, createdLog, redeemedLog,
                 lock, batch, req, job, crashes>>

UpdatePlan(mins) ==
  /\ planMins # 0
  /\ planMins' = mins
  /\ UNCHANGED <<clock, licensed, voucher, session, createdLog, redeemedLog,
                 lock, batch, req, job, crashes>>

\* (Variant: the sessions of the vouchers go with them.)
RemovePlanWithSessions ==
  /\ planMins # 0
  /\ planMins' = 0
  /\ voucher' = [v \in Vouchers |-> IF Stored(v)
                                    THEN [voucher[v] EXCEPT !.status = "REMOVED"]
                                    ELSE voucher[v]]
  /\ session' = [r \in Requests |-> [status |-> "NONE", voucher |-> None,
                                     mac |-> None, expiresAt |-> 0]]
  /\ UNCHANGED <<clock, licensed, createdLog, redeemedLog, lock, batch, req,
                 job, crashes>>

\* Deleting a plan cascades to its vouchers and nulls their sessions' voucherId.
RemovePlan ==
  /\ planMins # 0
  /\ planMins' = 0
  /\ voucher' = [v \in Vouchers |-> IF Stored(v)
                                    THEN [voucher[v] EXCEPT !.status = "REMOVED"]
                                    ELSE voucher[v]]
  /\ session' = [r \in Requests |-> [session[r] EXCEPT !.voucher = None]]
  /\ UNCHANGED <<clock, licensed, createdLog, redeemedLog, lock, batch, req,
                 job, crashes>>

\* The API process dies with every handler in flight and starts again.
Crash ==
  /\ crashes < MaxCrashes
  /\ crashes' = crashes + 1
  /\ req' = [r \in Requests |-> IF req[r].pc \in {"idle", "done"} THEN req[r]
                                ELSE Ended(r, "failed")]
  /\ job' = [j \in Jobs |-> [now |-> 0, todo |-> {}]]
  /\ batch' = BatchIdle
  /\ UNCHANGED <<clock, licensed, planMins, voucher, session, createdLog,
                 redeemedLog, lock>>

Tick ==
  /\ clock < MaxTime
  /\ clock' = clock + 1
  /\ UNCHANGED <<licensed, planMins, voucher, session, createdLog, redeemedLog,
                 lock, batch, req, job, crashes>>

-----------------------------------------------------------------------------
CreateBatch == BatchBegin \/ (\E v \in Vouchers : BatchCreate(v)) \/ BatchAudit \/ BatchFail

Transaction(r) == CommitRedemption(r) \/ RefuseRedemption(r) \/ AbortRedemption(r)

Redeem(r) ==
  FindVoucher(r) \/ CheckLicense(r) \/ AcquireLock(r) \/ Transaction(r) \/ ReleaseLock(r)

ExpireStaleRecords(j) == JobStart(j) \/ ExpireSessions(j) \/ ExpireVouchers(j)

Operator ==
  \/ \E allowed \in BOOLEAN : SetLicense(allowed)
  \/ \E d \in Durations : UpdatePlan(d)
  \/ RemovePlan

Next ==
  \/ CreateBatch
  \/ \E r \in Requests : Redeem(r)
  \/ \E v \in Vouchers : LockLapse(v)
  \/ \E j \in Jobs : ExpireStaleRecords(j)
  \/ Operator
  \/ Crash
  \/ Tick

Spec == Init /\ [][Next]_vars

\* The job repeats every 60 s and at startup, and an awaited statement returns.
\* Nothing obliges guests or operators, and a lock may stay for as long as it likes.
Fairness ==
  \A j \in Jobs : /\ WF_vars(JobStart(j))
                  /\ WF_vars(ExpireSessions(j))
                  /\ WF_vars(ExpireVouchers(j))

FairSpec == Spec /\ Fairness

-----------------------------------------------------------------------------
(* Properties.                                                              *)

\* Rows and handlers.
VoucherRow == [status : VoucherStatuses, expiresAt : Nat,
               redeemedAt : Nat, redeemedMac : Macs \cup {None}]
SessionRow == [status : {"NONE", "ACTIVE", "EXPIRED"}, voucher : Vouchers \cup {None},
               mac : Macs \cup {None}, expiresAt : Nat]
AuditRow == [session : Requests, voucher : Vouchers, mac : Macs]
Batch == [pc : {"idle", "create", "audit"}, expiresAt : Nat, made : Vouchers \cup {None}]
InFlight == {"license", "lock", "transaction", "unlock"}
Phases == InFlight \cup {"idle", "done"}
Answers == {"none", "refused", "redeemed", "already", "failed"}
Snapshot == [status : VoucherStatuses, expiresAt : Nat, mins : Nat]
Call == [pc : Phases, voucher : Vouchers \cup {None}, mac : Macs \cup {None},
         seen : Snapshot, until : Nat, answer : Answers]
JobRun == [now : Time, todo : SUBSET {"sessions", "vouchers"}]

\* Every variable has its type.
TypeOK ==
  /\ clock \in Time
  /\ licensed \in BOOLEAN
  /\ planMins \in Durations \cup {0}
  /\ voucher \in [Vouchers -> VoucherRow]
  /\ session \in [Requests -> SessionRow]
  /\ createdLog \subseteq Vouchers
  /\ redeemedLog \subseteq AuditRow
  /\ lock \in [Vouchers -> BOOLEAN]
  /\ batch \in Batch
  /\ batch.pc = "audit" => batch.made \in Vouchers
  /\ req \in [Requests -> Call]
  /\ \A r \in Requests : req[r].pc \in InFlight => req[r].voucher \in Vouchers /\ req[r].mac \in Macs
  /\ job \in [Jobs -> JobRun]
  /\ crashes \in 0 .. MaxCrashes

\* A voucher opens at most one session, whatever the guests' calls, the lapsing
\* of the Redis lock and the crashes do between the reads and the transaction
\* of redeem.
OneSessionPerVoucher ==
  \A r, s \in Requests :
    /\ session[r].voucher # None
    /\ session[r].voucher = session[s].voucher
    => r = s

\* The three tables redeem writes agree: a stored voucher is REDEEMED exactly
\* when some session hangs on it, that session and the audit row name the MAC
\* the voucher is bound to, and no other audit row names the voucher.
RedemptionIsRecorded ==
  \A v \in Vouchers :
    LET uses == {e \in redeemedLog : e.voucher = v} IN
    /\ Stored(v) =>
         (voucher[v].status = "REDEEMED" <=> \E r \in Requests : session[r].voucher = v)
    /\ \A r \in Requests :
         session[r].voucher = v =>
           /\ session[r].mac = voucher[v].redeemedMac
           /\ uses = {[session |-> r, voucher |-> v, mac |-> session[r].mac]}

\* A guest who is told "redeemed" has a session of their own for their MAC, and
\* a guest who is told "already redeemed" by the transaction asked for a voucher
\* that nobody can redeem any more.
AnsweredTruthfully ==
  \A r \in Requests :
    /\ req[r].answer = "redeemed" =>
         /\ session[r].status # "NONE"
         /\ session[r].mac = req[r].mac
         /\ [session |-> r, voucher |-> req[r].voucher, mac |-> req[r].mac] \in redeemedLog
    /\ req[r].answer = "already" => ~Redeemable(req[r].voucher)

\* The job never expires a row before its time, though its `now' may be old when
\* its statements run and redemptions commit between them.
ExpiredOnlyAfterDeadline ==
  /\ \A v \in Vouchers : voucher[v].status = "EXPIRED" => voucher[v].expiresAt < clock
  /\ \A r \in Requests : session[r].status = "EXPIRED" => session[r].expiresAt < clock

\* A voucher that is redeemed or expired stays so until its row is deleted: the
\* job and redeem, racing on the same row, never undo each other.
StatusIsFinal ==
  [][\A v \in Vouchers :
       /\ voucher[v].status \in {"REDEEMED", "EXPIRED"} =>
            \/ voucher'[v] = voucher[v]
            \/ voucher'[v] = [voucher[v] EXCEPT !.status = "REMOVED"]
       /\ voucher[v].status = "REMOVED" => voucher'[v] = voucher[v]]_vars

\* The job reaches every stale row in the end, crashes notwithstanding.
StaleRecordsAreExpired ==
  /\ \A v \in Vouchers :
       (voucher[v].status = "ACTIVE" /\ voucher[v].expiresAt < clock)
         ~> voucher[v].status # "ACTIVE"
  /\ \A r \in Requests :
       (session[r].status = "ACTIVE" /\ session[r].expiresAt < clock)
         ~> session[r].status # "ACTIVE"

-----------------------------------------------------------------------------
(* What the tables mean to the holder of a voucher.                         *)

PassOf(v) ==
  CASE voucher[v].status = "UNISSUED" -> "unissued"
    [] voucher[v].status = "ACTIVE"   -> "valid"
    [] voucher[v].status = "REDEEMED" -> "used"
    [] voucher[v].status = "EXPIRED"  -> "lapsed"
    [] voucher[v].status = "REMOVED"  -> "withdrawn"

AdmittedBy(v) == {e.mac : e \in {f \in redeemedLog : f.voucher = v}}

Promise == INSTANCE VoucherPass WITH
             pass <- [v \in Vouchers |-> PassOf(v)],
             admitted <- [v \in Vouchers |-> AdmittedBy(v)]

\* The cloud keeps what a voucher promises.
KeepsPromise == Promise!Spec

\* What the session table means to a venue.
PhaseOf(r) ==
  CASE session[r].status = "NONE" -> "none"
    [] session[r].status = "EXPIRED"
         \/ (session[r].status = "ACTIVE" /\ session[r].expiresAt < clock) -> "due"
    [] session[r].status = "ACTIVE" /\ ~(session[r].expiresAt < clock) -> "active"

SessionPhases == [r \in Requests |-> PhaseOf(r)]
Cloud == INSTANCE CloudSessions WITH Sessions <- Requests, phase <- SessionPhases

\* A redemption opens one session that runs until its time is over: neither the job, nor a
\* crash, nor the end of its plan takes it back or brings it back
\* (vouchers.service.ts:290-330, expiry.service.ts:9-37).
RedemptionKeepsSessions == Cloud!Spec
=============================================================================
