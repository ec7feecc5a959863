----------------------- MODULE VoucherRedemptionProofs -----------------------
(***************************************************************************)
(* Theorems about VoucherRedemption, for any numbers of vouchers, devices, *)
(* calls and jobs and any bounds.                                          *)
(***************************************************************************)
EXTENDS VoucherRedemption, TLAPS

\* What `Ended' does to a call: it changes the phase, drops the locals and keeps
\* what was asked for.
LEMMA EndedCall ==
  ASSUME req \in [Requests -> Call], NEW r \in Requests, NEW answer \in Answers
  PROVE  /\ Ended(r, answer) \in Call
         /\ Ended(r, answer).pc = "done"
         /\ Ended(r, answer).voucher = req[r].voucher
         /\ Ended(r, answer).mac = req[r].mac
         /\ Ended(r, answer).answer = answer
<1>1. NoSnapshot \in Snapshot
  BY DEF NoSnapshot, Snapshot, VoucherStatuses
<1> QED
  BY <1>1 DEF Ended, Call, Phases, InFlight

\* The database and the process start in states of their types.
LEMMA TypeInit == Init => TypeOK
  BY RedemptionAssumption
  DEF Init, TypeOK, Time, NoSnapshot, VoucherStatuses, VoucherRow, SessionRow, Batch,
      InFlight, Phases, Answers, Snapshot, Call, JobRun

\* What the type invariant says of a call in flight.
LEMMA CallFacts ==
  ASSUME TypeOK, NEW r \in Requests
  PROVE  /\ req[r] \in Call
         /\ req[r].seen \in Snapshot /\ req[r].seen.mins \in Nat
         /\ req[r].until \in Nat /\ req[r].answer \in Answers
         /\ clock \in Nat
         /\ req[r].pc \in InFlight => req[r].voucher \in Vouchers /\ req[r].mac \in Macs
  BY RedemptionAssumption DEF TypeOK, Call, Snapshot, Time

\* A step that changes one call, to a well-typed one, and no other variable's type.
LEMMA CallStepType ==
  ASSUME TypeOK, NEW r \in Requests, NEW c \in Call,
         c.pc \in InFlight => c.voucher \in Vouchers /\ c.mac \in Macs,
         req' = [req EXCEPT ![r] = c]
  PROVE  /\ req' \in [Requests -> Call]
         /\ \A s \in Requests :
              req'[s].pc \in InFlight => req'[s].voucher \in Vouchers /\ req'[s].mac \in Macs
  BY DEF TypeOK

\* Every handler, job, crash and tick keeps the types.
LEMMA TypeStep == TypeOK /\ [Next]_vars => TypeOK'
<1> SUFFICES ASSUME TypeOK, [Next]_vars
             PROVE  TypeOK'
  OBVIOUS
<1>0. /\ clock \in Nat
      /\ planMins \in Nat
      /\ voucher \in [Vouchers -> VoucherRow]
      /\ session \in [Requests -> SessionRow]
      /\ batch \in Batch
      /\ req \in [Requests -> Call]
      /\ job \in [Jobs -> JobRun]
  <2>1. clock \in Time /\ planMins \in Durations \cup {0}
    BY DEF TypeOK
  <2>2. clock \in Nat /\ planMins \in Nat
    BY <2>1, RedemptionAssumption DEF Time
  <2> QED
    BY <2>2 DEF TypeOK
<1>1. CASE BatchBegin
  <2>1. batch' \in Batch /\ batch'.pc # "audit"
    BY <1>0, <1>1, RedemptionAssumption DEF BatchBegin, Batch
  <2> QED
    BY <1>1, <2>1 DEF BatchBegin, TypeOK
<1>2. ASSUME NEW v \in Vouchers, BatchCreate(v) PROVE TypeOK'
  <2>1. batch' \in Batch /\ batch'.made = v
    BY <1>0, <1>2 DEF BatchCreate, Batch
  <2>2. batch.expiresAt \in Nat
    BY <1>0 DEF Batch
  <2>3. voucher' \in [Vouchers -> VoucherRow]
    BY <1>0, <1>2, <2>2 DEF BatchCreate, VoucherRow, VoucherStatuses
  <2> QED
    BY <1>2, <2>1, <2>3 DEF BatchCreate, TypeOK
<1>3. CASE BatchAudit
  <2>1. CASE batch' = [batch EXCEPT !.pc = "create", !.made = None]
    <3>1. batch' \in Batch /\ batch'.pc # "audit"
      BY <1>0, <2>1 DEF Batch
    <3> QED
      BY <1>3, <3>1 DEF BatchAudit, TypeOK
  <2>2. CASE batch' = BatchIdle
    <3>1. batch' \in Batch /\ batch'.pc # "audit"
      BY <2>2 DEF BatchIdle, Batch
    <3> QED
      BY <1>3, <3>1 DEF BatchAudit, TypeOK
  <2> QED
    BY <1>3, <2>1, <2>2 DEF BatchAudit
<1>4. CASE BatchFail
  <2>1. batch' \in Batch /\ batch'.pc # "audit"
    BY <1>4 DEF BatchFail, BatchIdle, Batch
  <2> QED
    BY <1>4, <2>1 DEF BatchFail, TypeOK
<1>5. ASSUME NEW r \in Requests, FindVoucher(r) PROVE TypeOK'
  <2>1. ASSUME NEW v \in Vouchers, NEW m \in Macs,
               req' = [req EXCEPT ![r] =
                        [pc |-> "license", voucher |-> v, mac |-> m,
                         seen |-> [status |-> voucher[v].status,
                                   expiresAt |-> voucher[v].expiresAt, mins |-> planMins],
                         until |-> 0, answer |-> "none"]]
        PROVE  TypeOK'
    <3>1. [status |-> voucher[v].status, expiresAt |-> voucher[v].expiresAt,
           mins |-> planMins] \in Snapshot
      BY <1>0 DEF VoucherRow, Snapshot
    <3>2. [pc |-> "license", voucher |-> v, mac |-> m,
           seen |-> [status |-> voucher[v].status,
                     expiresAt |-> voucher[v].expiresAt, mins |-> planMins],
           until |-> 0, answer |-> "none"] \in Call
      BY <3>1 DEF Call, Phases, InFlight, Answers
    <3> QED
      BY <1>5, <2>1, <3>2, CallStepType DEF FindVoucher, TypeOK
  <2>2. CASE req' = [req EXCEPT ![r] = Ended(r, "refused")]
    BY <1>5, <2>2, <1>0, EndedCall, CallStepType DEF FindVoucher, TypeOK, Answers, InFlight
  <2> QED
    BY <1>5, <2>1, <2>2 DEF FindVoucher
<1>6. ASSUME NEW r \in Requests, CheckLicense(r) PROVE TypeOK'
  <2>1. [req[r] EXCEPT !.pc = "lock"] \in Call
    BY CallFacts DEF Call, Phases, InFlight
  <2>2. CASE req' = [req EXCEPT ![r] = [req[r] EXCEPT !.pc = "lock"]]
    <3>1. /\ [req[r] EXCEPT !.pc = "lock"].voucher = req[r].voucher
          /\ [req[r] EXCEPT !.pc = "lock"].mac = req[r].mac
      BY CallFacts DEF Call
    <3>2. req[r].voucher \in Vouchers /\ req[r].mac \in Macs
      BY <1>6, CallFacts DEF CheckLicense, InFlight
    <3> QED
      BY <1>6, <2>1, <2>2, <3>1, <3>2, CallStepType DEF CheckLicense, TypeOK
  <2>3. CASE req' = [req EXCEPT ![r] = Ended(r, "refused")]
    BY <1>6, <2>3, <1>0, EndedCall, CallStepType DEF CheckLicense, TypeOK, Answers, InFlight
  <2> QED
    BY <1>6, <2>2, <2>3 DEF CheckLicense
<1>7. ASSUME NEW r \in Requests, AcquireLock(r) PROVE TypeOK'
  <2> DEFINE c == [req[r] EXCEPT !.pc = "transaction", !.until = SessionEnd(r)]
  <2>1. SessionEnd(r) \in Nat
    BY CallFacts DEF SessionEnd
  <2>2. c \in Call /\ c.voucher = req[r].voucher /\ c.mac = req[r].mac
    BY <2>1, CallFacts DEF Call, Phases, InFlight
  <2>3. req[r].voucher \in Vouchers /\ req[r].mac \in Macs
    BY <1>7, CallFacts DEF AcquireLock, InFlight
  <2>4. CASE req' = [req EXCEPT ![r] = c]
    BY <1>7, <2>2, <2>3, <2>4, CallStepType DEF AcquireLock, TypeOK
  <2>5. CASE req' = [req EXCEPT ![r] = Ended(r, "refused")]
    BY <1>7, <2>5, <1>0, EndedCall, CallStepType DEF AcquireLock, TypeOK, Answers, InFlight
  <2> QED
    BY <1>7, <2>4, <2>5 DEF AcquireLock
<1>8. ASSUME NEW r \in Requests, NEW answer \in {"redeemed", "already", "failed"},
             req[r].pc = "transaction",
             req' = [req EXCEPT ![r].pc = "unlock", ![r].answer = answer]
      PROVE  /\ req' \in [Requests -> Call]
             /\ \A s \in Requests :
                  req'[s].pc \in InFlight => req'[s].voucher \in Vouchers /\ req'[s].mac \in Macs
  <2> DEFINE c == [req[r] EXCEPT !.pc = "unlock", !.answer = answer]
  <2>1. c \in Call /\ c.voucher = req[r].voucher /\ c.mac = req[r].mac
    BY CallFacts DEF Call, Phases, InFlight, Answers
  <2>2. req[r].voucher \in Vouchers /\ req[r].mac \in Macs
    BY <1>8, CallFacts DEF InFlight
  <2>3. req' = [req EXCEPT ![r] = c]
    BY <1>8
  <2> QED
    BY <2>1, <2>2, <2>3, CallStepType
<1>9. ASSUME NEW r \in Requests, CommitRedemption(r) PROVE TypeOK'
  <2>1. /\ req[r].voucher \in Vouchers /\ req[r].mac \in Macs
        /\ req[r].until \in Nat
    BY <1>9, CallFacts DEF CommitRedemption, InFlight
  <2>2. voucher' \in [Vouchers -> VoucherRow]
    BY <1>0, <1>9, <2>1 DEF CommitRedemption, VoucherRow, VoucherStatuses
  <2>3. session' \in [Requests -> SessionRow]
    BY <1>0, <1>9, <2>1 DEF CommitRedemption, SessionRow
  <2>4. redeemedLog' \subseteq AuditRow
    BY <1>9, <2>1 DEF CommitRedemption, AuditRow, TypeOK
  <2> QED
    BY <1>8, <1>9, <2>2, <2>3, <2>4 DEF CommitRedemption, TypeOK
<1>10. ASSUME NEW r \in Requests, RefuseRedemption(r) \/ AbortRedemption(r) PROVE TypeOK'
  BY <1>8, <1>10 DEF RefuseRedemption, AbortRedemption, TypeOK
<1>11. ASSUME NEW r \in Requests, ReleaseLock(r) PROVE TypeOK'
  BY <1>11, <1>0, CallFacts, EndedCall, CallStepType DEF ReleaseLock, TypeOK, InFlight
<1>12. ASSUME NEW v \in Vouchers, LockLapse(v) PROVE TypeOK'
  BY <1>12 DEF LockLapse, TypeOK
<1>13. ASSUME NEW j \in Jobs, JobStart(j) PROVE TypeOK'
  <2>1. job' \in [Jobs -> JobRun]
    BY <1>0, <1>13 DEF JobStart, JobRun, TypeOK
  <2> QED
    BY <1>13, <2>1 DEF JobStart, TypeOK
<1>14. ASSUME NEW j \in Jobs, NEW part PROVE Without(j, part) \in JobRun
  BY <1>0, RedemptionAssumption DEF Without, JobRun, Time
<1>15. ASSUME NEW j \in Jobs, ExpireSessions(j) PROVE TypeOK'
  <2>1. session' \in [Requests -> SessionRow]
    BY <1>0, <1>15 DEF ExpireSessions, SessionRow
  <2> QED
    BY <1>14, <1>15, <2>1 DEF ExpireSessions, TypeOK
<1>16. ASSUME NEW j \in Jobs, ExpireVouchers(j) PROVE TypeOK'
  <2>1. voucher' \in [Vouchers -> VoucherRow]
    BY <1>0, <1>16 DEF ExpireVouchers, VoucherRow, VoucherStatuses
  <2> QED
    BY <1>14, <1>16, <2>1 DEF ExpireVouchers, TypeOK
<1>17. CASE RemovePlan
  <2>1. voucher' \in [Vouchers -> VoucherRow]
    BY <1>0, <1>17 DEF RemovePlan, VoucherRow, VoucherStatuses
  <2>2. session' \in [Requests -> SessionRow]
    BY <1>0, <1>17 DEF RemovePlan, SessionRow
  <2> QED
    BY <1>17, <2>1, <2>2 DEF RemovePlan, TypeOK
<1>18. CASE Operator /\ ~RemovePlan
  BY <1>18 DEF Operator, SetLicense, UpdatePlan, TypeOK
<1>19. CASE Crash
  <2>1. \A r \in Requests : req'[r] = req[r] \/ req'[r] = Ended(r, "failed")
    BY <1>19 DEF Crash
  <2>2. /\ req' \in [Requests -> Call]
        /\ \A r \in Requests :
             req'[r].pc \in InFlight => req'[r].voucher \in Vouchers /\ req'[r].mac \in Macs
    BY <1>0, <1>19, <2>1, EndedCall DEF Crash, TypeOK, Answers, InFlight
  <2>3. job' \in [Jobs -> JobRun]
    BY <1>19, RedemptionAssumption DEF Crash, JobRun, Time
  <2>4. batch' \in Batch /\ batch'.pc # "audit"
    BY <1>19 DEF Crash, BatchIdle, Batch
  <2> QED
    BY <1>19, <2>2, <2>3, <2>4, RedemptionAssumption DEF Crash, TypeOK
<1>20. CASE Tick
  <2>1. clock' \in Time
    BY <1>0, <1>20, RedemptionAssumption DEF Tick, Time
  <2> QED
    BY <1>20, <2>1 DEF Tick, TypeOK
<1>21. CASE UNCHANGED vars
  BY <1>21 DEF vars, TypeOK
<1> QED
  BY <1>1, <1>2, <1>3, <1>4, <1>5, <1>6, <1>7, <1>9, <1>10, <1>11, <1>12,
     <1>13, <1>15, <1>16, <1>17, <1>18, <1>19, <1>20, <1>21
  DEF Next, CreateBatch, Redeem, Transaction, ExpireStaleRecords

\* Every state of every behaviour has its type.
THEOREM TypeCorrect == Spec => []TypeOK
<1>1. Init => TypeOK
  BY TypeInit
<1>2. TypeOK /\ [Next]_vars => TypeOK'
  BY TypeStep
<1> QED
  BY <1>1, <1>2, PTL DEF Spec

-----------------------------------------------------------------------------
(* The inductive invariant behind the safety properties of redeem.  It ties *)
(* the Voucher, WifiSession and AuditLog tables together and says what a    *)
(* redeem call in flight knows.                                             *)

\* Every audit row is about a session that exists and names its MAC; the
\* session still points at the voucher unless the plan was deleted.
LogNamesSessions ==
  \A e \in redeemedLog :
    /\ session[e.session].status # "NONE"
    /\ session[e.session].mac = e.mac
    /\ session[e.session].voucher \in {e.voucher, None}

\* Every session that points at a voucher has its audit row, and the voucher is
\* stored as REDEEMED.
SessionsAreLogged ==
  \A r \in Requests :
    session[r].voucher # None =>
      /\ [session |-> r, voucher |-> session[r].voucher, mac |-> session[r].mac]
           \in redeemedLog
      /\ voucher[session[r].voucher].status = "REDEEMED"

OneRowPerVoucher ==
  \A e, f \in redeemedLog : e.voucher = f.voucher => e = f

\* A voucher that was never redeemed has no audit row.
UnusedIsUnlogged ==
  \A v \in Vouchers :
    voucher[v].status \in {"UNISSUED", "ACTIVE", "EXPIRED"} =>
      \A e \in redeemedLog : e.voucher # v

\* A stored REDEEMED voucher has its session, for the MAC it is bound to.
RedeemedIsBound ==
  \A v \in Vouchers :
    voucher[v].status = "REDEEMED" =>
      \E r \in Requests : session[r].voucher = v /\ session[r].mac = voucher[v].redeemedMac

\* A call that has not reached its transaction has opened no session.
NoSessionBeforeCommit ==
  \A r \in Requests :
    req[r].pc \in {"idle", "license", "lock", "transaction"} => session[r].status = "NONE"

RedemptionInv ==
  /\ TypeOK
  /\ LogNamesSessions
  /\ SessionsAreLogged
  /\ OneRowPerVoucher
  /\ UnusedIsUnlogged
  /\ RedeemedIsBound
  /\ NoSessionBeforeCommit

\* A step that touches neither table nor the calls leaves the invariant alone.
LEMMA RedemptionInvFrame ==
  ASSUME RedemptionInv, TypeOK', UNCHANGED <<voucher, session, redeemedLog, req>>
  PROVE  RedemptionInv'
  BY DEF RedemptionInv, LogNamesSessions, SessionsAreLogged, OneRowPerVoucher,
         UnusedIsUnlogged, RedeemedIsBound, NoSessionBeforeCommit

\* A step that leaves the tables alone keeps the invariant if every call it
\* moves ends or had not reached its commit.
LEMMA RedemptionInvCall ==
  ASSUME RedemptionInv, TypeOK', UNCHANGED <<voucher, session, redeemedLog>>,
         \A r \in Requests :
           \/ req'[r] = req[r]
           \/ req'[r].pc = "done"
           \/ req[r].pc \in {"idle", "license", "lock", "transaction"}
  PROVE  RedemptionInv'
<1>1. NoSessionBeforeCommit'
  BY DEF RedemptionInv, TypeOK, NoSessionBeforeCommit
<1> QED
  BY <1>1
  DEF RedemptionInv, LogNamesSessions, SessionsAreLogged, OneRowPerVoucher,
      UnusedIsUnlogged, RedeemedIsBound

\* With nothing redeemed and nobody calling the invariant holds.
LEMMA RedemptionInvInit == Init => RedemptionInv
  BY TypeInit
  DEF Init, NoSnapshot, RedemptionInv, LogNamesSessions, SessionsAreLogged, OneRowPerVoucher,
      UnusedIsUnlogged, RedeemedIsBound, NoSessionBeforeCommit

\* The transaction of redeem writes the three tables together.
LEMMA RedemptionInvCommit ==
  ASSUME RedemptionInv, TypeOK', NEW r \in Requests, CommitRedemption(r)
  PROVE  RedemptionInv'
<1> DEFINE v == req[r].voucher
           m == req[r].mac
           row == [session |-> r, voucher |-> v, mac |-> m]
<1>1. v \in Vouchers /\ m \in Macs /\ v # None /\ session[r].status = "NONE"
  BY RedemptionAssumption
  DEF CommitRedemption, RedemptionInv, TypeOK, InFlight, NoSessionBeforeCommit
<1>2. \A e \in redeemedLog : e.voucher # v /\ e.session # r
  BY <1>1 DEF CommitRedemption, Redeemable, RedemptionInv, UnusedIsUnlogged, LogNamesSessions
<1>3. /\ redeemedLog' = redeemedLog \cup {row}
      /\ session' = [session EXCEPT ![r] = [status |-> "ACTIVE", voucher |-> v, mac |-> m,
                                            expiresAt |-> req[r].until]]
  BY DEF CommitRedemption
<1>4. /\ \A u \in Vouchers : u # v => voucher'[u] = voucher[u]
      /\ voucher'[v].status = "REDEEMED"
      /\ voucher'[v].redeemedMac = m
  BY <1>1 DEF CommitRedemption, RedemptionInv, TypeOK
<1>5. /\ session'[r].voucher = v /\ session'[r].mac = m /\ session'[r].status = "ACTIVE"
      /\ \A s \in Requests : s # r => session'[s] = session[s]
  BY <1>3 DEF RedemptionInv, TypeOK
<1>6. /\ \A s \in Requests : s # r => req'[s] = req[s]
      /\ req'[r].pc = "unlock" /\ req'[r].voucher = v /\ req'[r].mac = m
  BY DEF CommitRedemption, RedemptionInv, TypeOK
<1>7. \A s \in Requests : session[s].voucher # v
  BY <1>1, <1>2 DEF RedemptionInv, SessionsAreLogged
<1>8. LogNamesSessions'
  <2> SUFFICES ASSUME NEW e \in redeemedLog'
               PROVE  /\ session'[e.session].status # "NONE"
                      /\ session'[e.session].mac = e.mac
                      /\ session'[e.session].voucher \in {e.voucher, None}
    BY DEF LogNamesSessions
  <2>1. CASE e = row
    BY <2>1, <1>5
  <2>2. CASE e \in redeemedLog
    <3>1. e.session \in Requests /\ e.session # r
      BY <2>2, <1>2 DEF RedemptionInv, TypeOK, AuditRow
    <3> QED
      BY <2>2, <3>1, <1>5 DEF RedemptionInv, LogNamesSessions
  <2> QED
    BY <2>1, <2>2, <1>3
<1>9. SessionsAreLogged'
  <2> SUFFICES ASSUME NEW s \in Requests, session'[s].voucher # None
               PROVE  /\ [session |-> s, voucher |-> session'[s].voucher, mac |-> session'[s].mac]
                            \in redeemedLog'
                      /\ voucher'[session'[s].voucher].status = "REDEEMED"
    BY DEF SessionsAreLogged
  <2>1. CASE s = r
    BY <2>1, <1>3, <1>4, <1>5
  <2>2. CASE s # r
    <3>1. session[s].voucher \in Vouchers /\ session[s].voucher # v
      BY <2>2, <1>5, <1>7 DEF RedemptionInv, TypeOK, SessionRow
    <3> QED
      BY <2>2, <3>1, <1>3, <1>4, <1>5 DEF RedemptionInv, SessionsAreLogged
  <2> QED
    BY <2>1, <2>2
<1>10. OneRowPerVoucher'
  BY <1>2, <1>3 DEF RedemptionInv, OneRowPerVoucher
<1>11. UnusedIsUnlogged'
  BY <1>3, <1>4 DEF RedemptionInv, UnusedIsUnlogged
<1>12. RedeemedIsBound'
  <2> SUFFICES ASSUME NEW u \in Vouchers, voucher'[u].status = "REDEEMED"
               PROVE  \E s \in Requests : /\ session'[s].voucher = u
                                          /\ session'[s].mac = voucher'[u].redeemedMac
    BY DEF RedeemedIsBound
  <2>1. CASE u = v
    BY <2>1, <1>4, <1>5
  <2>2. CASE u # v
    <3>1. PICK s \in Requests : session[s].voucher = u /\ session[s].mac = voucher[u].redeemedMac
      BY <2>2, <1>4 DEF RedemptionInv, RedeemedIsBound
    <3>2. s # r
      BY <3>1, <1>1, RedemptionAssumption DEF RedemptionInv, SessionsAreLogged, LogNamesSessions
    <3> QED
      BY <2>2, <3>1, <3>2, <1>4, <1>5
  <2> QED
    BY <2>1, <2>2
<1>13. NoSessionBeforeCommit'
  BY <1>5, <1>6 DEF RedemptionInv, NoSessionBeforeCommit
<1> QED
  BY <1>8, <1>9, <1>10, <1>11, <1>12, <1>13 DEF RedemptionInv

\* The first statement of the job changes only the statuses of sessions.
LEMMA RedemptionInvExpireSessions ==
  ASSUME RedemptionInv, TypeOK', NEW j \in Jobs, ExpireSessions(j)
  PROVE  RedemptionInv'
<1>1. \A r \in Requests : /\ session'[r].voucher = session[r].voucher
                          /\ session'[r].mac = session[r].mac
                          /\ session'[r].status = "NONE" <=> session[r].status = "NONE"
  BY DEF ExpireSessions, Stale, RedemptionInv, TypeOK, SessionRow
<1>2. UNCHANGED <<voucher, redeemedLog, req>>
  BY DEF ExpireSessions
<1>3. LogNamesSessions'
  BY <1>1, <1>2 DEF RedemptionInv, TypeOK, AuditRow, LogNamesSessions
<1>4. SessionsAreLogged'
  BY <1>1, <1>2 DEF RedemptionInv, SessionsAreLogged
<1>5. RedeemedIsBound'
  BY <1>1, <1>2 DEF RedemptionInv, RedeemedIsBound
<1>6. NoSessionBeforeCommit'
  BY <1>1, <1>2 DEF RedemptionInv, NoSessionBeforeCommit
<1> QED
  BY <1>2, <1>3, <1>4, <1>5, <1>6
  DEF RedemptionInv, OneRowPerVoucher, UnusedIsUnlogged

\* The second statement, and the creation of a voucher, never touch a voucher that
\* is REDEEMED and never make one so.
LEMMA RedemptionInvUnused ==
  ASSUME RedemptionInv, TypeOK', UNCHANGED <<session, redeemedLog, req>>,
         \A v \in Vouchers :
           \/ voucher'[v] = voucher[v]
           \/ /\ voucher[v].status \in {"UNISSUED", "ACTIVE"}
              /\ voucher'[v].status \in {"ACTIVE", "EXPIRED"}
  PROVE  RedemptionInv'
<1>1. SessionsAreLogged'
  <2>1. ASSUME NEW r \in Requests, session[r].voucher # None
        PROVE  voucher'[session[r].voucher].status = "REDEEMED"
    <3>1. session[r].voucher \in Vouchers
      BY <2>1 DEF RedemptionInv, TypeOK, SessionRow
    <3>2. voucher[session[r].voucher].status = "REDEEMED"
      BY <2>1 DEF RedemptionInv, SessionsAreLogged
    <3> QED
      BY <3>1, <3>2
  <2>2. session' = session /\ redeemedLog' = redeemedLog
    OBVIOUS
  <2> QED
    BY <2>1, <2>2 DEF RedemptionInv, SessionsAreLogged
<1>2. UnusedIsUnlogged'
  BY DEF RedemptionInv, UnusedIsUnlogged
<1>3. RedeemedIsBound'
  BY DEF RedemptionInv, RedeemedIsBound
<1> QED
  BY <1>1, <1>2, <1>3
  DEF RedemptionInv, LogNamesSessions, OneRowPerVoucher, NoSessionBeforeCommit

\* Deleting the plan removes every stored voucher and cuts every session loose.
LEMMA RedemptionInvRemovePlan ==
  ASSUME RedemptionInv, TypeOK', RemovePlan
  PROVE  RedemptionInv'
<1>1. \A r \in Requests : /\ session'[r].voucher = None
                          /\ session'[r].mac = session[r].mac
                          /\ session'[r].status = session[r].status
  BY DEF RemovePlan, RedemptionInv, TypeOK, SessionRow
<1>2. \A v \in Vouchers : \/ voucher'[v].status = "REMOVED"
                          \/ voucher'[v].status = "UNISSUED" /\ voucher'[v] = voucher[v]
  BY DEF RemovePlan, Stored, RedemptionInv, TypeOK, VoucherRow, VoucherStatuses
<1>3. UNCHANGED <<redeemedLog, req>>
  BY DEF RemovePlan
<1>4. LogNamesSessions'
  BY <1>1, <1>3 DEF RedemptionInv, TypeOK, AuditRow, LogNamesSessions
<1>5. SessionsAreLogged'
  BY <1>1 DEF SessionsAreLogged
<1>6. UnusedIsUnlogged'
  BY <1>2, <1>3 DEF RedemptionInv, UnusedIsUnlogged
<1>7. RedeemedIsBound'
  BY <1>2 DEF RedeemedIsBound
<1>8. NoSessionBeforeCommit'
  BY <1>1, <1>3 DEF RedemptionInv, NoSessionBeforeCommit
<1> QED
  BY <1>3, <1>4, <1>5, <1>6, <1>7, <1>8 DEF RedemptionInv, OneRowPerVoucher

\* Every step keeps the invariant, by the lemma of what it writes.
LEMMA RedemptionInvStep == RedemptionInv /\ [Next]_vars => RedemptionInv'
<1> SUFFICES ASSUME RedemptionInv, [Next]_vars
             PROVE  RedemptionInv'
  OBVIOUS
<1>0. TypeOK /\ TypeOK'
  BY TypeStep DEF RedemptionInv
<1>1. ASSUME NEW v \in Vouchers, BatchCreate(v) PROVE RedemptionInv'
  BY <1>0, <1>1, RedemptionInvUnused DEF BatchCreate, TypeOK, VoucherRow
<1>2. CASE BatchBegin \/ BatchAudit \/ BatchFail
  BY <1>0, <1>2, RedemptionInvFrame DEF BatchBegin, BatchAudit, BatchFail
<1>3. ASSUME NEW r \in Requests, FindVoucher(r) \/ CheckLicense(r) \/ AcquireLock(r)
                                 \/ RefuseRedemption(r) \/ AbortRedemption(r)
      PROVE  RedemptionInv'
  <2>1. req[r].pc \in {"idle", "license", "lock", "transaction"}
    BY <1>3 DEF FindVoucher, CheckLicense, AcquireLock, RefuseRedemption, AbortRedemption
  <2>2. \A s \in Requests : s # r => req'[s] = req[s]
    BY <1>0, <1>3
    DEF FindVoucher, CheckLicense, AcquireLock, RefuseRedemption, AbortRedemption, TypeOK
  <2>3. UNCHANGED <<voucher, session, redeemedLog>>
    BY <1>3 DEF FindVoucher, CheckLicense, AcquireLock, RefuseRedemption, AbortRedemption
  <2> QED
    BY <1>0, <2>1, <2>2, <2>3, RedemptionInvCall
<1>4. ASSUME NEW r \in Requests, CommitRedemption(r) PROVE RedemptionInv'
  BY <1>0, <1>4, RedemptionInvCommit
<1>5. ASSUME NEW r \in Requests, ReleaseLock(r) PROVE RedemptionInv'
  <2>1. req' = [req EXCEPT ![r] = Ended(r, req[r].answer)]
    BY <1>5 DEF ReleaseLock
  <2>2. Ended(r, req[r].answer).pc = "done"
    BY <1>0, CallFacts, EndedCall DEF TypeOK
  <2> QED
    BY <1>0, <1>5, <2>1, <2>2, RedemptionInvCall DEF ReleaseLock, TypeOK
<1>6. ASSUME NEW v \in Vouchers, LockLapse(v) PROVE RedemptionInv'
  BY <1>0, <1>6, RedemptionInvFrame DEF LockLapse
<1>7. ASSUME NEW j \in Jobs, JobStart(j) PROVE RedemptionInv'
  BY <1>0, <1>7, RedemptionInvFrame DEF JobStart
<1>8. ASSUME NEW j \in Jobs, ExpireSessions(j) PROVE RedemptionInv'
  BY <1>0, <1>8, RedemptionInvExpireSessions
<1>9. ASSUME NEW j \in Jobs, ExpireVouchers(j) PROVE RedemptionInv'
  <2>1. \A v \in Vouchers :
          \/ voucher'[v] = voucher[v]
          \/ /\ voucher[v].status \in {"UNISSUED", "ACTIVE"}
             /\ voucher'[v].status \in {"ACTIVE", "EXPIRED"}
    BY <1>0, <1>9 DEF ExpireVouchers, Stale, TypeOK, VoucherRow
  <2> QED
    BY <1>0, <1>9, <2>1, RedemptionInvUnused DEF ExpireVouchers
<1>10. CASE RemovePlan
  BY <1>0, <1>10, RedemptionInvRemovePlan
<1>11. CASE Operator /\ ~RemovePlan
  BY <1>0, <1>11, RedemptionInvFrame DEF Operator, SetLicense, UpdatePlan
<1>12. CASE Crash
  <2>1. \A r \in Requests : req'[r] = req[r] \/ req'[r] = Ended(r, "failed")
    BY <1>12 DEF Crash
  <2>2. \A r \in Requests : req'[r] = req[r] \/ req'[r].pc = "done"
    BY <1>0, <2>1, EndedCall DEF TypeOK, Answers
  <2> QED
    BY <1>0, <1>12, <2>2, RedemptionInvCall DEF Crash
<1>13. CASE Tick
  BY <1>0, <1>13, RedemptionInvFrame DEF Tick
<1>14. CASE UNCHANGED vars
  BY <1>0, <1>14, RedemptionInvFrame DEF vars
<1> QED
  BY <1>1, <1>2, <1>3, <1>4, <1>5, <1>6, <1>7, <1>8, <1>9, <1>10, <1>11, <1>12,
     <1>13, <1>14
  DEF Next, CreateBatch, Redeem, Transaction, ExpireStaleRecords

\* The invariant holds in every reachable state.
LEMMA RedemptionInvariance == Spec => []RedemptionInv
  BY RedemptionInvInit, RedemptionInvStep, PTL DEF Spec

-----------------------------------------------------------------------------
(* The safety properties follow from the invariant.                         *)

\* Two sessions of a voucher would be two rows for it, which the invariant excludes.
LEMMA OneSessionHolds == RedemptionInv => OneSessionPerVoucher
  BY DEF RedemptionInv, SessionsAreLogged, OneRowPerVoucher, OneSessionPerVoucher

\* A voucher opens at most one session: for any number of concurrent calls, with
\* the Redis lock lapsing at any moment and the process crashing at any await.
THEOREM OneSessionPerVoucherTheorem == Spec => []OneSessionPerVoucher
  BY RedemptionInvariance, OneSessionHolds, PTL

\* The invariant pairs every audit entry with a session, and a redeemed row with both.
LEMMA RecordedHolds == RedemptionInv => RedemptionIsRecorded
<1> SUFFICES ASSUME RedemptionInv, NEW v \in Vouchers
             PROVE  LET uses == {e \in redeemedLog : e.voucher = v} IN
                    /\ Stored(v) =>
                         (voucher[v].status = "REDEEMED" <=>
                            \E r \in Requests : session[r].voucher = v)
                    /\ \A r \in Requests :
                         session[r].voucher = v =>
                           /\ session[r].mac = voucher[v].redeemedMac
                           /\ uses = {[session |-> r, voucher |-> v, mac |-> session[r].mac]}
  BY DEF RedemptionIsRecorded
<1> DEFINE row(r) == [session |-> r, voucher |-> v, mac |-> session[r].mac]
<1>1. v # None
  BY RedemptionAssumption
<1>2. \A r \in Requests :
        session[r].voucher = v => row(r) \in redeemedLog /\ voucher[v].status = "REDEEMED"
  BY <1>1 DEF RedemptionInv, SessionsAreLogged
<1>3. \A r \in Requests :
        session[r].voucher = v => {e \in redeemedLog : e.voucher = v} = {row(r)}
  <2> SUFFICES ASSUME NEW r \in Requests, session[r].voucher = v
               PROVE  \A e : e \in {f \in redeemedLog : f.voucher = v} <=> e = row(r)
    OBVIOUS
  <2>1. row(r) \in redeemedLog /\ row(r).voucher = v
    BY <1>2
  <2> HIDE DEF row
  <2> QED
    BY <2>1 DEF RedemptionInv, OneRowPerVoucher
<1>4. ASSUME NEW r \in Requests, session[r].voucher = v
      PROVE  session[r].mac = voucher[v].redeemedMac
  <2>1. PICK s \in Requests : session[s].voucher = v /\ session[s].mac = voucher[v].redeemedMac
    BY <1>2, <1>4 DEF RedemptionInv, RedeemedIsBound
  <2>2. s = r
    BY <1>1, <1>4, <2>1, OneSessionHolds DEF OneSessionPerVoucher
  <2> QED
    BY <2>1, <2>2
<1>5. voucher[v].status = "REDEEMED" => \E r \in Requests : session[r].voucher = v
  BY DEF RedemptionInv, RedeemedIsBound
<1> QED
  BY <1>2, <1>3, <1>4, <1>5

\* The Voucher, WifiSession and AuditLog tables agree on who redeemed what.
THEOREM RedemptionIsRecordedTheorem == Spec => []RedemptionIsRecorded
  BY RedemptionInvariance, RecordedHolds, PTL

\* No step takes a voucher out of REDEEMED, or out of EXPIRED, but its removal.
LEMMA FinalStep ==
  ASSUME TypeOK, [Next]_vars, NEW v \in Vouchers
  PROVE  /\ voucher[v].status \in {"REDEEMED", "EXPIRED"} =>
              \/ voucher'[v] = voucher[v]
              \/ voucher'[v] = [voucher[v] EXCEPT !.status = "REMOVED"]
         /\ voucher[v].status = "REMOVED" => voucher'[v] = voucher[v]
<1>0. voucher \in [Vouchers -> VoucherRow]
  BY DEF TypeOK
<1>1. ASSUME NEW u \in Vouchers, BatchCreate(u)
      PROVE  voucher[u].status = "UNISSUED" /\ (u # v => voucher'[v] = voucher[v])
  BY <1>0, <1>1 DEF BatchCreate
<1>2. ASSUME NEW r \in Requests, CommitRedemption(r)
      PROVE  voucher[v].status # "ACTIVE" => voucher'[v] = voucher[v]
  BY <1>0, <1>2 DEF CommitRedemption, Redeemable
<1>3. ASSUME NEW j \in Jobs, ExpireVouchers(j)
      PROVE  voucher[v].status # "ACTIVE" => voucher'[v] = voucher[v]
  BY <1>3 DEF ExpireVouchers, Stale
<1>4. ASSUME RemovePlan
      PROVE  voucher'[v] = IF Stored(v) THEN [voucher[v] EXCEPT !.status = "REMOVED"]
                                        ELSE voucher[v]
  BY <1>4 DEF RemovePlan
<1>5. CASE UNCHANGED voucher
  BY <1>5
<1> QED
  BY <1>1, <1>2, <1>3, <1>4, <1>5
  DEF Next, CreateBatch, Redeem, Transaction, ExpireStaleRecords, Operator, Crash, Tick, vars,
      BatchBegin, BatchAudit, BatchFail, FindVoucher, CheckLicense, AcquireLock,
      RefuseRedemption, AbortRedemption, ReleaseLock, LockLapse, JobStart, ExpireSessions,
      SetLicense, UpdatePlan, Stored

\* The job and redeem, racing on the same row, never undo each other.
THEOREM StatusIsFinalTheorem == Spec => StatusIsFinal
<1>1. TypeOK /\ [Next]_vars =>
        [\A v \in Vouchers :
           /\ voucher[v].status \in {"REDEEMED", "EXPIRED"} =>
                \/ voucher'[v] = voucher[v]
                \/ voucher'[v] = [voucher[v] EXCEPT !.status = "REMOVED"]
           /\ voucher[v].status = "REMOVED" => voucher'[v] = voucher[v]]_vars
  BY FinalStep
<1> QED
  BY <1>1, TypeCorrect, PTL DEF Spec, StatusIsFinal

-----------------------------------------------------------------------------
(* What the guests are told.                                                *)

BeforeCommit == {"idle", "license", "lock", "transaction"}

\* An answer is given by the transaction, about a voucher that has been issued.
Truthful(r) ==
  /\ req[r].pc \in BeforeCommit => req[r].answer = "none"
  /\ req[r].voucher # None => voucher[req[r].voucher].status # "UNISSUED"
  /\ req[r].answer \in {"redeemed", "already"} => req[r].voucher # None
  /\ req[r].answer = "redeemed" =>
       /\ session[r].status # "NONE"
       /\ session[r].mac = req[r].mac
       /\ [session |-> r, voucher |-> req[r].voucher, mac |-> req[r].mac] \in redeemedLog
  /\ req[r].answer = "already" => ~Redeemable(req[r].voucher)

\* What every step does to the tables: rows are never forgotten, and a voucher that
\* is not valid any more does not become so again.
TablesGrow ==
  /\ \A v \in Vouchers :
       /\ voucher[v].status # "UNISSUED" => voucher'[v].status # "UNISSUED"
       /\ voucher[v].status \notin {"UNISSUED", "ACTIVE"} => voucher'[v].status # "ACTIVE"
  /\ \A r \in Requests : session[r].status # "NONE" =>
       session'[r].status # "NONE" /\ session'[r].mac = session[r].mac
  /\ redeemedLog \subseteq redeemedLog'

LEMMA StepGrows == RedemptionInv /\ [Next]_vars => TablesGrow
<1> SUFFICES ASSUME RedemptionInv, [Next]_vars PROVE TablesGrow
  OBVIOUS
<1>0. voucher \in [Vouchers -> VoucherRow] /\ session \in [Requests -> SessionRow]
  BY DEF RedemptionInv, TypeOK
<1>1. ASSUME NEW v \in Vouchers, BatchCreate(v) PROVE TablesGrow
  BY <1>0, <1>1 DEF BatchCreate, TablesGrow
<1>2. ASSUME NEW r \in Requests, CommitRedemption(r) PROVE TablesGrow
  <2>1. session[r].status = "NONE"
    BY <1>2 DEF CommitRedemption, RedemptionInv, NoSessionBeforeCommit
  <2>2. \A v \in Vouchers : voucher'[v].status = voucher[v].status
                            \/ (voucher[v].status = "ACTIVE" /\ voucher'[v].status = "REDEEMED")
    BY <1>0, <1>2 DEF CommitRedemption, Redeemable, VoucherRow
  <2>3. \A q \in Requests : q # r => session'[q] = session[q]
    BY <1>0, <1>2 DEF CommitRedemption
  <2>4. redeemedLog \subseteq redeemedLog'
    BY <1>2 DEF CommitRedemption
  <2> QED
    BY <2>1, <2>2, <2>3, <2>4 DEF TablesGrow
<1>3. ASSUME NEW j \in Jobs, ExpireSessions(j) \/ ExpireVouchers(j) PROVE TablesGrow
  <2>1. \A v \in Vouchers : voucher'[v].status = voucher[v].status
                            \/ (voucher[v].status = "ACTIVE" /\ voucher'[v].status = "EXPIRED")
    BY <1>0, <1>3 DEF ExpireSessions, ExpireVouchers, Stale, VoucherRow
  <2>2. \A r \in Requests : /\ session'[r].status \in {session[r].status, "EXPIRED"}
                            /\ session'[r].mac = session[r].mac
    BY <1>0, <1>3 DEF ExpireSessions, ExpireVouchers, SessionRow
  <2>3. redeemedLog' = redeemedLog
    BY <1>3 DEF ExpireSessions, ExpireVouchers
  <2> QED
    BY <2>1, <2>2, <2>3 DEF TablesGrow
<1>4. CASE RemovePlan
  <2>1. \A v \in Vouchers : voucher'[v].status \in {voucher[v].status, "REMOVED"}
    BY <1>0, <1>4 DEF RemovePlan, VoucherRow
  <2>2. \A r \in Requests : session'[r].status = session[r].status /\ session'[r].mac = session[r].mac
    BY <1>0, <1>4 DEF RemovePlan, SessionRow
  <2>3. redeemedLog' = redeemedLog
    BY <1>4 DEF RemovePlan
  <2> QED
    BY <2>1, <2>2, <2>3 DEF TablesGrow
<1>5. CASE UNCHANGED <<voucher, session, redeemedLog>>
  BY <1>5 DEF TablesGrow
<1> QED
  BY <1>1, <1>2, <1>3, <1>4, <1>5
  DEF Next, CreateBatch, Redeem, Transaction, ExpireStaleRecords, Operator, Crash, Tick, vars,
      BatchBegin, BatchAudit, BatchFail, FindVoucher, CheckLicense, AcquireLock,
      RefuseRedemption, AbortRedemption, ReleaseLock, LockLapse, JobStart, SetLicense, UpdatePlan

\* A call that stays, or gives up, keeps to the truth.
Persists(r) ==
  /\ req'[r].voucher = req[r].voucher /\ req'[r].mac = req[r].mac
  /\ req'[r].answer \in {req[r].answer, "refused", "failed"}
  /\ req'[r].pc \in BeforeCommit => req[r].pc \in BeforeCommit /\ req'[r].answer = req[r].answer

LEMMA TruthPersists ==
  ASSUME TypeOK, TablesGrow, NEW r \in Requests, Truthful(r), Persists(r)
  PROVE  Truthful(r)'
<1>1. req[r].voucher \in Vouchers \cup {None}
  BY DEF TypeOK, Call
<1>2. req[r].voucher # None => voucher'[req[r].voucher].status # "UNISSUED"
  BY <1>1 DEF Truthful, TablesGrow
<1>3. req[r].answer = "already" => voucher'[req[r].voucher].status # "ACTIVE"
  BY <1>1 DEF Truthful, TablesGrow, Redeemable
<1>4. req[r].answer = "redeemed" =>
        /\ session'[r].status # "NONE" /\ session'[r].mac = req[r].mac
        /\ [session |-> r, voucher |-> req[r].voucher, mac |-> req[r].mac] \in redeemedLog'
  BY DEF Truthful, TablesGrow
<1> QED
  BY <1>2, <1>3, <1>4 DEF Truthful, Persists, Redeemable

LEMMA TruthStep ==
  ASSUME RedemptionInv, [Next]_vars, NEW r \in Requests, Truthful(r)
  PROVE  Truthful(r)'
<1>0. TypeOK /\ TypeOK' /\ TablesGrow
  BY TypeStep, StepGrows DEF RedemptionInv
<1>1. ASSUME Persists(r) PROVE Truthful(r)'
  BY <1>0, <1>1, TruthPersists
<1>2. CASE req'[r] = req[r]
  BY <1>1, <1>2 DEF Persists
<1>3. ASSUME NEW q \in Requests, q # r, Redeem(q) PROVE req'[r] = req[r]
  BY <1>0, <1>3
  DEF Redeem, Transaction, FindVoucher, CheckLicense, AcquireLock, CommitRedemption,
      RefuseRedemption, AbortRedemption, ReleaseLock, TypeOK
<1>4. ASSUME NEW answer \in {"refused", "failed", req[r].answer}, req'[r] = Ended(r, answer)
      PROVE  Truthful(r)'
  <2>1. answer \in Answers
    BY <1>0, CallFacts DEF Answers
  <2> QED
    BY <1>0, <1>1, <1>4, <2>1, EndedCall DEF TypeOK, Persists, BeforeCommit
<1>5. CASE FindVoucher(r)
  <2>1. CASE req'[r] = Ended(r, "refused")
    BY <1>4, <2>1
  <2>2. ASSUME NEW v \in Vouchers, NEW m \in Macs, Stored(v),
               req' = [req EXCEPT ![r] = [pc |-> "license", voucher |-> v, mac |-> m,
                         seen |-> [status |-> voucher[v].status,
                                   expiresAt |-> voucher[v].expiresAt, mins |-> planMins],
                         until |-> 0, answer |-> "none"]]
        PROVE  Truthful(r)'
    <3>1. req'[r].voucher = v /\ req'[r].answer = "none"
      BY <1>0, <2>2 DEF TypeOK
    <3>2. voucher'[v].status # "UNISSUED"
      BY <1>0, <2>2 DEF TablesGrow, Stored
    <3> QED
      BY <3>1, <3>2 DEF Truthful
  <2> QED
    BY <1>0, <1>5, <2>1, <2>2 DEF FindVoucher, TypeOK
<1>6. CASE CheckLicense(r) \/ AcquireLock(r)
  <2>1. \/ req'[r] = Ended(r, "refused")
        \/ /\ req[r].pc \in BeforeCommit
           /\ \/ req'[r] = [req[r] EXCEPT !.pc = "lock"]
              \/ req'[r] = [req[r] EXCEPT !.pc = "transaction", !.until = SessionEnd(r)]
    BY <1>0, <1>6 DEF CheckLicense, AcquireLock, TypeOK, BeforeCommit
  <2>2. req[r] \in Call
    BY <1>0 DEF TypeOK
  <2>3. ASSUME req'[r] # Ended(r, "refused") PROVE Persists(r)
    BY <2>1, <2>2, <2>3 DEF Persists, Call
  <2> QED
    BY <1>1, <1>4, <2>3
<1>7. CASE CommitRedemption(r)
  <2>1. req[r].voucher \in Vouchers /\ req[r].mac \in Macs /\ req[r] \in Call
    BY <1>0, <1>7, CallFacts DEF CommitRedemption, InFlight
  <2>2. PICK answer \in {"redeemed", "failed"} :
          req' = [req EXCEPT ![r] = [req[r] EXCEPT !.pc = "unlock", !.answer = answer]]
    BY <1>7 DEF CommitRedemption
  <2>3. /\ req'[r].pc = "unlock" /\ req'[r].answer = answer
        /\ req'[r].voucher = req[r].voucher /\ req'[r].mac = req[r].mac
    BY <1>0, <2>1, <2>2 DEF TypeOK, Call
  <2>4. session'[r].status = "ACTIVE" /\ session'[r].mac = req[r].mac
    BY <1>0, <1>7 DEF CommitRedemption, TypeOK
  <2>5. [session |-> r, voucher |-> req[r].voucher, mac |-> req[r].mac] \in redeemedLog'
    BY <1>7 DEF CommitRedemption
  <2>6. voucher'[req[r].voucher].status = "REDEEMED"
    BY <1>0, <1>7, <2>1 DEF CommitRedemption, TypeOK, VoucherRow
  <2>7. req[r].voucher # None
    BY <2>1, RedemptionAssumption
  <2> QED
    BY <2>3, <2>4, <2>5, <2>6, <2>7 DEF Truthful, BeforeCommit
<1>8. CASE RefuseRedemption(r)
  <2>1. req[r].voucher \in Vouchers /\ req[r] \in Call
    BY <1>0, <1>8, CallFacts DEF RefuseRedemption, InFlight
  <2>2. req' = [req EXCEPT ![r] = [req[r] EXCEPT !.pc = "unlock", !.answer = "already"]]
    BY <1>8 DEF RefuseRedemption
  <2>3. /\ req'[r].pc = "unlock" /\ req'[r].answer = "already"
        /\ req'[r].voucher = req[r].voucher
    BY <1>0, <2>1, <2>2 DEF TypeOK, Call
  <2>4. voucher' = voucher /\ voucher[req[r].voucher].status # "ACTIVE"
    BY <1>8 DEF RefuseRedemption, Redeemable
  <2>5. req[r].voucher # None
    BY <2>1, RedemptionAssumption
  <2> QED
    BY <2>3, <2>4, <2>5 DEF Truthful, BeforeCommit, Redeemable
<1>9. CASE AbortRedemption(r)
  <2>1. req[r] \in Call
    BY <1>0 DEF TypeOK
  <2>2. req' = [req EXCEPT ![r] = [req[r] EXCEPT !.pc = "unlock", !.answer = "failed"]]
    BY <1>9 DEF AbortRedemption
  <2>3. Persists(r)
    BY <1>0, <2>1, <2>2 DEF TypeOK, Call, Persists, BeforeCommit
  <2> QED
    BY <1>1, <2>3
<1>10. CASE ReleaseLock(r)
  <2>1. req'[r] = Ended(r, req[r].answer)
    BY <1>0, <1>10 DEF ReleaseLock, TypeOK
  <2> QED
    BY <1>4, <2>1
<1>11. CASE Crash
  BY <1>2, <1>4, <1>11 DEF Crash
<1>12. CASE UNCHANGED req
  BY <1>2, <1>12
<1> QED
  BY <1>2, <1>3, <1>5, <1>6, <1>7, <1>8, <1>9, <1>10, <1>11, <1>12
  DEF Next, CreateBatch, Redeem, Transaction, ExpireStaleRecords, Operator, Tick, vars,
      BatchBegin, BatchCreate, BatchAudit, BatchFail, LockLapse, JobStart, ExpireSessions,
      ExpireVouchers, SetLicense, UpdatePlan, RemovePlan

\* Nobody is told "redeemed" without a session, nor "already redeemed" of a voucher
\* that can still be redeemed, for any number of calls and crashes
\* (vouchers.service.ts:228-360).
THEOREM AnsweredTruthfullyTheorem == Spec => []AnsweredTruthfully
<1> DEFINE AllTruthful == \A r \in Requests : Truthful(r)
<1>1. Init => AllTruthful
  BY DEF Init, Truthful, NoSnapshot
<1>2. RedemptionInv /\ [Next]_vars /\ AllTruthful => AllTruthful'
  BY TruthStep
<1>3. AllTruthful => AnsweredTruthfully
  BY DEF Truthful, AnsweredTruthfully
<1> HIDE DEF AllTruthful
<1> QED
  BY <1>1, <1>2, <1>3, RedemptionInvariance, PTL DEF Spec

-----------------------------------------------------------------------------
(* The deadlines of the job.                                                *)

\* A run's `now' is not in the future, and what has expired was due.
JobsAreLate == ExpiredOnlyAfterDeadline /\ \A j \in Jobs : job[j].now <= clock

LEMMA DeadlineStep == TypeOK /\ JobsAreLate /\ [Next]_vars => JobsAreLate'
<1> SUFFICES ASSUME TypeOK, JobsAreLate, [Next]_vars PROVE JobsAreLate'
  OBVIOUS
<1>0. /\ voucher \in [Vouchers -> VoucherRow] /\ session \in [Requests -> SessionRow]
      /\ job \in [Jobs -> JobRun] /\ clock \in Nat
  BY RedemptionAssumption DEF TypeOK, Time
<1>1. clock' \in Nat /\ clock <= clock'
  <2>1. CASE Tick
    BY <1>0, <2>1 DEF Tick
  <2>2. CASE clock' = clock
    BY <1>0, <2>2
  <2> QED
    BY <2>1, <2>2
    DEF Next, CreateBatch, Redeem, Transaction, ExpireStaleRecords, Operator, Crash, vars,
        BatchBegin, BatchCreate, BatchAudit, BatchFail, FindVoucher, CheckLicense, AcquireLock,
        CommitRedemption, RefuseRedemption, AbortRedemption, ReleaseLock, LockLapse, JobStart,
        ExpireSessions, ExpireVouchers, SetLicense, UpdatePlan, RemovePlan
<1>2. \A j \in Jobs : job'[j].now \in {job[j].now, clock, 0}
  <2>1. ASSUME NEW i \in Jobs, JobStart(i) PROVE <1>2
    BY <1>0, <2>1 DEF JobStart
  <2>2. ASSUME NEW i \in Jobs, NEW part, job' = [job EXCEPT ![i] = Without(i, part)] PROVE <1>2
    <3>1. Without(i, part).now \in {job[i].now, 0}
      BY DEF Without
    <3> QED
      BY <1>0, <2>2, <3>1
  <2>3. ASSUME NEW i \in Jobs, ExpireSessions(i) \/ ExpireVouchers(i) PROVE <1>2
    BY <2>2, <2>3 DEF ExpireSessions, ExpireVouchers
  <2>4. CASE Crash
    BY <2>4 DEF Crash
  <2>5. CASE UNCHANGED job
    BY <2>5
  <2> QED
    BY <2>1, <2>3, <2>4, <2>5
    DEF Next, CreateBatch, Redeem, Transaction, ExpireStaleRecords, Operator, Tick, vars,
        BatchBegin, BatchCreate, BatchAudit, BatchFail, FindVoucher, CheckLicense, AcquireLock,
        CommitRedemption, RefuseRedemption, AbortRedemption, ReleaseLock, LockLapse,
        SetLicense, UpdatePlan, RemovePlan
<1>3. \A j \in Jobs : job[j].now \in Nat /\ job[j].now <= clock
  BY <1>0, RedemptionAssumption DEF JobsAreLate, JobRun, Time
<1>4. \A j \in Jobs : job'[j].now <= clock'
  BY <1>0, <1>1, <1>2, <1>3
<1>5. \A v \in Vouchers : voucher'[v].status = "EXPIRED" =>
        /\ voucher'[v].expiresAt = voucher[v].expiresAt
        /\ voucher[v].status = "EXPIRED" \/ \E j \in Jobs : voucher[v].expiresAt < job[j].now
  <2>1. ASSUME NEW v \in Vouchers, BatchCreate(v) PROVE <1>5
    BY <1>0, <2>1 DEF BatchCreate
  <2>2. ASSUME NEW r \in Requests, CommitRedemption(r) PROVE <1>5
    BY <1>0, <2>2 DEF CommitRedemption
  <2>3. ASSUME NEW j \in Jobs, ExpireVouchers(j) PROVE <1>5
    BY <1>0, <2>3 DEF ExpireVouchers, Stale, VoucherRow
  <2>4. CASE RemovePlan
    BY <1>0, <2>4 DEF RemovePlan, VoucherRow
  <2>5. CASE UNCHANGED voucher
    BY <2>5
  <2> QED
    BY <2>1, <2>2, <2>3, <2>4, <2>5
    DEF Next, CreateBatch, Redeem, Transaction, ExpireStaleRecords, Operator, Crash, Tick, vars,
        BatchBegin, BatchAudit, BatchFail, FindVoucher, CheckLicense, AcquireLock,
        RefuseRedemption, AbortRedemption, ReleaseLock, LockLapse, JobStart, ExpireSessions,
        SetLicense, UpdatePlan
<1>6. \A r \in Requests : session'[r].status = "EXPIRED" =>
        /\ session'[r].expiresAt = session[r].expiresAt
        /\ session[r].status = "EXPIRED" \/ \E j \in Jobs : session[r].expiresAt < job[j].now
  <2>1. ASSUME NEW r \in Requests, CommitRedemption(r) PROVE <1>6
    BY <1>0, <2>1 DEF CommitRedemption
  <2>2. ASSUME NEW j \in Jobs, ExpireSessions(j) PROVE <1>6
    BY <1>0, <2>2 DEF ExpireSessions, Stale, SessionRow
  <2>3. CASE RemovePlan
    BY <1>0, <2>3 DEF RemovePlan, SessionRow
  <2>4. CASE UNCHANGED session
    BY <2>4
  <2> QED
    BY <2>1, <2>2, <2>3, <2>4
    DEF Next, CreateBatch, Redeem, Transaction, ExpireStaleRecords, Operator, Crash, Tick, vars,
        BatchBegin, BatchCreate, BatchAudit, BatchFail, FindVoucher, CheckLicense, AcquireLock,
        RefuseRedemption, AbortRedemption, ReleaseLock, LockLapse, JobStart, ExpireVouchers,
        SetLicense, UpdatePlan
<1>7. \A e, n \in Nat : e < n /\ n <= clock => e < clock'
  BY <1>0, <1>1
<1>8. \A v \in Vouchers : voucher'[v].status = "EXPIRED" => voucher'[v].expiresAt < clock'
  BY <1>0, <1>1, <1>3, <1>5, <1>7 DEF JobsAreLate, ExpiredOnlyAfterDeadline, VoucherRow
<1>9. \A r \in Requests : session'[r].status = "EXPIRED" => session'[r].expiresAt < clock'
  BY <1>0, <1>1, <1>3, <1>6, <1>7 DEF JobsAreLate, ExpiredOnlyAfterDeadline, SessionRow
<1> QED
  BY <1>4, <1>8, <1>9 DEF JobsAreLate, ExpiredOnlyAfterDeadline

\* No voucher or session is expired before its time, for any number of runs of the job
\* that overlap (expiry.service.ts:9-37).
THEOREM ExpiredOnlyAfterDeadlineTheorem == Spec => []ExpiredOnlyAfterDeadline
<1>1. Init => JobsAreLate
  BY DEF Init, JobsAreLate, ExpiredOnlyAfterDeadline
<1>2. JobsAreLate => ExpiredOnlyAfterDeadline
  BY DEF JobsAreLate
<1> QED
  BY <1>1, <1>2, DeadlineStep, TypeCorrect, PTL DEF Spec

-----------------------------------------------------------------------------
(* The cloud implements VoucherPass.                                        *)

\* What each change of a row means to its holder.
LEMMA PassValues ==
  ASSUME NEW v \in Vouchers
  PROVE  /\ voucher[v].status = "UNISSUED" => PassOf(v) = "unissued"
         /\ voucher[v].status = "ACTIVE"   => PassOf(v) = "valid"
         /\ voucher[v].status = "REDEEMED" => PassOf(v) = "used"
         /\ voucher[v].status = "EXPIRED"  => PassOf(v) = "lapsed"
         /\ voucher[v].status = "REMOVED"  => PassOf(v) = "withdrawn"
  BY DEF PassOf

\* An empty table is a state in which no pass was issued.
LEMMA PromiseInit == Init => Promise!Init
<1> SUFFICES ASSUME Init PROVE Promise!Init
  OBVIOUS
<1>1. \A v \in Vouchers : PassOf(v) = "unissued"
  BY PassValues DEF Init
<1>2. \A v \in Vouchers : AdmittedBy(v) = {}
  BY DEF Init, AdmittedBy
<1> QED
  BY <1>1, <1>2 DEF Promise!Init

\* A step that leaves every pass alone is a stutter of VoucherPass.
LEMMA PromiseFrame ==
  ASSUME UNCHANGED <<voucher, redeemedLog>>
  PROVE  UNCHANGED Promise!passVars
  BY DEF Promise!passVars, PassOf, AdmittedBy

\* A commit lets one device in, on a voucher that nobody had used.
LEMMA PromiseCommit ==
  ASSUME RedemptionInv, NEW r \in Requests, CommitRedemption(r),
         NEW v \in Vouchers, NEW m \in Macs, v = req[r].voucher, m = req[r].mac
  PROVE  Promise!Use(v, m)
<1> DEFINE row == [session |-> r, voucher |-> v, mac |-> m]
<1>1. v \in Vouchers /\ m \in Macs
  OBVIOUS
<1>2. voucher[v].status = "ACTIVE" /\ redeemedLog' = redeemedLog \cup {row}
  BY DEF CommitRedemption, Redeemable
<1>3. /\ voucher'[v].status = "REDEEMED"
      /\ \A u \in Vouchers : u # v => voucher'[u] = voucher[u]
  BY <1>1 DEF CommitRedemption, RedemptionInv, TypeOK
<1>4. PassOf(v) = "valid" /\ PassOf(v)' = "used"
  BY <1>1, <1>2, <1>3 DEF PassOf
<1>5. \A u \in Vouchers : u # v => PassOf(u)' = PassOf(u)
  BY <1>3 DEF PassOf
<1>6. \A e \in redeemedLog : e.voucher # v
  BY <1>1, <1>2 DEF RedemptionInv, UnusedIsUnlogged
<1>7. row.voucher = v /\ row.mac = m
  OBVIOUS
<1>8. AdmittedBy(v)' = {m}
  <2>1. {e \in redeemedLog' : e.voucher = v} = {row}
    BY <1>2, <1>6, <1>7
  <2> QED
    BY <2>1, <1>7 DEF AdmittedBy
<1>9. ASSUME NEW u \in Vouchers, u # v PROVE AdmittedBy(u)' = AdmittedBy(u)
  <2>1. {e \in redeemedLog' : e.voucher = u} = {e \in redeemedLog : e.voucher = u}
    BY <1>2, <1>7, <1>9
  <2> QED
    BY <2>1 DEF AdmittedBy
<1>10. [u \in Vouchers |-> PassOf(u)]' = [[u \in Vouchers |-> PassOf(u)] EXCEPT ![v] = "used"]
  BY <1>1, <1>4, <1>5
<1>11. [u \in Vouchers |-> AdmittedBy(u)]' = [[u \in Vouchers |-> AdmittedBy(u)] EXCEPT ![v] = {m}]
  BY <1>1, <1>8, <1>9
<1> QED
  BY <1>1, <1>4, <1>10, <1>11 DEF Promise!Use

\* Every step of the tables is a step of VoucherPass or a stutter.
LEMMA PromiseStep ==
  ASSUME RedemptionInv, [Next]_vars
  PROVE  [Promise!Next]_(Promise!passVars)
<1>0. voucher \in [Vouchers -> VoucherRow]
  BY DEF RedemptionInv, TypeOK
<1>1. ASSUME NEW v \in Vouchers, BatchCreate(v) PROVE Promise!Issue(v)
  <2>1. /\ voucher[v].status = "UNISSUED" /\ voucher'[v].status = "ACTIVE"
        /\ \A u \in Vouchers : u # v => voucher'[u] = voucher[u]
        /\ redeemedLog' = redeemedLog
    BY <1>0, <1>1 DEF BatchCreate, VoucherRow
  <2>2. PassOf(v) = "unissued" /\ PassOf(v)' = "valid"
    BY <2>1 DEF PassOf
  <2>3. \A u \in Vouchers : u # v => PassOf(u)' = PassOf(u)
    BY <2>1 DEF PassOf
  <2>4. [u \in Vouchers |-> PassOf(u)]' = [[u \in Vouchers |-> PassOf(u)] EXCEPT ![v] = "valid"]
    BY <2>2, <2>3
  <2> QED
    BY <2>1, <2>2, <2>4 DEF Promise!Issue, AdmittedBy
<1>2. ASSUME NEW r \in Requests, CommitRedemption(r) PROVE Promise!Next
  <2>1. PICK v \in Vouchers, m \in Macs : v = req[r].voucher /\ m = req[r].mac
    BY <1>2, CallFacts DEF RedemptionInv, CommitRedemption, InFlight
  <2>2. Promise!Use(v, m)
    BY <1>2, <2>1, PromiseCommit
  <2> QED
    BY <2>2 DEF Promise!Next
<1>3. ASSUME NEW j \in Jobs, ExpireVouchers(j) PROVE Promise!Next
  <2> DEFINE old == {v \in Vouchers : Stale(voucher[v], job[j].now)}
  <2>1. /\ \A v \in old : voucher[v].status = "ACTIVE" /\ voucher'[v].status = "EXPIRED"
        /\ \A v \in Vouchers \ old : voucher'[v] = voucher[v]
        /\ redeemedLog' = redeemedLog
    BY <1>0, <1>3 DEF ExpireVouchers, Stale, VoucherRow
  <2>2. \A v \in old : PassOf(v) = "valid" /\ PassOf(v)' = "lapsed"
    BY <2>1 DEF PassOf
  <2>3. \A v \in Vouchers \ old : PassOf(v)' = PassOf(v)
    BY <2>1 DEF PassOf
  <2>4. Promise!Lapse(old)
    BY <2>1, <2>2, <2>3 DEF Promise!Lapse, AdmittedBy
  <2> QED
    BY <2>4 DEF Promise!Next
<1>4. CASE RemovePlan
  <2> DEFINE gone == {v \in Vouchers : Stored(v)}
  <2>1. /\ \A v \in gone : /\ voucher[v].status \in {"ACTIVE", "REDEEMED", "EXPIRED"}
                           /\ voucher'[v].status = "REMOVED"
        /\ \A v \in Vouchers \ gone : voucher'[v] = voucher[v]
        /\ redeemedLog' = redeemedLog
    BY <1>0, <1>4 DEF RemovePlan, Stored, VoucherRow
  <2>2. \A v \in gone : PassOf(v) # "unissued" /\ PassOf(v)' = "withdrawn"
    BY <2>1 DEF PassOf
  <2>3. \A v \in Vouchers \ gone : PassOf(v)' = PassOf(v)
    BY <2>1 DEF PassOf
  <2>4. Promise!Withdraw(gone)
    BY <2>1, <2>2, <2>3 DEF Promise!Withdraw, AdmittedBy
  <2> QED
    BY <2>4 DEF Promise!Next
<1>5. CASE UNCHANGED <<voucher, redeemedLog>>
  BY <1>5, PromiseFrame
<1>6. ASSUME NEW v \in Vouchers, Promise!Issue(v) PROVE Promise!Next
  BY <1>6 DEF Promise!Next
<1> QED
  BY <1>1, <1>2, <1>3, <1>4, <1>5, <1>6
  DEF Next, CreateBatch, Redeem, Transaction, ExpireStaleRecords, Operator, Crash, Tick, vars,
      BatchBegin, BatchAudit, BatchFail, FindVoucher, CheckLicense, AcquireLock,
      RefuseRedemption, AbortRedemption, ReleaseLock, LockLapse, JobStart, ExpireSessions,
      SetLicense, UpdatePlan

\* The three tables of the cloud, moved by concurrent handlers and the job, keep
\* what VoucherPass promises the holder of a voucher.
THEOREM KeepsPromiseTheorem == Spec => KeepsPromise
<1>1. Init => Promise!Init
  BY PromiseInit
<1>2. RedemptionInv /\ [Next]_vars => [Promise!Next]_(Promise!passVars)
  BY PromiseStep
<1> QED
  BY <1>1, <1>2, RedemptionInvariance, PTL DEF Spec, KeepsPromise, Promise!Spec

-----------------------------------------------------------------------------
(* The session table implements the cloud of the gateway agent.             *)

\* The status of a row and the clock make the phase of its session.
LEMMA PhaseIs ==
  ASSUME TypeOK, TypeOK', NEW r \in Requests
  PROVE  /\ PhaseOf(r) = IF session[r].status = "NONE" THEN "none"
                         ELSE IF session[r].status = "EXPIRED" \/ session[r].expiresAt < clock
                         THEN "due" ELSE "active"
         /\ PhaseOf(r)' = IF session'[r].status = "NONE" THEN "none"
                          ELSE IF session'[r].status = "EXPIRED" \/ session'[r].expiresAt < clock'
                          THEN "due" ELSE "active"
<1>1. /\ session[r].status \in {"NONE", "ACTIVE", "EXPIRED"}
      /\ session'[r].status \in {"NONE", "ACTIVE", "EXPIRED"}
  BY DEF TypeOK, SessionRow
<1> QED
  BY <1>1 DEF PhaseOf

\* What a venue sees of a step.
CloudStep == [Cloud!Next]_SessionPhases

\* Any number of sessions end at once, or none.
LEMMA SomeEnd ==
  ASSUME \A r \in Requests :
           PhaseOf(r)' = PhaseOf(r) \/ (PhaseOf(r) = "active" /\ PhaseOf(r)' = "due")
  PROVE  CloudStep
<1> DEFINE gone == {r \in Requests : PhaseOf(r) = "active" /\ PhaseOf(r)' = "due"}
<1>0. /\ SessionPhases = [r \in Requests |-> PhaseOf(r)]
      /\ SessionPhases' = [r \in Requests |-> PhaseOf(r)']
  BY DEF SessionPhases
<1>1. \A r \in gone : SessionPhases[r] \in {"active", "suspended"}
  BY <1>0
<1>2. \A r \in Requests : PhaseOf(r)' = IF r \in gone THEN "due" ELSE SessionPhases[r]
  BY <1>0
<1>3. SessionPhases' = [r \in Requests |-> IF r \in gone THEN "due" ELSE SessionPhases[r]]
  BY <1>0, <1>2
<1>4. gone \in SUBSET Requests
  OBVIOUS
<1> HIDE DEF gone
<1> QED
  BY <1>1, <1>3, <1>4 DEF CloudStep, Cloud!Next, Cloud!Expire

\* A committed redemption is the only step that begins a session.
LEMMA RedemptionMoves == RedemptionInv /\ TypeOK' /\ [Next]_vars => CloudStep
<1> SUFFICES ASSUME RedemptionInv, TypeOK', [Next]_vars PROVE CloudStep
  OBVIOUS
<1>0. TypeOK /\ session \in [Requests -> SessionRow] /\ clock \in Nat
  BY RedemptionAssumption DEF RedemptionInv, TypeOK, Time
<1>1. ASSUME NEW r \in Requests, CommitRedemption(r) PROVE CloudStep
  <2>1. /\ session[r].status = "NONE" /\ session'[r].status = "ACTIVE" /\ clock' = clock
        /\ \A q \in Requests : q # r => session'[q] = session[q]
    BY <1>0, <1>1 DEF CommitRedemption, RedemptionInv, NoSessionBeforeCommit
  <2>2. \A q \in Requests : q # r => PhaseOf(q)' = PhaseOf(q)
    BY <1>0, <2>1, PhaseIs
  <2>3. PhaseOf(r) = "none" /\ PhaseOf(r)' \in {"active", "due"}
    BY <1>0, <2>1, PhaseIs
  <2>4. /\ SessionPhases = [q \in Requests |-> PhaseOf(q)]
        /\ SessionPhases' = [q \in Requests |-> PhaseOf(q)']
    BY DEF SessionPhases
  <2>5. SessionPhases[r] = "none" /\ SessionPhases' = [SessionPhases EXCEPT ![r] = PhaseOf(r)']
    BY <2>2, <2>3, <2>4
  <2> QED
    BY <2>3, <2>5 DEF CloudStep, Cloud!Next, Cloud!Open
<1>2. ASSUME NEW j \in Jobs, ExpireSessions(j) PROVE CloudStep
  <2>1. /\ clock' = clock
        /\ \A r \in Requests :
             /\ session'[r].expiresAt = session[r].expiresAt
             /\ \/ session'[r].status = session[r].status
                \/ session[r].status = "ACTIVE" /\ session'[r].status = "EXPIRED"
    BY <1>0, <1>2 DEF ExpireSessions, Stale, SessionRow
  <2>2. \A r \in Requests :
          PhaseOf(r)' = PhaseOf(r) \/ (PhaseOf(r) = "active" /\ PhaseOf(r)' = "due")
    BY <1>0, <2>1, PhaseIs
  <2> QED
    BY <2>2, SomeEnd
<1>3. CASE RemovePlan
  <2>1. /\ clock' = clock
        /\ \A r \in Requests : /\ session'[r].status = session[r].status
                               /\ session'[r].expiresAt = session[r].expiresAt
    BY <1>0, <1>3 DEF RemovePlan, SessionRow
  <2>2. \A r \in Requests : PhaseOf(r)' = PhaseOf(r)
    BY <1>0, <2>1, PhaseIs
  <2> QED
    BY <2>2, SomeEnd
<1>4. CASE Tick
  <2>1. clock' = clock + 1 /\ session' = session
    BY <1>4 DEF Tick
  <2>2. \A r \in Requests : session[r].expiresAt \in Nat
    BY <1>0 DEF SessionRow
  <2>3. \A r \in Requests : session[r].expiresAt < clock => session'[r].expiresAt < clock'
    BY <1>0, <2>1, <2>2
  <2>4. \A r \in Requests :
          PhaseOf(r)' = PhaseOf(r) \/ (PhaseOf(r) = "active" /\ PhaseOf(r)' = "due")
    BY <1>0, <2>1, <2>3, PhaseIs
  <2> QED
    BY <2>4, SomeEnd
<1>5. CASE UNCHANGED <<session, clock>>
  <2>1. \A r \in Requests : PhaseOf(r)' = PhaseOf(r)
    BY <1>0, <1>5, PhaseIs
  <2> QED
    BY <2>1, SomeEnd
<1> QED
  BY <1>1, <1>2, <1>3, <1>4, <1>5
  DEF Next, CreateBatch, Redeem, Transaction, ExpireStaleRecords, Operator, Crash, vars,
      BatchBegin, BatchCreate, BatchAudit, BatchFail, FindVoucher, CheckLicense, AcquireLock,
      RefuseRedemption, AbortRedemption, ReleaseLock, LockLapse, JobStart, ExpireVouchers,
      SetLicense, UpdatePlan

\* The session table implements CloudSessions for any number of vouchers, calls, jobs and
\* crashes: what the agent of a venue may count on (vouchers.service.ts:290-330,
\* expiry.service.ts:9-37).
THEOREM RedemptionIsCloud == Spec => RedemptionKeepsSessions
<1>1. Init => Cloud!Init
  <2>1. SUFFICES ASSUME Init PROVE Cloud!Init
    OBVIOUS
  <2>2. \A r \in Requests : PhaseOf(r) = "none"
    BY <2>1 DEF Init, PhaseOf
  <2> QED
    BY <2>2 DEF Cloud!Init, SessionPhases
<1>2. RedemptionInv /\ RedemptionInv' /\ [Next]_vars => [Cloud!Next]_SessionPhases
  BY RedemptionMoves DEF RedemptionInv, CloudStep
<1> QED
  BY <1>1, <1>2, RedemptionInvariance, PTL DEF Spec, RedemptionKeepsSessions, Cloud!Spec
=============================================================================
