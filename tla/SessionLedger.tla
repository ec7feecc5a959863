----------------------------- MODULE SessionLedger -----------------------------
(***************************************************************************)
(* The rows of WifiSession while sessions run.  Usage reports add to the    *)
(* recorded usage and suspend a session at its data cap, owners suspend     *)
(* sessions, the minute job expires them, plans change and go.  Reports and *)
(* suspensions read a row, write it and then write the audit log in         *)
(* separate statements without a transaction.                               *)
(***************************************************************************)
EXTENDS Integers, FiniteSets

CONSTANTS
  Sessions,    \* WifiSession rows
  Calls,       \* reports and suspensions under way
  Amounts,     \* what a report may add, in MB
  Caps,        \* WifiPlan.dataCapMb
  MaxUsed,     \* bound on what reports add to a session
  MaxCrashes,  \* bound on crashes of the API
  None         \* null

ASSUME LedgerAssumption ==
  /\ Amounts \subseteq Nat /\ Caps \subseteq Nat \ {0}
  /\ MaxUsed \in Nat /\ MaxCrashes \in Nat
  /\ None \notin Sessions \cup Nat

VARIABLES
  session,   \* session[s]: the row, with the cap of its voucher's plan
  due,       \* sessions whose expiresAt has passed
  call,      \* call[c]: one report of a usage request, or one suspension
  audited,   \* sessions with a SESSION_SUSPENDED or SESSION_DATA_CAP_EXCEEDED entry
  credited,  \* MB of the reports written so far
  raced,     \* sessions two reports were under way for at once
  recapped,  \* sessions whose cap has changed
  told,      \* sessions somebody was answered that they are suspended
  cut,       \* sessions a call ended for between their suspension and its entry
  crashes

rows == <<session, due, audited>>
history == <<credited, raced, recapped, told, cut, crashes>>
vars == <<rows, call, history>>

Idle == [pc |-> "idle", session |-> None, mb |-> 0, used |-> 0, cap |-> None]

Init ==
  /\ session = [s \in Sessions |-> [status |-> "none", used |-> 0, cap |-> None]]
  /\ due = {}
  /\ call = [c \in Calls |-> Idle]
  /\ audited = {}
  /\ credited = [s \in Sessions |-> 0]
  /\ raced = {}
  /\ recapped = {}
  /\ told = {}
  /\ cut = {}
  /\ crashes = 0

-----------------------------------------------------------------------------
(* What happens around the reports.                                         *)

\* A redemption creates the row.
Open(s, cap) ==
  /\ session[s].status = "none"
  /\ session' = [session EXCEPT ![s] = [status |-> "ACTIVE", used |-> 0, cap |-> cap]]
  /\ UNCHANGED <<due, audited, call, history>>

BecomeDue(s) ==
  /\ session[s].status # "none"
  /\ due' = due \cup {s}
  /\ UNCHANGED <<session, audited, call, history>>

\* The job's update.  The time it compares with was read a little earlier; what
\* became due since is due after this step.
ExpireStaleRecords ==
  /\ session' = [s \in Sessions |->
       IF s \in due /\ session[s].status = "ACTIVE" THEN [session[s] EXCEPT !.status = "EXPIRED"]
       ELSE session[s]]
  /\ UNCHANGED <<due, audited, call, history>>

\* The plan is updated, or deleted with its vouchers, which leaves voucherId null.
ChangeCap(s, cap) ==
  /\ session[s].status # "none"
  /\ session[s].cap # None
  /\ session' = [session EXCEPT ![s].cap = cap]
  /\ recapped' = recapped \cup {s}
  /\ UNCHANGED <<due, audited, call, credited, raced, told, cut, crashes>>

-----------------------------------------------------------------------------
(* reportUsage, one report of the request.                                  *)

Reporting(s) == {c \in Calls : call[c].pc = "report" /\ call[c].session = s}

\* findFirst with the voucher's plan; a session that is not ACTIVE is passed over.
ReportFind(c, s, mb) ==
  /\ call[c].pc = "idle"
  /\ session[s].status = "ACTIVE"
  /\ credited[s] + mb <= MaxUsed
  /\ call' = [call EXCEPT ![c] = [pc |-> "report", session |-> s, mb |-> mb,
                                  used |-> session[s].used, cap |-> session[s].cap]]
  /\ raced' = IF Reporting(s) = {} THEN raced ELSE raced \cup {s}
  /\ UNCHANGED <<rows, credited, recapped, told, cut, crashes>>

\* A slip: the cap has to be exceeded.
ReachesBeyond(used, cap) == cap # None /\ used > cap
Reaches(used, cap) == cap # None /\ used >= cap

\* The row after a report.  A slip: the status that was read is written back too.
ReportedWithStatus(row, used, cap) ==
  [row EXCEPT !.used = used, !.status = IF Reaches(used, cap) THEN "SUSPENDED" ELSE "ACTIVE"]
Reported(row, used, cap) ==
  [row EXCEPT !.used = used, !.status = IF Reaches(used, cap) THEN "SUSPENDED" ELSE row.status]

\* A slip: the report replaces the usage.
NewDataUsedAlone(k) == k.mb
NewDataUsed(k) == k.used + k.mb

\* A slip: a session suspended at its cap is counted and not logged.
AfterReportUnlogged(k) ==
  IF Reaches(NewDataUsed(k), k.cap) THEN [Idle EXCEPT !.pc = "answer", !.session = k.session]
  ELSE Idle
AfterReport(k) ==
  IF Reaches(NewDataUsed(k), k.cap) THEN [Idle EXCEPT !.pc = "audit", !.session = k.session]
  ELSE Idle

ReportWrite(c) ==
  LET k == call[c] IN
  /\ k.pc = "report"
  /\ session' = [session EXCEPT ![k.session] = Reported(@, NewDataUsed(k), k.cap)]
  /\ call' = [call EXCEPT ![c] = AfterReport(k)]
  /\ credited' = [credited EXCEPT ![k.session] = @ + k.mb]
  /\ UNCHANGED <<due, audited, raced, recapped, told, cut, crashes>>

-----------------------------------------------------------------------------
(* SessionsService.suspend, the audit entry of both, failures and a crash.   *)

\* A slip: it is not checked that the session exists.
SuspendFindUnchecked(c, s) ==
  /\ call[c].pc = "idle"
  /\ call' = [call EXCEPT ![c] = [Idle EXCEPT !.pc = "suspend", !.session = s]]
  /\ UNCHANGED <<rows, history>>

SuspendFind(c, s) ==
  /\ call[c].pc = "idle"
  /\ session[s].status # "none"
  /\ call' = [call EXCEPT ![c] = [Idle EXCEPT !.pc = "suspend", !.session = s]]
  /\ UNCHANGED <<rows, history>>

\* The row is written whatever its status has become, or was.
SuspendWrite(c) ==
  /\ call[c].pc = "suspend"
  /\ session' = [session EXCEPT ![call[c].session].status = "SUSPENDED"]
  /\ call' = [call EXCEPT ![c].pc = "audit"]
  /\ UNCHANGED <<due, audited, history>>

Audit(c) ==
  /\ call[c].pc = "audit"
  /\ audited' = audited \cup {call[c].session}
  /\ call' = [call EXCEPT ![c].pc = "answer"]
  /\ UNCHANGED <<session, due, history>>

\* The suspended session goes out, or is counted in the answer to the report.
Answer(c) ==
  /\ call[c].pc = "answer"
  /\ told' = told \cup {call[c].session}
  /\ call' = [call EXCEPT ![c] = Idle]
  /\ UNCHANGED <<rows, credited, raced, recapped, cut, crashes>>

\* Suspended, with the entry still to be made.
Unlogged == {call[c].session : c \in {d \in Calls : call[d].pc = "audit"}}

\* The next statement of a call fails, and the caller has an error.
Fail(c) ==
  /\ call[c].pc \in {"report", "suspend", "audit"}
  /\ call' = [call EXCEPT ![c] = Idle]
  /\ cut' = IF call[c].pc = "audit" THEN cut \cup {call[c].session} ELSE cut
  /\ UNCHANGED <<rows, credited, raced, recapped, told, crashes>>

\* The process ends; the statements a call has made stay, the rest is not made.
Crash ==
  /\ crashes < MaxCrashes
  /\ crashes' = crashes + 1
  /\ call' = [c \in Calls |-> Idle]
  /\ cut' = cut \cup Unlogged
  /\ UNCHANGED <<rows, credited, raced, recapped, told>>

Next ==
  \/ \E s \in Sessions, cap \in Caps \cup {None} : Open(s, cap) \/ ChangeCap(s, cap)
  \/ \E s \in Sessions : BecomeDue(s)
  \/ ExpireStaleRecords
  \/ \E c \in Calls, s \in Sessions : SuspendFind(c, s) \/ \E mb \in Amounts : ReportFind(c, s, mb)
  \/ \E c \in Calls : ReportWrite(c) \/ SuspendWrite(c) \/ Audit(c) \/ Answer(c) \/ Fail(c)
  \/ Crash

Spec == Init /\ [][Next]_vars

-----------------------------------------------------------------------------
(* Properties.                                                              *)

SessionRow == [status : {"none", "ACTIVE", "SUSPENDED", "EXPIRED"}, used : Nat,
               cap : Caps \cup {None}]
CallState == [pc : {"idle", "report", "suspend", "audit", "answer"}, session : Sessions \cup {None},
              mb : Nat, used : Nat, cap : Caps \cup {None}]

\* Every variable holds a value of its type; a call under way knows its session,
\* which exists (gateway.service.ts:169-245, sessions.service.ts:23-47).
TypeOK ==
  /\ session \in [Sessions -> SessionRow]
  /\ due \subseteq Sessions
  /\ call \in [Calls -> CallState]
  /\ \A c \in Calls : call[c].pc # "idle" =>
       call[c].session \in Sessions /\ session[call[c].session].status # "none"
  /\ audited \subseteq Sessions
  /\ credited \in [Sessions -> Nat]
  /\ raced \subseteq Sessions
  /\ recapped \subseteq Sessions
  /\ told \subseteq Sessions
  /\ cut \subseteq Sessions
  /\ crashes \in Nat

\* A session that has ended or is suspended is never put back online by a report
\* that had read it while it was active (gateway.service.ts:189-243).
NeverReactivated ==
  [][\A s \in Sessions : session[s].status \in {"SUSPENDED", "EXPIRED"} =>
       session'[s].status \in {"SUSPENDED", "EXPIRED"}]_vars

\* A session whose recorded usage has reached its cap is not active, in whatever
\* order reports were read and written (gateway.service.ts:195-209).
CapIsEnforced ==
  \A s \in Sessions \ recapped :
    session[s].cap # None /\ session[s].used >= session[s].cap => session[s].status # "ACTIVE"

\* The recorded usage is what the reports added; reports that were under way at
\* once may lose some of it, and never add to it (gateway.service.ts:175-243).
UsageIsWhatWasReported ==
  \A s \in Sessions :
    /\ session[s].used <= credited[s]
    /\ s \notin raced => session[s].used = credited[s]

\* Who is answered that a session is suspended can rely on it: the session is suspended,
\* whatever reports that had read it before write afterwards, and the log says so.  A
\* suspension that is not in the log is about to be, or the call that made it failed or
\* died between its two statements (rules/security.md:44; gateway.service.ts:203-227,
\* sessions.service.ts:32-44).
SuspensionIsAudited ==
  /\ \A s \in told : session[s].status = "SUSPENDED" /\ s \in audited
  /\ \A s \in Sessions : session[s].status = "SUSPENDED" => s \in audited \cup Unlogged \cup cut

-----------------------------------------------------------------------------
(* What the rows mean to a venue.                                           *)

PhaseOf(s) ==
  CASE session[s].status = "none" -> "none"
    [] session[s].status = "EXPIRED" \/ (s \in due /\ session[s].status # "none") -> "due"
    [] session[s].status = "ACTIVE" /\ s \notin due -> "active"
    [] session[s].status = "SUSPENDED" /\ s \notin due -> "suspended"

SessionPhases == [s \in Sessions |-> PhaseOf(s)]
Cloud == INSTANCE CloudSessions WITH phase <- SessionPhases

\* Whatever reports, suspensions, the job and crashes make of the rows, a venue sees sessions
\* begin, be suspended and end, and none come back (gateway.service.ts:169-245,
\* sessions.service.ts:23-47, expiry.service.ts:9-37).
LedgerKeepsSessions == Cloud!Spec
=============================================================================
