-------------------------- MODULE SessionLedgerProofs --------------------------
(***************************************************************************)
(* Theorems about SessionLedger, for any number of sessions and calls, any  *)
(* caps and any sizes of reports.                                           *)
(***************************************************************************)
EXTENDS SessionLedger, TLAPS

\* The initial rows and calls have their types.
LEMMA TypeInit == Init => TypeOK
  BY LedgerAssumption DEF Init, TypeOK, SessionRow, CallState, Idle

\* A call that has read nothing has its type.
LEMMA IdleType == Idle \in CallState /\ Idle.pc = "idle"
  BY DEF Idle, CallState

\* The row after a report: its usage is the new one, its cap is kept, and its
\* status is kept unless the usage reaches the cap the report has read.
LEMMA ReportedRow ==
  ASSUME NEW row \in SessionRow, NEW used \in Nat, NEW cap \in Caps \cup {None}
  PROVE  /\ Reported(row, used, cap) \in SessionRow
         /\ Reported(row, used, cap).used = used
         /\ Reported(row, used, cap).cap = row.cap
         /\ Reported(row, used, cap).status =
              IF Reaches(used, cap) THEN "SUSPENDED" ELSE row.status
  BY DEF Reported, SessionRow

\* What is left of a call after its report: an audit entry to make, if the cap was reached.
LEMMA AfterReportCall ==
  ASSUME NEW k \in CallState
  PROVE  /\ AfterReport(k) \in CallState
         /\ AfterReport(k).pc = IF Reaches(NewDataUsed(k), k.cap) THEN "audit" ELSE "idle"
         /\ AfterReport(k).pc = "audit" => AfterReport(k).session = k.session
  BY DEF AfterReport, Idle, CallState

\* Every step keeps the types.
LEMMA TypeStep == TypeOK /\ [Next]_vars => TypeOK'
<1> SUFFICES ASSUME TypeOK, [Next]_vars
             PROVE  TypeOK'
  OBVIOUS
<1>0. /\ session \in [Sessions -> SessionRow]
      /\ call \in [Calls -> CallState]
      /\ \A c \in Calls : call[c].pc # "idle" =>
           call[c].session \in Sessions /\ session[call[c].session].status # "none"
  BY DEF TypeOK
<1>1. ASSUME NEW s \in Sessions, NEW cap \in Caps \cup {None}, Open(s, cap) PROVE TypeOK'
  <2>1. session' \in [Sessions -> SessionRow]
    BY <1>0, <1>1 DEF Open, SessionRow
  <2>2. \A c \in Calls : call[c].pc # "idle" => session'[call[c].session].status # "none"
    BY <1>0, <1>1 DEF Open
  <2> QED
    BY <1>0, <1>1, <2>1, <2>2 DEF Open, TypeOK, history
<1>2. ASSUME NEW s \in Sessions, NEW cap \in Caps \cup {None}, ChangeCap(s, cap) PROVE TypeOK'
  <2>1. session' \in [Sessions -> SessionRow]
    BY <1>0, <1>2 DEF ChangeCap, SessionRow
  <2>2. \A t \in Sessions : session'[t].status = session[t].status
    BY <1>0, <1>2 DEF ChangeCap, SessionRow
  <2>3. \A c \in Calls : call[c].pc # "idle" => session'[call[c].session].status # "none"
    BY <1>0, <2>2
  <2> QED
    BY <1>0, <1>2, <2>1, <2>3 DEF ChangeCap, TypeOK
<1>3. ASSUME NEW s \in Sessions, BecomeDue(s) PROVE TypeOK'
  BY <1>3 DEF BecomeDue, TypeOK, history
<1>4. CASE ExpireStaleRecords
  <2>1. session' \in [Sessions -> SessionRow]
    BY <1>0, <1>4 DEF ExpireStaleRecords, SessionRow
  <2>2. \A t \in Sessions : session[t].status # "none" => session'[t].status # "none"
    BY <1>0, <1>4 DEF ExpireStaleRecords, SessionRow
  <2>3. \A c \in Calls : call[c].pc # "idle" => session'[call[c].session].status # "none"
    BY <1>0, <2>2
  <2> QED
    BY <1>0, <1>4, <2>1, <2>3 DEF ExpireStaleRecords, TypeOK, history
<1>5. ASSUME NEW c \in Calls, NEW s \in Sessions, SuspendFind(c, s) PROVE TypeOK'
  <2>1. /\ call' \in [Calls -> CallState]
        /\ call'[c].session = s
        /\ \A d \in Calls : d # c => call'[d] = call[d]
    BY <1>0, <1>5 DEF SuspendFind, CallState, Idle
  <2> QED
    BY <1>0, <1>5, <2>1 DEF SuspendFind, TypeOK, rows, history
<1>6. ASSUME NEW c \in Calls, NEW s \in Sessions, NEW mb \in Amounts, ReportFind(c, s, mb)
      PROVE TypeOK'
  <2>1. /\ call' \in [Calls -> CallState]
        /\ call'[c].session = s
        /\ \A d \in Calls : d # c => call'[d] = call[d]
    BY <1>0, <1>6, LedgerAssumption DEF ReportFind, CallState, SessionRow
  <2>2. session[s].status # "none"
    BY <1>6 DEF ReportFind
  <2>3. raced' \subseteq Sessions
    BY <1>6 DEF ReportFind, TypeOK
  <2> QED
    BY <1>0, <1>6, <2>1, <2>2, <2>3 DEF ReportFind, TypeOK, rows
<1>7. ASSUME NEW c \in Calls, ReportWrite(c) PROVE TypeOK'
  <2>1. PICK k \in CallState : k = call[c]
    BY <1>0
  <2>2. /\ k.session \in Sessions /\ session[k.session].status # "none"
        /\ NewDataUsed(k) \in Nat /\ k.cap \in Caps \cup {None} /\ k.mb \in Nat
    BY <1>0, <1>7, <2>1 DEF ReportWrite, NewDataUsed, CallState
  <2>3. /\ session' = [session EXCEPT ![k.session] = Reported(@, NewDataUsed(k), k.cap)]
        /\ call' = [call EXCEPT ![c] = AfterReport(k)]
        /\ credited' = [credited EXCEPT ![k.session] = @ + k.mb]
    BY <1>7, <2>1 DEF ReportWrite
  <2>4. /\ session' \in [Sessions -> SessionRow]
        /\ \A t \in Sessions : session[t].status # "none" => session'[t].status # "none"
    BY <1>0, <2>2, <2>3, ReportedRow
  <2>5. /\ call' \in [Calls -> CallState]
        /\ \A d \in Calls : d # c => call'[d] = call[d]
        /\ call'[c].pc # "idle" => call'[c].session = k.session
    BY <1>0, <2>3, AfterReportCall
  <2>6. \A d \in Calls : call'[d].pc # "idle" =>
          call'[d].session \in Sessions /\ session'[call'[d].session].status # "none"
    BY <1>0, <2>2, <2>4, <2>5
  <2>7. credited' \in [Sessions -> Nat]
    BY <2>2, <2>3 DEF TypeOK
  <2> QED
    BY <1>7, <2>4, <2>5, <2>6, <2>7 DEF ReportWrite, TypeOK
<1>8. ASSUME NEW c \in Calls, SuspendWrite(c) PROVE TypeOK'
  <2>1. /\ call' \in [Calls -> CallState]
        /\ call'[c].session = call[c].session
        /\ \A d \in Calls : d # c => call'[d] = call[d]
    BY <1>0, <1>8 DEF SuspendWrite, CallState
  <2>2. /\ session' \in [Sessions -> SessionRow]
        /\ \A t \in Sessions : session[t].status # "none" => session'[t].status # "none"
    BY <1>0, <1>8 DEF SuspendWrite, SessionRow
  <2>3. call[c].pc # "idle"
    BY <1>8 DEF SuspendWrite
  <2>4. \A d \in Calls : call'[d].pc # "idle" =>
          call'[d].session \in Sessions /\ session'[call'[d].session].status # "none"
    BY <1>0, <2>1, <2>2, <2>3
  <2> QED
    BY <1>8, <2>1, <2>2, <2>4 DEF SuspendWrite, TypeOK, history
<1>9. ASSUME NEW c \in Calls, Audit(c) PROVE TypeOK'
  <2>1. /\ call' \in [Calls -> CallState]
        /\ call'[c].session = call[c].session /\ call[c].pc # "idle"
        /\ \A d \in Calls : d # c => call'[d] = call[d]
    BY <1>0, <1>9 DEF Audit, CallState
  <2>2. audited' \subseteq Sessions
    BY <1>0, <1>9 DEF Audit, TypeOK
  <2> QED
    BY <1>0, <1>9, <2>1, <2>2 DEF Audit, TypeOK, history
<1>10. CASE Crash
  <2>1. cut' \subseteq Sessions
    BY <1>0, <1>10 DEF Crash, Unlogged, TypeOK
  <2> QED
    BY <1>0, <1>10, <2>1, IdleType DEF Crash, TypeOK, rows
<1>12. ASSUME NEW c \in Calls, Answer(c) \/ Fail(c) PROVE TypeOK'
  <2>1. /\ call' \in [Calls -> CallState]
        /\ call'[c].pc = "idle"
        /\ \A d \in Calls : d # c => call'[d] = call[d]
    BY <1>0, <1>12, IdleType DEF Answer, Fail
  <2>2. told' \subseteq Sessions /\ cut' \subseteq Sessions
    BY <1>0, <1>12 DEF Answer, Fail, TypeOK
  <2> QED
    BY <1>0, <1>12, <2>1, <2>2 DEF Answer, Fail, TypeOK, rows
<1>11. CASE UNCHANGED vars
  BY <1>11 DEF TypeOK, vars, rows, history
<1> QED
  BY <1>1, <1>2, <1>3, <1>4, <1>5, <1>6, <1>7, <1>8, <1>9, <1>10, <1>11, <1>12 DEF Next

\* The rows and calls of every reachable state have their types.
THEOREM LedgerTypeCorrect == Spec => []TypeOK
  BY TypeInit, TypeStep, PTL DEF Spec

-----------------------------------------------------------------------------
(* A session that has gone offline stays offline.                           *)

\* The status a step leaves a session with, seen from the status it had.
LEMMA OfflineStep ==
  ASSUME TypeOK, [Next]_vars, NEW s \in Sessions,
         session[s].status \in {"SUSPENDED", "EXPIRED"}
  PROVE  session'[s].status \in {"SUSPENDED", "EXPIRED"}
<1>0. session \in [Sessions -> SessionRow] /\ call \in [Calls -> CallState]
  BY DEF TypeOK
<1>1. ASSUME NEW t \in Sessions, NEW cap \in Caps \cup {None}, Open(t, cap) \/ ChangeCap(t, cap)
      PROVE  session'[s].status \in {"SUSPENDED", "EXPIRED"}
  BY <1>0, <1>1 DEF Open, ChangeCap, SessionRow
<1>2. CASE ExpireStaleRecords
  BY <1>0, <1>2 DEF ExpireStaleRecords, SessionRow
<1>3. ASSUME NEW c \in Calls, ReportWrite(c)
      PROVE  session'[s].status \in {"SUSPENDED", "EXPIRED"}
  <2>1. PICK k \in CallState : k = call[c]
    BY <1>0
  <2>2. NewDataUsed(k) \in Nat /\ k.cap \in Caps \cup {None}
    BY DEF NewDataUsed, CallState
  <2>3. session' = [session EXCEPT ![k.session] = Reported(@, NewDataUsed(k), k.cap)]
    BY <1>3, <2>1 DEF ReportWrite
  <2> QED
    BY <1>0, <2>2, <2>3, ReportedRow
<1>4. ASSUME NEW c \in Calls, SuspendWrite(c)
      PROVE  session'[s].status \in {"SUSPENDED", "EXPIRED"}
  BY <1>0, <1>4 DEF SuspendWrite, SessionRow
<1>5. ASSUME session' = session
      PROVE  session'[s].status \in {"SUSPENDED", "EXPIRED"}
  BY <1>5
<1>6. ASSUME NEW c \in Calls, NEW t \in Sessions,
             SuspendFind(c, t) \/ \E mb \in Amounts : ReportFind(c, t, mb)
      PROVE  session' = session
  BY <1>6 DEF SuspendFind, ReportFind, rows
<1>7. ASSUME NEW c \in Calls, Audit(c) \/ Answer(c) \/ Fail(c) PROVE session' = session
  BY <1>7 DEF Audit, Answer, Fail, rows
<1>8. ASSUME NEW t \in Sessions, BecomeDue(t) PROVE session' = session
  BY <1>8 DEF BecomeDue
<1>9. CASE Crash
  BY <1>5, <1>9 DEF Crash, rows
<1>10. CASE UNCHANGED vars
  BY <1>5, <1>10 DEF vars, rows
<1> QED
  BY <1>1, <1>2, <1>3, <1>4, <1>5, <1>6, <1>7, <1>8, <1>9, <1>10 DEF Next

\* No report, however late it is written, puts a suspended or expired session back online.
THEOREM NeverReactivatedTheorem == Spec => NeverReactivated
<1>1. TypeOK /\ [Next]_vars =>
        [\A s \in Sessions : session[s].status \in {"SUSPENDED", "EXPIRED"} =>
           session'[s].status \in {"SUSPENDED", "EXPIRED"}]_vars
  BY OfflineStep
<1> QED
  BY <1>1, LedgerTypeCorrect, PTL DEF Spec, NeverReactivated

-----------------------------------------------------------------------------
(* Usage and caps.  Neither claim is inductive: what a report will write     *)
(* depends on what it has read, so the invariant relates the reports under   *)
(* way to the row.                                                           *)

\* A row that does not exist yet has no usage.
UnopenedIsUnused == \A s \in Sessions : session[s].status = "none" => credited[s] = 0

\* A report under way has read no more than was credited, and has read what the
\* row still says unless another report or another plan came in between.
ReadsHold ==
  \A c \in Calls : call[c].pc = "report" =>
    /\ call[c].used <= credited[call[c].session]
    /\ call[c].session \notin raced => call[c].used = session[call[c].session].used
    /\ call[c].session \notin recapped => call[c].cap = session[call[c].session].cap

\* Two reports under way for a session make it a raced one.
AloneUnlessRaced ==
  \A c, d \in Calls :
    /\ call[c].pc = "report" /\ call[d].pc = "report"
    /\ call[c].session = call[d].session /\ call[c].session \notin raced
    => c = d

UsageInv ==
  /\ UnopenedIsUnused
  /\ ReadsHold
  /\ AloneUnlessRaced
  /\ UsageIsWhatWasReported
  /\ CapIsEnforced

\* No row, no call and no usage at the start.
LEMMA UsageInit == Init => UsageInv
  BY LedgerAssumption
  DEF Init, UsageInv, UnopenedIsUnused, ReadsHold, AloneUnlessRaced, UsageIsWhatWasReported,
      CapIsEnforced, Idle, Reaches

\* A step that changes no usage, cap or history, takes sessions offline at most and
\* starts no report keeps the invariant.
LEMMA UsageFrame ==
  ASSUME TypeOK, UsageInv,
         \A s \in Sessions : /\ session'[s].used = session[s].used
                             /\ session'[s].cap = session[s].cap
                             /\ \/ session'[s].status = session[s].status
                                \/ session'[s].status \in {"SUSPENDED", "EXPIRED"},
         \A c \in Calls : call'[c].pc = "report" => call'[c] = call[c],
         credited' = credited, raced' = raced, recapped' = recapped
  PROVE  UsageInv'
<1>0. \A c \in Calls : call[c].pc = "report" => call[c].session \in Sessions
  BY DEF TypeOK
<1>1. UnopenedIsUnused'
  BY DEF UsageInv, UnopenedIsUnused
<1>2. ReadsHold'
  BY <1>0 DEF UsageInv, ReadsHold
<1>3. AloneUnlessRaced'
  BY <1>0 DEF UsageInv, AloneUnlessRaced
<1>4. UsageIsWhatWasReported'
  BY DEF UsageInv, UsageIsWhatWasReported
<1>5. CapIsEnforced'
  BY DEF UsageInv, CapIsEnforced, Reaches
<1> QED
  BY <1>1, <1>2, <1>3, <1>4, <1>5 DEF UsageInv

\* A new row is unused and nobody has read it.
LEMMA UsageOpen ==
  ASSUME TypeOK, UsageInv, NEW s \in Sessions, NEW cap \in Caps \cup {None}, Open(s, cap)
  PROVE  UsageInv'
<1>0. /\ session \in [Sessions -> SessionRow]
      /\ session'[s].used = 0 /\ session'[s].cap = cap /\ session'[s].status = "ACTIVE"
      /\ \A t \in Sessions : t # s => session'[t] = session[t]
      /\ call' = call /\ credited' = credited /\ raced' = raced /\ recapped' = recapped
  BY DEF TypeOK, Open, history
<1>1. credited[s] = 0
  BY DEF Open, UsageInv, UnopenedIsUnused
<1>2. \A c \in Calls : call[c].pc = "report" => call[c].session \in Sessions \ {s}
  BY DEF TypeOK, Open
<1>3. UnopenedIsUnused'
  BY <1>0 DEF UsageInv, UnopenedIsUnused
<1>4. ReadsHold'
  BY <1>0, <1>2 DEF UsageInv, ReadsHold
<1>5. AloneUnlessRaced'
  BY <1>0 DEF UsageInv, AloneUnlessRaced
<1>6. UsageIsWhatWasReported'
  BY <1>0, <1>1 DEF UsageInv, UsageIsWhatWasReported
<1>7. CapIsEnforced'
  BY <1>0, LedgerAssumption DEF UsageInv, CapIsEnforced, Reaches
<1> QED
  BY <1>3, <1>4, <1>5, <1>6, <1>7 DEF UsageInv

\* A session whose cap changes is no longer one the cap claims are about.
LEMMA UsageChangeCap ==
  ASSUME TypeOK, UsageInv, NEW s \in Sessions, NEW cap \in Caps \cup {None}, ChangeCap(s, cap)
  PROVE  UsageInv'
<1>0. /\ session \in [Sessions -> SessionRow]
      /\ \A t \in Sessions : session'[t].used = session[t].used
                             /\ session'[t].status = session[t].status
      /\ \A t \in Sessions : t # s => session'[t] = session[t]
      /\ call' = call /\ credited' = credited /\ raced' = raced
      /\ recapped' = recapped \cup {s}
  BY DEF TypeOK, ChangeCap, SessionRow
<1>1. \A c \in Calls : call[c].pc = "report" => call[c].session \in Sessions
  BY DEF TypeOK
<1>2. UnopenedIsUnused'
  BY <1>0 DEF UsageInv, UnopenedIsUnused
<1>3. ReadsHold'
  BY <1>0, <1>1 DEF UsageInv, ReadsHold
<1>4. AloneUnlessRaced'
  BY <1>0 DEF UsageInv, AloneUnlessRaced
<1>5. UsageIsWhatWasReported'
  BY <1>0 DEF UsageInv, UsageIsWhatWasReported
<1>6. CapIsEnforced'
  BY <1>0 DEF UsageInv, CapIsEnforced
<1> QED
  BY <1>2, <1>3, <1>4, <1>5, <1>6 DEF UsageInv

\* A report that starts has read the row as it is; if it is not alone, the session is raced.
LEMMA UsageReportFind ==
  ASSUME TypeOK, UsageInv, NEW c \in Calls, NEW s \in Sessions, NEW mb \in Amounts,
         ReportFind(c, s, mb)
  PROVE  UsageInv'
<1>0. /\ session' = session /\ credited' = credited /\ recapped' = recapped
      /\ call \in [Calls -> CallState]
      /\ call'[c].pc = "report" /\ call'[c].session = s
      /\ call'[c].used = session[s].used /\ call'[c].cap = session[s].cap
      /\ \A d \in Calls : d # c => call'[d] = call[d]
  BY DEF TypeOK, ReportFind, rows
<1>1. \A d \in Calls : d # c /\ call[d].pc = "report" /\ call[d].session = s => s \in raced'
  BY DEF ReportFind, Reporting
<1>2. raced \subseteq raced'
  BY DEF ReportFind
<1>3. UnopenedIsUnused'
  BY <1>0 DEF UsageInv, UnopenedIsUnused
<1>4. ReadsHold'
  BY <1>0, <1>2 DEF UsageInv, ReadsHold, UsageIsWhatWasReported
<1>5. AloneUnlessRaced'
  BY <1>0, <1>1, <1>2 DEF UsageInv, AloneUnlessRaced
<1>6. UsageIsWhatWasReported'
  BY <1>0, <1>2 DEF UsageInv, UsageIsWhatWasReported
<1>7. CapIsEnforced'
  BY <1>0 DEF UsageInv, CapIsEnforced
<1> QED
  BY <1>3, <1>4, <1>5, <1>6, <1>7 DEF UsageInv

\* A report that is written adds to the row what it had not lost, and suspends at the cap.
LEMMA UsageReportWrite ==
  ASSUME TypeOK, UsageInv, NEW c \in Calls, ReportWrite(c)
  PROVE  UsageInv'
<1>1. PICK k \in CallState : k = call[c]
  BY DEF TypeOK
<1>2. PICK s \in Sessions : s = k.session
  BY <1>1 DEF TypeOK, ReportWrite
<1>3. /\ k.pc = "report" /\ k.used \in Nat /\ k.mb \in Nat /\ k.cap \in Caps \cup {None}
      /\ NewDataUsed(k) = k.used + k.mb
      /\ session' = [session EXCEPT ![s] = Reported(@, k.used + k.mb, k.cap)]
      /\ call' = [call EXCEPT ![c] = AfterReport(k)]
      /\ credited' = [credited EXCEPT ![s] = @ + k.mb]
      /\ raced' = raced /\ recapped' = recapped
  BY <1>1, <1>2 DEF ReportWrite, NewDataUsed, CallState
<1>4. /\ session \in [Sessions -> SessionRow] /\ credited \in [Sessions -> Nat]
      /\ call \in [Calls -> CallState]
  BY DEF TypeOK
<1>5. /\ session'[s].used = k.used + k.mb
      /\ session'[s].cap = session[s].cap
      /\ session'[s].status = IF Reaches(k.used + k.mb, k.cap) THEN "SUSPENDED"
                              ELSE session[s].status
      /\ \A t \in Sessions : t # s => session'[t] = session[t]
  BY <1>3, <1>4, ReportedRow
<1>6. /\ credited'[s] = credited[s] + k.mb
      /\ \A t \in Sessions : t # s => credited'[t] = credited[t]
  BY <1>3, <1>4
<1>7. /\ call'[c].pc # "report"
      /\ \A d \in Calls : d # c => call'[d] = call[d]
  BY <1>3, <1>4, AfterReportCall
<1>8. \A d \in Calls : call[d].pc = "report" => call[d].session \in Sessions
  BY DEF TypeOK
<1>9. /\ k.used <= credited[s]
      /\ s \notin raced => k.used = session[s].used
      /\ s \notin recapped => k.cap = session[s].cap
  BY <1>1, <1>2, <1>3 DEF UsageInv, ReadsHold
<1>10. \A d \in Calls : d # c /\ call[d].pc = "report" /\ call[d].session = s => s \in raced
  BY <1>1, <1>2, <1>3 DEF UsageInv, AloneUnlessRaced
<1>11. UnopenedIsUnused'
  <2>1. session[s].status # "none"
    BY <1>1, <1>2, <1>3 DEF TypeOK
  <2> QED
    BY <1>5, <1>6, <2>1 DEF UsageInv, UnopenedIsUnused
<1>12. ReadsHold'
  <2> SUFFICES ASSUME NEW d \in Calls, call'[d].pc = "report"
               PROVE  /\ call'[d].used <= credited'[call'[d].session]
                      /\ call'[d].session \notin raced => call'[d].used = session'[call'[d].session].used
                      /\ call'[d].session \notin recapped => call'[d].cap = session'[call'[d].session].cap
    BY <1>3 DEF ReadsHold
  <2>1. d # c /\ call'[d] = call[d] /\ call[d].session \in Sessions /\ call[d].used \in Nat
    BY <1>4, <1>7, <1>8 DEF CallState
  <2>2. /\ call[d].used <= credited[call[d].session]
        /\ call[d].session \notin raced => call[d].used = session[call[d].session].used
        /\ call[d].session \notin recapped => call[d].cap = session[call[d].session].cap
    BY <2>1 DEF UsageInv, ReadsHold
  <2>3. CASE call[d].session = s
    <3>1. s \in raced
      BY <1>10, <2>1, <2>3
    <3>2. call[d].used <= credited[s] + k.mb
      BY <1>3, <1>4, <2>1, <2>2, <2>3
    <3> QED
      BY <1>5, <1>6, <2>1, <2>2, <2>3, <3>1, <3>2
  <2>4. CASE call[d].session # s
    BY <1>5, <1>6, <2>1, <2>2, <2>4
  <2> QED
    BY <2>3, <2>4
<1>13. AloneUnlessRaced'
  BY <1>3, <1>7 DEF UsageInv, AloneUnlessRaced
<1>14. UsageIsWhatWasReported'
  <2>1. k.used + k.mb <= credited[s] + k.mb
    BY <1>3, <1>4, <1>9
  <2>2. s \notin raced => k.used + k.mb = credited[s] + k.mb
    BY <1>9 DEF UsageInv, UsageIsWhatWasReported
  <2> QED
    BY <1>3, <1>5, <1>6, <2>1, <2>2 DEF UsageInv, UsageIsWhatWasReported
<1>15. CapIsEnforced'
  BY <1>3, <1>5, <1>9 DEF UsageInv, CapIsEnforced, Reaches
<1> QED
  BY <1>11, <1>12, <1>13, <1>14, <1>15 DEF UsageInv

\* Every step keeps the invariant; the steps that touch no usage go through the frame.
LEMMA UsageStep == TypeOK /\ UsageInv /\ [Next]_vars => UsageInv'
<1> SUFFICES ASSUME TypeOK, UsageInv, [Next]_vars
             PROVE  UsageInv'
  OBVIOUS
<1>0. session \in [Sessions -> SessionRow] /\ call \in [Calls -> CallState]
  BY DEF TypeOK
<1>1. ASSUME NEW s \in Sessions, NEW cap \in Caps \cup {None}, Open(s, cap) PROVE UsageInv'
  BY <1>1, UsageOpen
<1>2. ASSUME NEW s \in Sessions, NEW cap \in Caps \cup {None}, ChangeCap(s, cap) PROVE UsageInv'
  BY <1>2, UsageChangeCap
<1>3. ASSUME NEW s \in Sessions, BecomeDue(s) PROVE UsageInv'
  BY <1>3, UsageFrame DEF BecomeDue, history
<1>4. CASE ExpireStaleRecords
  <2>1. \A s \in Sessions : /\ session'[s].used = session[s].used
                            /\ session'[s].cap = session[s].cap
                            /\ \/ session'[s].status = session[s].status
                               \/ session'[s].status \in {"SUSPENDED", "EXPIRED"}
    BY <1>0, <1>4 DEF ExpireStaleRecords, SessionRow
  <2> QED
    BY <1>4, <2>1, UsageFrame DEF ExpireStaleRecords, history
<1>5. ASSUME NEW c \in Calls, NEW s \in Sessions, SuspendFind(c, s) PROVE UsageInv'
  <2>1. \A d \in Calls : call'[d].pc = "report" => call'[d] = call[d]
    BY <1>0, <1>5 DEF SuspendFind, Idle
  <2> QED
    BY <1>5, <2>1, UsageFrame DEF SuspendFind, rows, history
<1>6. ASSUME NEW c \in Calls, NEW s \in Sessions, NEW mb \in Amounts, ReportFind(c, s, mb)
      PROVE  UsageInv'
  BY <1>6, UsageReportFind
<1>7. ASSUME NEW c \in Calls, ReportWrite(c) PROVE UsageInv'
  BY <1>7, UsageReportWrite
<1>8. ASSUME NEW c \in Calls, SuspendWrite(c) PROVE UsageInv'
  <2>1. \A s \in Sessions : /\ session'[s].used = session[s].used
                            /\ session'[s].cap = session[s].cap
                            /\ \/ session'[s].status = session[s].status
                               \/ session'[s].status \in {"SUSPENDED", "EXPIRED"}
    BY <1>0, <1>8 DEF SuspendWrite, SessionRow
  <2>2. \A d \in Calls : call'[d].pc = "report" => call'[d] = call[d]
    BY <1>0, <1>8 DEF SuspendWrite, CallState
  <2> QED
    BY <1>8, <2>1, <2>2, UsageFrame DEF SuspendWrite, history
<1>9. ASSUME NEW c \in Calls, Audit(c) PROVE UsageInv'
  <2>1. \A d \in Calls : call'[d].pc = "report" => call'[d] = call[d]
    BY <1>0, <1>9 DEF Audit, CallState
  <2> QED
    BY <1>9, <2>1, UsageFrame DEF Audit, history
<1>10. CASE Crash
  <2>1. \A d \in Calls : call'[d].pc = "report" => call'[d] = call[d]
    BY <1>10, IdleType DEF Crash
  <2> QED
    BY <1>10, <2>1, UsageFrame DEF Crash, rows
<1>11. CASE UNCHANGED vars
  BY <1>11, UsageFrame DEF vars, rows, history
<1>12. ASSUME NEW c \in Calls, Answer(c) \/ Fail(c) PROVE UsageInv'
  <2>1. \A d \in Calls : call'[d].pc = "report" => call'[d] = call[d]
    BY <1>0, <1>12, IdleType DEF Answer, Fail
  <2> QED
    BY <1>12, <2>1, UsageFrame DEF Answer, Fail, rows
<1> QED
  BY <1>1, <1>2, <1>3, <1>4, <1>5, <1>6, <1>7, <1>8, <1>9, <1>10, <1>11, <1>12 DEF Next

\* The invariant holds in every reachable state.
LEMMA UsageInvariance == Spec => [](TypeOK /\ UsageInv)
<1>1. Init => TypeOK /\ UsageInv
  BY TypeInit, UsageInit
<1>2. TypeOK /\ UsageInv /\ [Next]_vars => (TypeOK /\ UsageInv)'
  BY TypeStep, UsageStep
<1> QED
  BY <1>1, <1>2, PTL DEF Spec

\* The recorded usage is never more than what was reported, and is exactly that
\* as long as no two reports of the session were under way at once.
THEOREM UsageTheorem == Spec => []UsageIsWhatWasReported
<1>1. UsageInv => UsageIsWhatWasReported
  BY DEF UsageInv
<1> QED
  BY <1>1, UsageInvariance, PTL

\* A session whose recorded usage has reached the cap it was sold with is not active.
THEOREM CapTheorem == Spec => []CapIsEnforced
<1>1. UsageInv => CapIsEnforced
  BY DEF UsageInv
<1> QED
  BY <1>1, UsageInvariance, PTL

-----------------------------------------------------------------------------
(* Suspensions and the audit log.                                           *)

\* A call that has suspended a session has done so, and answers only what is logged.
SuspendersKnow ==
  \A c \in Calls : call[c].pc \in {"audit", "answer"} =>
    /\ session[call[c].session].status = "SUSPENDED"
    /\ call[c].pc = "answer" => call[c].session \in audited

AuditInv == SuspendersKnow /\ SuspensionIsAudited

\* How a step moves suspensions and their entries: what is suspended, logged or cut stays
\* so; a call waits to make its entry, makes it, or leaves the session cut; nothing is
\* suspended but by a call that now waits to make the entry.
SuspensionMoves ==
  /\ audited \subseteq audited' /\ cut \subseteq cut'
  /\ told' = told \/ \E c \in Calls : call[c].pc = "answer" /\ told' = told \cup {call[c].session}
  /\ \A s \in Sessions : session[s].status = "SUSPENDED" => session'[s].status = "SUSPENDED"
  /\ \A s \in Sessions : session'[s].status = "SUSPENDED" =>
       session[s].status = "SUSPENDED" \/ s \in Unlogged'
  /\ \A c \in Calls : call[c].pc = "audit" =>
       call'[c] = call[c] \/ call[c].session \in audited' \cup cut'
  /\ \A c \in Calls : call'[c].pc = "audit" =>
       call'[c] = call[c] \/ session'[call'[c].session].status = "SUSPENDED"
  /\ \A c \in Calls : call'[c].pc = "answer" =>
       \/ call'[c] = call[c]
       \/ /\ call[c].pc = "audit" /\ call'[c].session = call[c].session
          /\ call[c].session \in audited'

\* A step that leaves the audit entries of calls alone and suspends nothing.
LEMMA QuietMoves ==
  ASSUME audited' = audited, cut' = cut, told' = told,
         \A s \in Sessions : session[s].status = "SUSPENDED" <=> session'[s].status = "SUSPENDED",
         \A c \in Calls : call'[c].pc \in {"audit", "answer"} \/ call[c].pc = "audit" =>
           call'[c] = call[c]
  PROVE  SuspensionMoves
  BY DEF SuspensionMoves

LEMMA SuspensionSteps == TypeOK /\ [Next]_vars => SuspensionMoves
<1> SUFFICES ASSUME TypeOK, [Next]_vars PROVE SuspensionMoves
  OBVIOUS
<1>0. session \in [Sessions -> SessionRow] /\ call \in [Calls -> CallState]
  BY DEF TypeOK
<1>1. ASSUME NEW t \in Sessions, NEW cap \in Caps \cup {None}, Open(t, cap) \/ ChangeCap(t, cap)
      PROVE  SuspensionMoves
  <2>1. \A s \in Sessions : session[s].status = "SUSPENDED" <=> session'[s].status = "SUSPENDED"
    BY <1>0, <1>1 DEF Open, ChangeCap, SessionRow
  <2> QED
    BY <1>1, <2>1, QuietMoves DEF Open, ChangeCap, history
<1>2. ASSUME NEW t \in Sessions, BecomeDue(t) PROVE SuspensionMoves
  BY <1>2, QuietMoves DEF BecomeDue, history
<1>3. CASE ExpireStaleRecords
  <2>1. \A s \in Sessions : session[s].status = "SUSPENDED" <=> session'[s].status = "SUSPENDED"
    BY <1>0, <1>3 DEF ExpireStaleRecords, SessionRow
  <2> QED
    BY <1>3, <2>1, QuietMoves DEF ExpireStaleRecords, history
<1>4. ASSUME NEW c \in Calls, NEW t \in Sessions,
             SuspendFind(c, t) \/ \E mb \in Amounts : ReportFind(c, t, mb)
      PROVE  SuspensionMoves
  <2>1. \A d \in Calls : d # c => call'[d] = call[d]
    BY <1>0, <1>4 DEF SuspendFind, ReportFind
  <2>2. call[c].pc = "idle"
    BY <1>4 DEF SuspendFind, ReportFind
  <2>3. CASE SuspendFind(c, t)
    <3>1. call'[c].pc = "suspend"
      BY <1>0, <2>3 DEF SuspendFind, Idle
    <3> QED
      BY <2>1, <2>2, <2>3, <3>1, QuietMoves DEF SuspendFind, rows, history
  <2>4. ASSUME NEW mb \in Amounts, ReportFind(c, t, mb) PROVE SuspensionMoves
    <3>1. call'[c].pc = "report"
      BY <1>0, <2>4 DEF ReportFind
    <3> QED
      BY <2>1, <2>2, <2>4, <3>1, QuietMoves DEF ReportFind, rows
  <2> QED
    BY <1>4, <2>3, <2>4
<1>5. ASSUME NEW c \in Calls, ReportWrite(c) PROVE SuspensionMoves
  <2>1. PICK k \in CallState : k = call[c]
    BY <1>0
  <2>2. /\ NewDataUsed(k) \in Nat /\ k.cap \in Caps \cup {None}
        /\ session' = [session EXCEPT ![k.session] = Reported(@, NewDataUsed(k), k.cap)]
        /\ call' = [call EXCEPT ![c] = AfterReport(k)]
        /\ k.pc = "report" /\ audited' = audited /\ told' = told /\ cut' = cut
    BY <1>5, <2>1 DEF ReportWrite, NewDataUsed, CallState
  <2>3. k.session \in Sessions
    BY <1>0, <2>1, <2>2 DEF TypeOK
  <2>4. CASE ~Reaches(NewDataUsed(k), k.cap)
    <3>1. \A s \in Sessions : session'[s].status = session[s].status
      BY <1>0, <2>2, <2>3, <2>4, ReportedRow
    <3>2. call'[c].pc = "idle" /\ \A d \in Calls : d # c => call'[d] = call[d]
      BY <1>0, <2>1, <2>2, <2>4, AfterReportCall
    <3> QED
      BY <2>1, <2>2, <3>1, <3>2, QuietMoves
  <2>5. CASE Reaches(NewDataUsed(k), k.cap)
    <3>1. /\ session'[k.session].status = "SUSPENDED"
          /\ \A s \in Sessions : s # k.session => session'[s] = session[s]
      BY <1>0, <2>2, <2>3, <2>5, ReportedRow
    <3>2. /\ call'[c].pc = "audit" /\ call'[c].session = k.session
          /\ \A d \in Calls : d # c => call'[d] = call[d]
      BY <1>0, <2>1, <2>2, <2>5, AfterReportCall
    <3>3. k.session \in Unlogged'
      BY <3>2 DEF Unlogged
    <3> QED
      BY <2>1, <2>2, <3>1, <3>2, <3>3 DEF SuspensionMoves
  <2> QED
    BY <2>4, <2>5
<1>6. ASSUME NEW c \in Calls, SuspendWrite(c) PROVE SuspensionMoves
  <2>1. /\ call[c].pc = "suspend" /\ call'[c].pc = "audit" /\ call'[c].session = call[c].session
        /\ \A d \in Calls : d # c => call'[d] = call[d]
        /\ audited' = audited /\ told' = told /\ cut' = cut
    BY <1>0, <1>6 DEF SuspendWrite, CallState, history
  <2>2. call[c].session \in Sessions
    BY <2>1 DEF TypeOK
  <2>3. /\ session'[call[c].session].status = "SUSPENDED"
        /\ \A s \in Sessions : s # call[c].session => session'[s] = session[s]
    BY <1>0, <1>6, <2>2 DEF SuspendWrite, SessionRow
  <2>4. call[c].session \in Unlogged'
    BY <2>1 DEF Unlogged
  <2> QED
    BY <2>1, <2>3, <2>4 DEF SuspensionMoves
<1>7. ASSUME NEW c \in Calls, Audit(c) PROVE SuspensionMoves
  <2>1. /\ call[c].pc = "audit" /\ call'[c].pc = "answer" /\ call'[c].session = call[c].session
        /\ \A d \in Calls : d # c => call'[d] = call[d]
        /\ session' = session /\ audited' = audited \cup {call[c].session}
        /\ told' = told /\ cut' = cut
    BY <1>0, <1>7 DEF Audit, CallState, history
  <2> QED
    BY <2>1 DEF SuspensionMoves
<1>8. ASSUME NEW c \in Calls, Answer(c) PROVE SuspensionMoves
  <2>1. /\ call[c].pc = "answer" /\ call'[c].pc = "idle"
        /\ \A d \in Calls : d # c => call'[d] = call[d]
        /\ session' = session /\ audited' = audited /\ cut' = cut
        /\ told' = told \cup {call[c].session}
    BY <1>0, <1>8, IdleType DEF Answer, rows
  <2> QED
    BY <2>1 DEF SuspensionMoves
<1>9. ASSUME NEW c \in Calls, Fail(c) PROVE SuspensionMoves
  <2>1. /\ call'[c].pc = "idle" /\ \A d \in Calls : d # c => call'[d] = call[d]
        /\ session' = session /\ audited' = audited /\ told' = told
        /\ cut \subseteq cut' /\ (call[c].pc = "audit" => call[c].session \in cut')
    BY <1>0, <1>9, IdleType DEF Fail, rows
  <2> QED
    BY <2>1 DEF SuspensionMoves
<1>10. CASE Crash
  <2>1. /\ \A d \in Calls : call'[d].pc = "idle"
        /\ session' = session /\ audited' = audited /\ told' = told
        /\ cut \subseteq cut' /\ \A d \in Calls : call[d].pc = "audit" => call[d].session \in cut'
    BY <1>0, <1>10, IdleType DEF Crash, Unlogged, rows
  <2> QED
    BY <2>1 DEF SuspensionMoves
<1>11. CASE UNCHANGED vars
  BY <1>11, QuietMoves DEF vars, rows, history
<1> QED
  BY <1>1, <1>2, <1>3, <1>4, <1>5, <1>6, <1>7, <1>8, <1>9, <1>10, <1>11 DEF Next

LEMMA AuditedStep == TypeOK /\ AuditInv /\ [Next]_vars => AuditInv'
<1> SUFFICES ASSUME TypeOK, AuditInv, SuspensionMoves PROVE AuditInv'
  BY SuspensionSteps
<1>0. \A c \in Calls : call[c].pc \in {"audit", "answer"} => call[c].session \in Sessions
  BY DEF TypeOK
<1>1. SuspendersKnow'
  BY <1>0 DEF SuspensionMoves, AuditInv, SuspendersKnow
<1>2. \A s \in told' : session'[s].status = "SUSPENDED" /\ s \in audited'
  <2>1. told \subseteq Sessions
    BY DEF TypeOK
  <2>2. \A s \in told : session'[s].status = "SUSPENDED" /\ s \in audited'
    BY <2>1 DEF SuspensionMoves, AuditInv, SuspensionIsAudited
  <2>3. \A c \in Calls : call[c].pc = "answer" =>
          session'[call[c].session].status = "SUSPENDED" /\ call[c].session \in audited'
    BY <1>0 DEF SuspensionMoves, AuditInv, SuspendersKnow
  <2> QED
    BY <2>2, <2>3 DEF SuspensionMoves
<1>3. ASSUME NEW s \in Sessions, session'[s].status = "SUSPENDED"
      PROVE  s \in audited' \cup Unlogged' \cup cut'
  <2>1. CASE s \in Unlogged'
    BY <2>1
  <2>2. CASE session[s].status = "SUSPENDED"
    <3>1. s \in audited \cup Unlogged \cup cut
      BY <2>2 DEF AuditInv, SuspensionIsAudited
    <3>2. ASSUME s \in Unlogged PROVE s \in audited' \cup Unlogged' \cup cut'
      <4>1. PICK c \in Calls : call[c].pc = "audit" /\ call[c].session = s
        BY <3>2 DEF Unlogged
      <4>2. call'[c] = call[c] \/ s \in audited' \cup cut'
        BY <4>1 DEF SuspensionMoves
      <4> QED
        BY <4>1, <4>2 DEF Unlogged
    <3> QED
      BY <3>1, <3>2 DEF SuspensionMoves
  <2> QED
    BY <1>3, <2>1, <2>2 DEF SuspensionMoves
<1> QED
  BY <1>1, <1>2, <1>3 DEF AuditInv, SuspensionIsAudited

\* Whoever is answered that a session is suspended finds it suspended and logged ever after, and
\* a suspension misses its entry only where the call that made it failed or died in between.
THEOREM SuspensionIsAuditedTheorem == Spec => []SuspensionIsAudited
<1>1. Init => AuditInv
  BY DEF Init, AuditInv, SuspendersKnow, SuspensionIsAudited, Idle
<1>2. AuditInv => SuspensionIsAudited
  BY DEF AuditInv
<1> QED
  BY <1>1, <1>2, AuditedStep, LedgerTypeCorrect, PTL DEF Spec

-----------------------------------------------------------------------------
(* The refinement of CloudSessions.                                         *)

\* Only what is due is expired.
ExpiredIsDue == \A s \in Sessions : session[s].status = "EXPIRED" => s \in due

LEMMA ExpiredStep == TypeOK /\ ExpiredIsDue /\ [Next]_vars => ExpiredIsDue'
<1> SUFFICES ASSUME TypeOK, ExpiredIsDue, [Next]_vars PROVE ExpiredIsDue'
  OBVIOUS
<1>0. session \in [Sessions -> SessionRow] /\ call \in [Calls -> CallState]
  BY DEF TypeOK
<1>1. due \subseteq due'
  BY DEF Next, Open, ChangeCap, BecomeDue, ExpireStaleRecords, SuspendFind, ReportFind, ReportWrite,
         SuspendWrite, Audit, Answer, Fail, Crash, vars, rows
<1>2. \A s \in Sessions : session'[s].status = "EXPIRED" => session[s].status = "EXPIRED" \/ s \in due
  <2>1. ASSUME NEW s \in Sessions, NEW cap \in Caps \cup {None}, Open(s, cap) \/ ChangeCap(s, cap)
        PROVE  <1>2
    BY <1>0, <2>1 DEF Open, ChangeCap, SessionRow
  <2>2. CASE ExpireStaleRecords
    BY <1>0, <2>2 DEF ExpireStaleRecords, SessionRow
  <2>3. ASSUME NEW c \in Calls, ReportWrite(c) PROVE <1>2
    <3>1. PICK k \in CallState : k = call[c]
      BY <1>0
    <3>2. NewDataUsed(k) \in Nat /\ k.cap \in Caps \cup {None}
      BY DEF NewDataUsed, CallState
    <3>3. session' = [session EXCEPT ![k.session] = Reported(@, NewDataUsed(k), k.cap)]
      BY <2>3, <3>1 DEF ReportWrite
    <3> QED
      BY <1>0, <3>2, <3>3, ReportedRow
  <2>4. ASSUME NEW c \in Calls, SuspendWrite(c) PROVE <1>2
    BY <1>0, <2>4 DEF SuspendWrite, SessionRow
  <2>5. CASE UNCHANGED session
    BY <2>5
  <2> QED
    BY <2>1, <2>2, <2>3, <2>4, <2>5
    DEF Next, BecomeDue, SuspendFind, ReportFind, Audit, Answer, Fail, Crash, vars, rows
<1> QED
  BY <1>1, <1>2 DEF ExpiredIsDue

LedgerInv == TypeOK /\ ExpiredIsDue

\* The phase of a row, before and after a step.
LEMMA PhaseIs ==
  ASSUME TypeOK, TypeOK', NEW s \in Sessions
  PROVE  /\ PhaseOf(s) = IF session[s].status = "none" THEN "none"
                         ELSE IF session[s].status = "EXPIRED" \/ s \in due THEN "due"
                         ELSE IF session[s].status = "ACTIVE" THEN "active" ELSE "suspended"
         /\ PhaseOf(s)' = IF session'[s].status = "none" THEN "none"
                          ELSE IF session'[s].status = "EXPIRED" \/ s \in due' THEN "due"
                          ELSE IF session'[s].status = "ACTIVE" THEN "active" ELSE "suspended"
<1>1. /\ session[s].status \in {"none", "ACTIVE", "SUSPENDED", "EXPIRED"}
      /\ session'[s].status \in {"none", "ACTIVE", "SUSPENDED", "EXPIRED"}
  BY DEF TypeOK, SessionRow
<1> QED
  BY <1>1 DEF PhaseOf

\* What a venue sees of a step.
CloudStep == [Cloud!Next]_SessionPhases

\* Every session keeps its phase.
LEMMA NoneMoves ==
  ASSUME \A s \in Sessions : PhaseOf(s)' = PhaseOf(s)
  PROVE  CloudStep
  BY DEF CloudStep, SessionPhases

\* One session moves on.
LEMMA OneMoves ==
  ASSUME NEW s \in Sessions, \A t \in Sessions : t # s => PhaseOf(t)' = PhaseOf(t),
         \/ PhaseOf(s)' = PhaseOf(s)
         \/ PhaseOf(s) = "none" /\ PhaseOf(s)' \in {"active", "due"}
         \/ PhaseOf(s) = "active" /\ PhaseOf(s)' = "suspended"
         \/ PhaseOf(s) \in {"active", "suspended"} /\ PhaseOf(s)' = "due"
  PROVE  CloudStep
<1>0. /\ SessionPhases = [t \in Sessions |-> PhaseOf(t)]
      /\ SessionPhases' = [t \in Sessions |-> PhaseOf(t)']
  BY DEF SessionPhases
<1>1. CASE PhaseOf(s)' = PhaseOf(s)
  BY <1>1, NoneMoves
<1>2. CASE PhaseOf(s) = "none" /\ PhaseOf(s)' \in {"active", "due"}
  <2>1. SessionPhases[s] = "none" /\ SessionPhases' = [SessionPhases EXCEPT ![s] = PhaseOf(s)']
    BY <1>0, <1>2
  <2> QED
    BY <1>2, <2>1 DEF CloudStep, Cloud!Next, Cloud!Open
<1>3. CASE PhaseOf(s) = "active" /\ PhaseOf(s)' = "suspended"
  <2>1. SessionPhases[s] = "active" /\ SessionPhases' = [SessionPhases EXCEPT ![s] = "suspended"]
    BY <1>0, <1>3
  <2> QED
    BY <2>1 DEF CloudStep, Cloud!Next, Cloud!Suspend
<1>4. CASE PhaseOf(s) \in {"active", "suspended"} /\ PhaseOf(s)' = "due"
  <2>1. /\ \A t \in {s} : SessionPhases[t] \in {"active", "suspended"}
        /\ SessionPhases' = [t \in Sessions |-> IF t \in {s} THEN "due" ELSE SessionPhases[t]]
    BY <1>0, <1>4
  <2> QED
    BY <2>1 DEF CloudStep, Cloud!Next, Cloud!Expire
<1> QED
  BY <1>1, <1>2, <1>3, <1>4

\* A write to a row that exists leaves its status or suspends it.
LEMMA WriteMoves ==
  ASSUME LedgerInv, TypeOK', due' = due, NEW s \in Sessions, session[s].status # "none",
         session'[s].status \in {session[s].status, "SUSPENDED"},
         \A t \in Sessions : t # s => session'[t].status = session[t].status
  PROVE  CloudStep
<1>0. TypeOK /\ ExpiredIsDue
  BY DEF LedgerInv
<1>1. \A t \in Sessions : t # s => PhaseOf(t)' = PhaseOf(t)
  BY <1>0, PhaseIs
<1>2. /\ session[s].status \in {"none", "ACTIVE", "SUSPENDED", "EXPIRED"}
      /\ session[s].status = "EXPIRED" => s \in due
  BY <1>0 DEF TypeOK, SessionRow, ExpiredIsDue
<1>3. PhaseOf(s)' = PhaseOf(s) \/ (PhaseOf(s) = "active" /\ PhaseOf(s)' = "suspended")
  BY <1>0, <1>2, PhaseIs
<1> QED
  BY <1>1, <1>3, OneMoves

LEMMA LedgerMoves == LedgerInv /\ TypeOK' /\ [Next]_vars => CloudStep
<1> SUFFICES ASSUME LedgerInv, TypeOK', [Next]_vars PROVE CloudStep
  OBVIOUS
<1>0. /\ TypeOK /\ session \in [Sessions -> SessionRow] /\ call \in [Calls -> CallState]
      /\ \A c \in Calls : call[c].pc # "idle" =>
           call[c].session \in Sessions /\ session[call[c].session].status # "none"
  BY DEF LedgerInv, TypeOK
<1>1. ASSUME NEW s \in Sessions, NEW cap \in Caps \cup {None}, Open(s, cap) PROVE CloudStep
  <2>1. /\ session[s].status = "none" /\ session'[s].status = "ACTIVE" /\ due' = due
        /\ \A t \in Sessions : t # s => session'[t] = session[t]
    BY <1>0, <1>1 DEF Open
  <2>2. \A t \in Sessions : t # s => PhaseOf(t)' = PhaseOf(t)
    BY <1>0, <2>1, PhaseIs
  <2>3. PhaseOf(s) = "none" /\ PhaseOf(s)' \in {"active", "due"}
    BY <1>0, <2>1, PhaseIs
  <2> QED
    BY <2>2, <2>3, OneMoves
<1>2. ASSUME NEW s \in Sessions, NEW cap \in Caps \cup {None}, ChangeCap(s, cap) PROVE CloudStep
  <2>1. due' = due /\ \A t \in Sessions : session'[t].status = session[t].status
    BY <1>0, <1>2 DEF ChangeCap, SessionRow
  <2> QED
    BY <1>0, <2>1, PhaseIs, NoneMoves
<1>3. ASSUME NEW s \in Sessions, BecomeDue(s) PROVE CloudStep
  <2>1. session[s].status # "none" /\ session' = session /\ due' = due \cup {s}
    BY <1>3 DEF BecomeDue
  <2>2. \A t \in Sessions : t # s => PhaseOf(t)' = PhaseOf(t)
    BY <1>0, <2>1, PhaseIs
  <2>3. PhaseOf(s)' = "due" /\ PhaseOf(s) \in {"active", "suspended", "due"}
    BY <1>0, <2>1, PhaseIs
  <2> QED
    BY <2>2, <2>3, OneMoves
<1>4. CASE ExpireStaleRecords
  <2>1. /\ due' = due
        /\ \A t \in Sessions : session'[t].status =
             IF t \in due /\ session[t].status = "ACTIVE" THEN "EXPIRED" ELSE session[t].status
    BY <1>0, <1>4 DEF ExpireStaleRecords, SessionRow
  <2>2. \A t \in Sessions : PhaseOf(t)' = PhaseOf(t)
    BY <1>0, <2>1, PhaseIs
  <2> QED
    BY <2>2, NoneMoves
<1>5. ASSUME NEW c \in Calls, ReportWrite(c) PROVE CloudStep
  <2>1. PICK k \in CallState : k = call[c]
    BY <1>0
  <2>2. /\ k.session \in Sessions /\ session[k.session].status # "none"
        /\ NewDataUsed(k) \in Nat /\ k.cap \in Caps \cup {None}
    BY <1>0, <1>5, <2>1 DEF ReportWrite, NewDataUsed, CallState
  <2>3. /\ session' = [session EXCEPT ![k.session] = Reported(@, NewDataUsed(k), k.cap)]
        /\ due' = due
    BY <1>5, <2>1 DEF ReportWrite
  <2>4. /\ session'[k.session].status \in {session[k.session].status, "SUSPENDED"}
        /\ \A t \in Sessions : t # k.session => session'[t].status = session[t].status
    BY <1>0, <2>2, <2>3, ReportedRow
  <2> QED
    BY <2>2, <2>3, <2>4, WriteMoves
<1>6. ASSUME NEW c \in Calls, SuspendWrite(c) PROVE CloudStep
  <2>1. call[c].session \in Sessions /\ session[call[c].session].status # "none"
    BY <1>0, <1>6 DEF SuspendWrite
  <2>2. PICK s \in Sessions : s = call[c].session
    BY <2>1
  <2>3. /\ session'[s].status = "SUSPENDED" /\ due' = due
        /\ \A t \in Sessions : t # s => session'[t].status = session[t].status
    BY <1>0, <1>6, <2>2 DEF SuspendWrite, SessionRow
  <2> QED
    BY <2>1, <2>2, <2>3, WriteMoves
<1>7. CASE UNCHANGED <<session, due>>
  BY <1>7, NoneMoves DEF PhaseOf
<1> QED
  BY <1>1, <1>2, <1>3, <1>4, <1>5, <1>6, <1>7
  DEF Next, SuspendFind, ReportFind, Audit, Answer, Fail, Crash, vars, rows

\* The ledger implements CloudSessions, the cloud the gateway agent is modelled against, for any
\* number of sessions, reports, suspensions and crashes (gateway.service.ts:169-245,
\* sessions.service.ts:23-47, expiry.service.ts:9-37).
THEOREM LedgerIsCloud == Spec => LedgerKeepsSessions
<1>1. Init => Cloud!Init /\ ExpiredIsDue
  <2>1. SUFFICES ASSUME Init PROVE Cloud!Init /\ ExpiredIsDue
    OBVIOUS
  <2>2. \A s \in Sessions : session[s].status = "none"
    BY <2>1 DEF Init
  <2>3. \A s \in Sessions : PhaseOf(s) = "none"
    BY <2>2 DEF PhaseOf
  <2> QED
    BY <2>2, <2>3 DEF Cloud!Init, SessionPhases, ExpiredIsDue
<1>2. TypeOK /\ TypeOK' /\ ExpiredIsDue /\ [Next]_vars =>
        [Cloud!Next]_SessionPhases /\ ExpiredIsDue'
  BY ExpiredStep, LedgerMoves DEF LedgerInv, CloudStep
<1> QED
  BY <1>1, <1>2, LedgerTypeCorrect, PTL DEF Spec, LedgerKeepsSessions, Cloud!Spec
=============================================================================
