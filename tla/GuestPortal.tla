------------------------------ MODULE GuestPortal ------------------------------
(***************************************************************************)
(* The captive portal of a venue: the page in a guest's browser, the one-    *)
(* time codes the API keeps in Redis per phone number, and the sessions a    *)
(* code or a voucher opens.  A page may have several requests under way: a   *)
(* guest who goes back from the phone form does not stop the request it      *)
(* made.  Vouchers are taken from their abstract specification.              *)
(***************************************************************************)
EXTENDS Naturals

CONSTANTS
  Pages,        \* portal pages, each on a device of its own
  Phones,       \* phone numbers, digits only
  Requests,     \* requests that may be under way together
  Vouchers,     \* vouchers the guests hold
  MaxCodes,     \* bound on the codes sent
  None

ASSUME PortalAssumption == MaxCodes \in Nat /\ None \notin Pages \cup Phones \cup Requests

VARIABLES
  codes,        \* codes made so far, which are numbered
  otp,          \* sms-otp:<phone> in Redis, 0 when absent
  dead,         \* codes replaced, lapsed, or answered with a session
  pass,         \* VoucherPass
  admitted,     \* VoucherPass
  request,      \* the requests of the pages
  sessions,     \* the WifiSession rows: the page's device, and whether a dead code opened it
  step,         \* step[g] of PortalPage
  form          \* form[g]: the state of its SmsStep

venue == <<codes, otp, dead, sessions>>
vouchers == <<pass, admitted>>
page == <<step, form>>
vars == <<venue, vouchers, page, request>>

Pass == INSTANCE VoucherPass WITH Macs <- Pages

Unsent == [op |-> "none", pc |-> "idle", page |-> None, phone |-> None, code |-> 0, late |-> FALSE]
\* SmsStep as it is mounted: asking for the phone, nothing submitted.
Mounted == [phase |-> "phone", phone |-> None, awaits |-> None]

Init ==
  /\ codes = 0
  /\ otp = [p \in Phones |-> 0]
  /\ dead = {}
  /\ pass = [v \in Vouchers |-> "valid"] /\ admitted = [v \in Vouchers |-> {}]
  /\ request = [r \in Requests |-> Unsent]
  /\ sessions = {}
  /\ step = [g \in Pages |-> "terms"]
  /\ form = [g \in Pages |-> Mounted]

-----------------------------------------------------------------------------
(* PortalPage and SmsStep.                                                  *)

Show(g, s) == step' = [step EXCEPT ![g] = s]

AcceptTerms(g) ==
  /\ step[g] = "terms"
  /\ Show(g, "voucher")
  /\ UNCHANGED <<venue, vouchers, form, request>>

Send(r, g, op, phone, code) ==
  /\ request[r].pc = "idle"
  /\ request' = [request EXCEPT ![r] = [op |-> op, pc |-> "asked", page |-> g, phone |-> phone,
                                        code |-> code, late |-> FALSE]]

\* redeem, from the voucher form or, with a token in the URL, from the terms.
SubmitVoucher(g, r) ==
  /\ step[g] \in {"terms", "voucher"}
  /\ Send(r, g, "redeem", None, 0)
  /\ Show(g, "loading")
  /\ UNCHANGED <<venue, vouchers, form>>

\* redeem refuses a MAC that is not one before it asks anybody.
RefuseMac(g) ==
  /\ step[g] = "voucher"
  /\ Show(g, "error")
  /\ UNCHANGED <<venue, vouchers, form, request>>

ChoosePhone(g) ==
  /\ step[g] = "voucher"
  /\ Show(g, "sms")
  /\ form' = [form EXCEPT ![g] = Mounted]
  /\ UNCHANGED <<venue, vouchers, request>>

\* A slip: the form is only hidden.
BackKeepingForm(g) ==
  /\ step[g] = "sms"
  /\ Show(g, "voucher")
  /\ UNCHANGED <<venue, vouchers, form, request>>

\* The form is unmounted, the request it awaits goes on.
Back(g) ==
  /\ step[g] = "sms"
  /\ Show(g, "voucher")
  /\ form' = [form EXCEPT ![g] = Mounted]
  /\ UNCHANGED <<venue, vouchers, request>>

\* The form of a phase is shown, its button not disabled.
Ready(g, phase) == step[g] = "sms" /\ form[g].phase = phase /\ form[g].awaits = None

SendCode(g, p, r) ==
  /\ Ready(g, "phone")
  /\ Send(r, g, "send", p, 0)
  /\ form' = [form EXCEPT ![g] = [@ EXCEPT !.phone = p, !.awaits = r]]
  /\ UNCHANGED <<venue, vouchers, step>>

\* The guest types any code there has been, whoever it was texted to.
VerifyCode(g, code, r) ==
  /\ Ready(g, "code")
  /\ code \in 1..codes
  /\ Send(r, g, "verify", form[g].phone, code)
  /\ form' = [form EXCEPT ![g] = [@ EXCEPT !.awaits = r]]
  /\ UNCHANGED <<venue, vouchers, step>>

\* handleRetry: back to the terms when the URL has a token.
Retry(g) ==
  /\ step[g] = "error"
  /\ \/ Show(g, "terms") \/ Show(g, "voucher")
  /\ UNCHANGED <<venue, vouchers, form, request>>

\* The guest comes back for more.  One who does while a request is under way is
\* another page, and the old one is left as it is.
Reload(g) ==
  /\ step[g] = "success" /\ \A r \in Requests : request[r].page # g
  /\ Show(g, "terms")
  /\ UNCHANGED <<venue, vouchers, form, request>>

-----------------------------------------------------------------------------
(* PortalAuthService.                                                       *)

At(r, op, pc) == request[r].op = op /\ request[r].pc = pc
Goes(r, pc) == request' = [request EXCEPT ![r] = [@ EXCEPT !.pc = pc]]

\* sendOtp: the licence is checked, which may refuse at any time (the licence is a
\* state of VoucherRedemption), then the code replaces the one of the phone.
StoreCode(r) ==
  LET p == request[r].phone IN
  /\ At(r, "send", "asked")
  /\ \/ /\ codes < MaxCodes
        /\ codes' = codes + 1
        /\ dead' = dead \cup ({otp[p]} \ {0})
        /\ otp' = [otp EXCEPT ![p] = codes']
        /\ Goes(r, "stored")
     \/ Goes(r, "refused") /\ UNCHANGED <<codes, dead, otp>>
  /\ UNCHANGED <<sessions, vouchers, page>>

\* sendSmsOtp: what the provider answers is not looked at.
TextCode(r) ==
  /\ At(r, "send", "stored")
  /\ Goes(r, "ok")
  /\ UNCHANGED <<venue, vouchers, page>>

CodeLapses(p) ==
  /\ otp[p] # 0
  /\ dead' = dead \cup {otp[p]}
  /\ otp' = [otp EXCEPT ![p] = 0]
  /\ UNCHANGED <<codes, sessions, vouchers, page, request>>

\* verifyOtp reads the code, opens the session, deletes the code of the phone: three
\* awaits.  "late" notes whether the code was dead when it was read.
ReadCode(r) ==
  /\ At(r, "verify", "asked")
  /\ IF otp[request[r].phone] = request[r].code
     THEN request' = [request EXCEPT ![r] = [@ EXCEPT !.pc = "matched", !.late = request[r].code \in dead]]
     ELSE Goes(r, "refused")
  /\ UNCHANGED <<venue, vouchers, page>>

OpenSession(r) ==
  /\ At(r, "verify", "matched")
  /\ sessions' = sessions \cup {[page |-> request[r].page, late |-> request[r].late]}
  /\ Goes(r, "opened")
  /\ UNCHANGED <<codes, otp, dead, vouchers, page>>

\* A slip: the code is left to lapse.
WithoutNone(p) == otp
WithoutCode(p) == [otp EXCEPT ![p] = 0]

DeleteCode(r) ==
  LET p == request[r].phone IN
  /\ At(r, "verify", "opened")
  /\ otp' = WithoutCode(p)
  /\ dead' = dead \cup ({request[r].code, otp[p]} \ {0})
  /\ Goes(r, "ok")
  /\ UNCHANGED <<codes, sessions, vouchers, page>>

\* VouchersService.redeem, by what it promises; it refuses what is not valid, and a
\* voucher may have been used although the answer says otherwise.
Redeem(r, v) ==
  /\ At(r, "redeem", "asked")
  /\ \/ /\ Pass!Use(v, request[r].page)
        /\ sessions' = sessions \cup {[page |-> request[r].page, late |-> FALSE]}
        /\ Goes(r, "ok") \/ Goes(r, "refused")
     \/ Goes(r, "refused") /\ UNCHANGED <<sessions, vouchers>>
  /\ UNCHANGED <<codes, otp, dead, page>>

-----------------------------------------------------------------------------
(* Answers.                                                                 *)

Handling == {"asked", "stored", "matched", "opened"}
Answers == {"ok", "refused"}

\* The API process ends: its handlers stop where they are.
Crash ==
  /\ \E r \in Requests : request[r].pc \in Handling
  /\ request' = [r \in Requests |-> IF request[r].pc \in Handling
                                    THEN [request[r] EXCEPT !.pc = "refused"] ELSE request[r]]
  /\ UNCHANGED <<venue, vouchers, page>>

\* A request does not get through, or its answer does not get back.
Lost(r) ==
  /\ request[r].pc \in {"asked", "ok"}
  /\ Goes(r, "refused")
  /\ UNCHANGED <<venue, vouchers, page>>

\* The steps at which an answer may say "connected"; a slip: all of them.
SucceedsAlways(r) == request[r].op # "send"
Succeeds(r) == request[r].op # "send" /\ request[r].pc = "ok"

\* The step a refused redeem leads to; a slip: none.
FailedStepLost(r) == step[request[r].page]
FailedStep(r) == IF request[r].op = "redeem" THEN "error" ELSE step[request[r].page]

\* The page gets the answer, wherever the guest has gone meanwhile; the phone form
\* only sees the answer it awaits.
Answered(r) ==
  LET g == request[r].page IN
  /\ request[r].pc \in Answers
  /\ Show(g, IF Succeeds(r) THEN "success" ELSE FailedStep(r))
  /\ form' = [form EXCEPT ![g] =
                IF step'[g] # "sms" THEN Mounted
                ELSE IF form[g].awaits # r THEN form[g]
                ELSE [form[g] EXCEPT !.awaits = None,
                                     !.phase = IF At(r, "send", "ok") THEN "code" ELSE form[g].phase]]
  /\ request' = [request EXCEPT ![r] = Unsent]
  /\ UNCHANGED <<venue, vouchers>>

Next ==
  \/ Crash
  \/ \E p \in Phones : CodeLapses(p)
  \/ \E g \in Pages : AcceptTerms(g) \/ RefuseMac(g) \/ ChoosePhone(g) \/ Back(g) \/ Retry(g) \/ Reload(g)
  \/ \E r \in Requests :
       \/ StoreCode(r) \/ TextCode(r) \/ ReadCode(r) \/ OpenSession(r) \/ DeleteCode(r)
       \/ Lost(r) \/ Answered(r)
       \/ \E v \in Vouchers : Redeem(r, v)
       \/ \E g \in Pages : SubmitVoucher(g, r)
       \/ \E g \in Pages, p \in Phones : SendCode(g, p, r)
       \/ \E g \in Pages, code \in 1..MaxCodes : VerifyCode(g, code, r)

Spec == Init /\ [][Next]_vars

\* Every request is answered in the end, if only by an error.
Fairness == \A r \in Requests :
  /\ WF_vars(\E v \in Vouchers : Redeem(r, v))
  /\ WF_vars(Answered(r))

FairSpec == Spec /\ Fairness

-----------------------------------------------------------------------------
(* Properties.                                                              *)

RequestStates ==
  [op : {"send", "verify", "redeem"}, pc : Handling \cup Answers, page : Pages,
   phone : Phones \cup {None}, code : 0..MaxCodes, late : BOOLEAN]

\* Every variable holds a value of its type, and the phone form has a state only while
\* it is shown (PortalPage.tsx:16-31, SmsStep.tsx:28-34).
TypeOK ==
  /\ codes \in 0..MaxCodes
  /\ otp \in [Phones -> 0..codes]
  /\ dead \subseteq 1..codes
  /\ request \in [Requests -> RequestStates \cup {Unsent}]
  /\ sessions \subseteq [page : Pages, late : BOOLEAN]
  /\ step \in [Pages -> {"terms", "voucher", "sms", "loading", "success", "error"}]
  /\ form \in [Pages -> [phase : {"phone", "code"}, phone : Phones \cup {None},
                         awaits : Requests \cup {None}]]
  /\ \A g \in Pages : form[g] # Mounted => step[g] = "sms"

\* A code that has been replaced by a newer one, has lapsed, or has been answered with
\* a session opens no session for anyone who sends it afterwards, whatever verify
\* calls overlap (portal-auth.service.ts:39-41, 53-81).
DeadCodeOpensNothing == \A s \in sessions : ~s.late

\* A page says "You're connected" only to a guest for whose device a session was
\* opened, by this page's own request, whatever answers come late or after the guest
\* went back (PortalPage.tsx:54-72, 122-134; SmsStep.tsx:51-74).
ConnectedMeansSession ==
  \A g \in Pages : step[g] = "success" => \E s \in sessions : s.page = g

\* The spinner ends: a page that is loading comes to a result (PortalPage.tsx:51-72).
LoadingEnds == \A g \in Pages : step[g] = "loading" ~> step[g] # "loading"
=============================================================================
