--------------------------- MODULE GuestPortalProofs ---------------------------
(***************************************************************************)
(* Theorems about GuestPortal, for any number of pages, phone numbers,       *)
(* requests, vouchers and codes.                                             *)
(***************************************************************************)
EXTENDS GuestPortal, TLAPS

\* Whoever asks for a code or sends one has said for which number.
PhonesKnown ==
  /\ \A r \in Requests : request[r].op \in {"send", "verify"} => request[r].phone \in Phones
  /\ \A g \in Pages : form[g].phase = "code" \/ form[g].awaits # None => form[g].phone \in Phones

\* What Redis holds is not dead and belongs to one number, also a code that has been
\* matched and not yet deleted.
CodesAlive ==
  /\ \A p \in Phones : otp[p] \notin dead
  /\ \A p, q \in Phones : otp[p] = otp[q] /\ otp[p] # 0 => p = q
  /\ \A r \in Requests : request[r].op = "verify" => request[r].code \in 1..codes
  /\ \A r \in Requests, p \in Phones :
       request[r].op = "verify" /\ request[r].pc \in {"matched", "opened"}
         /\ otp[p] = request[r].code => p = request[r].phone
  /\ \A r \in Requests : ~request[r].late
  /\ \A s \in sessions : ~s.late

\* A page is told "ok" when its session is there.
Opened(g) == \E s \in sessions : s.page = g
AnswersTrue ==
  /\ \A r \in Requests : request[r].op # "send" /\ request[r].pc \in {"opened", "ok"}
                           => Opened(request[r].page)
  /\ \A g \in Pages : step[g] = "success" => Opened(g)

PortalInv == TypeOK /\ PhonesKnown /\ CodesAlive /\ AnswersTrue

-----------------------------------------------------------------------------
LEMMA UnsentFacts ==
  /\ Unsent.op = "none" /\ Unsent.pc = "idle" /\ Unsent.page = None /\ Unsent.late = FALSE
  /\ Mounted.phase = "phone" /\ Mounted.awaits = None /\ Mounted.phone = None
  BY DEF Unsent, Mounted

FormStates ==
  [phase : {"phone", "code"}, phone : Phones \cup {None}, awaits : Requests \cup {None}]

\* The types a request has once it is sent.
LEMMA RequestFacts ==
  ASSUME TypeOK, NEW r \in Requests, request[r].pc # "idle"
  PROVE  /\ request[r] \in RequestStates
         /\ request[r].op \in {"send", "verify", "redeem"} /\ request[r].page \in Pages
         /\ request[r].pc \in Handling \cup Answers /\ request[r].late \in BOOLEAN
  BY DEF TypeOK, Unsent, RequestStates

\* It goes on: the same request at another place.
GoesOn(r, pc) ==
  /\ request' \in [Requests -> RequestStates \cup {Unsent}]
  /\ request'[r].op = request[r].op /\ request'[r].page = request[r].page
  /\ request'[r].phone = request[r].phone /\ request'[r].code = request[r].code
  /\ request'[r].late = request[r].late /\ request'[r].pc = pc
  /\ \A q \in Requests : q # r => request'[q] = request[q]

LEMMA GoesFacts ==
  ASSUME TypeOK, NEW r \in Requests, NEW pc \in Handling \cup Answers,
         request[r].pc # "idle", Goes(r, pc)
  PROVE  GoesOn(r, pc)
<1>1. request[r] \in RequestStates /\ request \in [Requests -> RequestStates \cup {Unsent}]
  BY RequestFacts DEF TypeOK
<1>2. \A q \in RequestStates :
        LET s == [q EXCEPT !.pc = pc]
        IN  /\ s \in RequestStates /\ s.pc = pc /\ s.op = q.op /\ s.page = q.page
            /\ s.phone = q.phone /\ s.code = q.code /\ s.late = q.late
  BY DEF RequestStates
<1>3. request' = [request EXCEPT ![r] = [request[r] EXCEPT !.pc = pc]]
  BY DEF Goes
<1> QED
  BY <1>1, <1>2, <1>3 DEF GoesOn

\* A request that goes on, while Redis and the sessions change as they may, keeps the
\* first two parts.
LEMMA TypesGoOn ==
  ASSUME TypeOK, PhonesKnown, NEW r \in Requests, NEW pc \in Handling \cup Answers, GoesOn(r, pc),
         request[r].pc # "idle", UNCHANGED <<step, form>>,
         codes' \in 0..MaxCodes, otp' \in [Phones -> 0..codes'], dead' \subseteq 1..codes',
         sessions' \subseteq [page : Pages, late : BOOLEAN]
  PROVE  TypeOK' /\ PhonesKnown'
  BY DEF TypeOK, PhonesKnown, GoesOn

\* The same of a request that goes on and touches nothing else, where it may.
LEMMA QuietGoesOn ==
  ASSUME PortalInv, NEW r \in Requests, NEW pc \in Handling \cup Answers, GoesOn(r, pc),
         request[r].pc # "idle", UNCHANGED <<venue, page>>,
         request[r].op = "verify" => pc \notin {"matched", "opened"} \/ request[r].pc = pc,
         request[r].op # "send" => pc \notin {"opened", "ok"}
  PROVE  PortalInv'
<1>0. TypeOK /\ PhonesKnown /\ CodesAlive /\ AnswersTrue
  BY DEF PortalInv
<1>1. UNCHANGED <<codes, otp, dead, sessions, step, form>>
  BY DEF venue, page
<1>2. TypeOK' /\ PhonesKnown'
  BY <1>0, <1>1, TypesGoOn DEF TypeOK
<1>3. CodesAlive'
  BY <1>0, <1>1 DEF CodesAlive, GoesOn
<1>4. AnswersTrue'
  BY <1>0, <1>1 DEF AnswersTrue, GoesOn, Opened
<1> QED
  BY <1>2, <1>3, <1>4 DEF PortalInv

-----------------------------------------------------------------------------
LEMMA InvInit == Init => PortalInv
<1> SUFFICES ASSUME Init PROVE PortalInv
  OBVIOUS
<1>1. \A r \in Requests : request[r] = Unsent
  BY DEF Init
<1>2. \A g \in Pages : form[g] = Mounted /\ step[g] = "terms"
  BY DEF Init
<1>3. TypeOK
  BY <1>1, <1>2, PortalAssumption DEF Init, TypeOK, Mounted
<1> QED
  BY <1>1, <1>2, <1>3, UnsentFacts
     DEF Init, PortalInv, PhonesKnown, CodesAlive, AnswersTrue

\* The page moves and sends nothing.
LEMMA PageStep ==
  ASSUME PortalInv, NEW g \in Pages,
         AcceptTerms(g) \/ RefuseMac(g) \/ ChoosePhone(g) \/ Back(g) \/ Retry(g) \/ Reload(g)
  PROVE  PortalInv'
<1>0. TypeOK /\ PhonesKnown /\ CodesAlive /\ AnswersTrue
  BY DEF PortalInv
<1>1. UNCHANGED <<codes, otp, dead, sessions, request>>
  BY DEF AcceptTerms, RefuseMac, ChoosePhone, Back, Retry, Reload, venue
<1>2. PICK s \in {"voucher", "error", "sms", "terms"} : step' = [step EXCEPT ![g] = s]
  BY DEF AcceptTerms, RefuseMac, ChoosePhone, Back, Retry, Reload, Show
<1>3. \/ form' = form /\ step[g] # "sms"
      \/ form' = [form EXCEPT ![g] = Mounted]
  BY DEF AcceptTerms, RefuseMac, ChoosePhone, Back, Retry, Reload
<1>4. Mounted \in [phase : {"phone", "code"}, phone : Phones \cup {None}, awaits : Requests \cup {None}]
  BY DEF Mounted
<1>5. \A h \in Pages : h # g => form'[h] = form[h] /\ step'[h] = step[h]
  BY <1>0, <1>2, <1>3 DEF TypeOK
<1>6. form'[g] = Mounted
  BY <1>0, <1>3 DEF TypeOK
<1>7. TypeOK'
  BY <1>0, <1>1, <1>2, <1>3, <1>4, <1>5, <1>6 DEF TypeOK
<1>8. PhonesKnown'
  BY <1>0, <1>1, <1>5, <1>6, UnsentFacts DEF PhonesKnown
<1>9. CodesAlive' /\ AnswersTrue'
  BY <1>0, <1>1, <1>2, <1>5 DEF CodesAlive, AnswersTrue, Opened, TypeOK
<1> QED
  BY <1>7, <1>8, <1>9 DEF PortalInv

\* A request that is sent.
LEMMA SendStep ==
  ASSUME PortalInv, NEW r \in Requests, NEW g \in Pages, NEW op \in {"send", "verify", "redeem"},
         NEW phone \in Phones \cup {None}, NEW code \in 0..MaxCodes, Send(r, g, op, phone, code),
         op = "verify" => code \in 1..codes, op # "redeem" => phone \in Phones,
         UNCHANGED venue
  PROVE  /\ request' \in [Requests -> RequestStates \cup {Unsent}]
         /\ \A q \in Requests : request'[q].op \in {"send", "verify"} => request'[q].phone \in Phones
         /\ CodesAlive'
         /\ \A q \in Requests : request'[q].op # "send" /\ request'[q].pc \in {"opened", "ok"}
                                  => Opened(request'[q].page)
<1>0. TypeOK /\ PhonesKnown /\ CodesAlive /\ AnswersTrue
  BY DEF PortalInv
<1> DEFINE new == [op |-> op, pc |-> "asked", page |-> g, phone |-> phone, code |-> code,
                   late |-> FALSE]
<1>1. new \in RequestStates
  BY DEF RequestStates, Handling
<1>2. /\ new.op = op /\ new.pc = "asked" /\ new.page = g /\ new.phone = phone /\ new.code = code
      /\ ~new.late
  OBVIOUS
<1> HIDE DEF new
<1>3. request' = [request EXCEPT ![r] = new]
  BY DEF Send, new
<1>4. /\ request' \in [Requests -> RequestStates \cup {Unsent}]
      /\ \A q \in Requests : request'[q] = IF q = r THEN new ELSE request[q]
  BY <1>0, <1>1, <1>3 DEF TypeOK
<1>5. UNCHANGED <<codes, otp, dead, sessions>>
  BY DEF venue
<1>6. CodesAlive'
  BY <1>0, <1>2, <1>4, <1>5 DEF CodesAlive
<1> QED
  BY <1>0, <1>2, <1>4, <1>5, <1>6 DEF PhonesKnown, AnswersTrue, Opened

LEMMA SubmitStep ==
  ASSUME PortalInv, NEW r \in Requests, NEW g \in Pages,
         \/ SubmitVoucher(g, r)
         \/ \E p \in Phones : SendCode(g, p, r)
         \/ \E code \in 1..MaxCodes : VerifyCode(g, code, r)
  PROVE  PortalInv'
<1>0. TypeOK /\ PhonesKnown /\ CodesAlive /\ AnswersTrue
  BY DEF PortalInv
<1>1. UNCHANGED venue
  BY DEF SubmitVoucher, SendCode, VerifyCode
<1>2. /\ request' \in [Requests -> RequestStates \cup {Unsent}]
      /\ \A q \in Requests : request'[q].op \in {"send", "verify"} => request'[q].phone \in Phones
      /\ CodesAlive'
      /\ \A q \in Requests : request'[q].op # "send" /\ request'[q].pc \in {"opened", "ok"}
                               => Opened(request'[q].page)
  <2>1. CASE SubmitVoucher(g, r)
    <3>1. Send(r, g, "redeem", None, 0) /\ 0 \in 0..MaxCodes
      BY <2>1, PortalAssumption DEF SubmitVoucher
    <3> QED
      BY <1>1, <3>1, SendStep
  <2>2. ASSUME NEW p \in Phones, SendCode(g, p, r) PROVE <1>2!1 /\ <1>2!2 /\ <1>2!3 /\ <1>2!4
    <3>1. Send(r, g, "send", p, 0)
      BY <2>2, Zenon DEF SendCode
    <3>2. 0 \in 0..MaxCodes
      BY PortalAssumption
    <3> QED
      BY <1>1, <3>1, <3>2, SendStep
  <2>3. ASSUME NEW code \in 1..MaxCodes, VerifyCode(g, code, r)
        PROVE  <1>2!1 /\ <1>2!2 /\ <1>2!3 /\ <1>2!4
    <3>1. Send(r, g, "verify", form[g].phone, code) /\ code \in 1..codes /\ code \in 0..MaxCodes
      BY <2>3, PortalAssumption DEF VerifyCode
    <3>2. form[g].phone \in Phones
      BY <1>0, <2>3 DEF VerifyCode, Ready, PhonesKnown
    <3> QED
      BY <1>1, <3>1, <3>2, SendStep
  <2> QED
    BY <2>1, <2>2, <2>3
<1>3. /\ form' \in [Pages -> [phase : {"phone", "code"}, phone : Phones \cup {None},
                              awaits : Requests \cup {None}]]
      /\ \A h \in Pages : form'[h] # Mounted => step'[h] = "sms"
      /\ step' \in [Pages -> {"terms", "voucher", "sms", "loading", "success", "error"}]
      /\ \A h \in Pages : step'[h] = "success" => step[h] = "success"
      /\ \A h \in Pages : form'[h].phase = "code" \/ form'[h].awaits # None => form'[h].phone \in Phones
  <2>1. CASE SubmitVoucher(g, r)
    <3>1. /\ step' = [step EXCEPT ![g] = "loading"] /\ form' = form /\ step[g] # "sms"
      BY <2>1 DEF SubmitVoucher, Show
    <3> QED
      BY <1>0, <3>1 DEF TypeOK, PhonesKnown
  <2>2. CASE ~SubmitVoucher(g, r)
    <3>1. /\ step' = step /\ step[g] = "sms"
          /\ \/ \E p \in Phones : form' = [form EXCEPT ![g] = [form[g] EXCEPT !.phone = p, !.awaits = r]]
             \/ form[g].phone \in Phones /\ form' = [form EXCEPT ![g] = [form[g] EXCEPT !.awaits = r]]
      BY <1>0, <2>2 DEF SendCode, VerifyCode, Ready, PhonesKnown
    <3>2. form[g] \in FormStates
      BY <1>0 DEF TypeOK, FormStates
    <3>3. \E f \in FormStates :
            form' = [form EXCEPT ![g] = f] /\ f.phone \in Phones
      <4>1. CASE \E p \in Phones : form' = [form EXCEPT ![g] = [form[g] EXCEPT !.phone = p, !.awaits = r]]
        <5>1. PICK p \in Phones : form' = [form EXCEPT ![g] = [form[g] EXCEPT !.phone = p, !.awaits = r]]
          BY <4>1
        <5> DEFINE f == [form[g] EXCEPT !.phone = p, !.awaits = r]
        <5>2. f \in FormStates /\ f.phone = p
          BY <3>2 DEF FormStates
        <5>3. form' = [form EXCEPT ![g] = f]
          BY <5>1
        <5> HIDE DEF f
        <5> QED
          BY <5>2, <5>3
      <4>2. CASE form[g].phone \in Phones /\ form' = [form EXCEPT ![g] = [form[g] EXCEPT !.awaits = r]]
        <5> DEFINE f == [form[g] EXCEPT !.awaits = r]
        <5>1. f \in FormStates /\ f.phone = form[g].phone
          BY <3>2 DEF FormStates
        <5>2. form' = [form EXCEPT ![g] = f]
          BY <4>2
        <5> HIDE DEF f
        <5> QED
          BY <4>2, <5>1, <5>2
      <4> QED
        BY <3>1, <4>1, <4>2
    <3> QED
      BY <1>0, <3>1, <3>3 DEF TypeOK, PhonesKnown, FormStates
  <2> QED
    BY <2>1, <2>2
<1>4. UNCHANGED <<codes, otp, dead, sessions>>
  BY <1>1 DEF venue
<1>5. TypeOK' /\ PhonesKnown' /\ AnswersTrue'
  BY <1>0, <1>2, <1>3, <1>4 DEF TypeOK, PhonesKnown, AnswersTrue, Opened
<1> QED
  BY <1>2, <1>5 DEF PortalInv

-----------------------------------------------------------------------------
(* The handlers of the API.                                                 *)

\* sendOtp: the code replaces the one of the phone, or the API refuses.
LEMMA StoreCodeStep ==
  ASSUME PortalInv, NEW r \in Requests, StoreCode(r)
  PROVE  PortalInv'
<1>0. TypeOK /\ PhonesKnown /\ CodesAlive /\ AnswersTrue
  BY DEF PortalInv
<1> DEFINE p == request[r].phone
<1>1. /\ request[r].op = "send" /\ request[r].pc = "asked" /\ p \in Phones
      /\ UNCHANGED <<sessions, step, form>>
  BY <1>0 DEF StoreCode, At, PhonesKnown, page
<1>2. CASE Goes(r, "refused") /\ UNCHANGED <<codes, dead, otp>>
  <2>1. GoesOn(r, "refused")
    BY <1>0, <1>1, <1>2, GoesFacts DEF Answers
  <2> QED
    BY <1>1, <1>2, <2>1, QuietGoesOn DEF Answers, venue, page
<1>3. CASE /\ codes < MaxCodes /\ codes' = codes + 1 /\ dead' = dead \cup ({otp[p]} \ {0})
           /\ otp' = [otp EXCEPT ![p] = codes'] /\ Goes(r, "stored")
  <2>1. GoesOn(r, "stored")
    BY <1>0, <1>1, <1>3, GoesFacts DEF Handling
  <2>2. codes \in Nat /\ codes' = codes + 1 /\ codes' \in 0..MaxCodes /\ dead \subseteq 1..codes
        /\ otp \in [Phones -> 0..codes]
    BY <1>0, <1>3, PortalAssumption DEF TypeOK
  <2>3. \A q \in Phones : otp'[q] = IF q = p THEN codes + 1 ELSE otp[q]
    BY <1>3, <2>2
  <2>4. otp' \in [Phones -> 0..codes'] /\ dead' \subseteq 1..codes'
    <3>1. \A q \in Phones : otp'[q] \in 0..codes'
      BY <2>2, <2>3
    <3>2. otp[p] \in 0..codes
      BY <1>1, <2>2
    <3>3. otp' \in [Phones -> 0..codes']
      BY <1>3, <2>2, <3>1
    <3>4. dead' \subseteq dead \cup {otp[p]} /\ 0 \notin dead'
      BY <1>3, <2>2
    <3>5. dead' \subseteq 1..codes'
      BY <2>2, <3>2, <3>4
    <3> QED
      BY <3>3, <3>5
  <2>5. TypeOK' /\ PhonesKnown'
    BY <1>0, <1>1, <2>1, <2>2, <2>4, TypesGoOn DEF TypeOK, Handling
  <2>6. CodesAlive'
    <3>1. \A q \in Phones : otp'[q] \notin dead'
      BY <1>0, <1>1, <1>3, <2>2, <2>3 DEF CodesAlive
    <3>2. \A q, s \in Phones : otp'[q] = otp'[s] /\ otp'[q] # 0 => q = s
      BY <1>0, <2>2, <2>3 DEF CodesAlive
    <3>3. \A q \in Requests : request'[q].op = "verify" => request'[q] = request[q]
      BY <1>1, <2>1 DEF GoesOn
    <3>4. \A q \in Requests : request'[q].op = "verify" => request'[q].code \in 1..codes'
                                                          /\ request'[q].code <= codes
      BY <1>0, <2>2, <3>3 DEF CodesAlive
    <3>5. \A q \in Requests, s \in Phones :
            request'[q].op = "verify" /\ request'[q].pc \in {"matched", "opened"}
              /\ otp'[s] = request'[q].code => s = request'[q].phone
      BY <1>0, <2>2, <2>3, <3>3, <3>4 DEF CodesAlive
    <3>6. (\A q \in Requests : ~request'[q].late) /\ \A s \in sessions' : ~s.late
      BY <1>0, <1>1, <2>1 DEF CodesAlive, GoesOn
    <3> QED
      BY <3>1, <3>2, <3>4, <3>5, <3>6 DEF CodesAlive
  <2>7. AnswersTrue'
    BY <1>0, <1>1, <2>1 DEF AnswersTrue, Opened, GoesOn
  <2> QED
    BY <2>5, <2>6, <2>7 DEF PortalInv
<1> QED
  BY <1>2, <1>3 DEF StoreCode

LEMMA TextCodeStep ==
  ASSUME PortalInv, NEW r \in Requests, TextCode(r)
  PROVE  PortalInv'
<1>1. TypeOK /\ request[r].op = "send" /\ request[r].pc = "stored" /\ UNCHANGED <<venue, page>>
  BY DEF PortalInv, TextCode, At
<1>2. GoesOn(r, "ok")
  BY <1>1, GoesFacts DEF TextCode, Answers
<1> QED
  BY <1>1, <1>2, QuietGoesOn DEF Answers

\* A code that lapses was of one number.
LEMMA LapseStep ==
  ASSUME PortalInv, NEW p \in Phones, CodeLapses(p)
  PROVE  PortalInv'
<1>0. TypeOK /\ PhonesKnown /\ CodesAlive /\ AnswersTrue
  BY DEF PortalInv
<1>1. /\ otp[p] # 0 /\ dead' = dead \cup {otp[p]} /\ otp' = [otp EXCEPT ![p] = 0]
      /\ UNCHANGED <<codes, sessions, request, step, form>>
  BY DEF CodeLapses, page
<1>2. codes \in Nat /\ otp \in [Phones -> 0..codes] /\ dead \subseteq 1..codes
  BY <1>0, PortalAssumption DEF TypeOK
<1>3. \A q \in Phones : otp'[q] = IF q = p THEN 0 ELSE otp[q]
  BY <1>1, <1>2
<1>4. otp' \in [Phones -> 0..codes] /\ dead' \subseteq 1..codes
  <2>1. 0 \in 0..codes /\ otp[p] \in 0..codes
    BY <1>2
  <2>2. otp[p] \in 1..codes
    BY <1>1, <1>2, <2>1
  <2>3. otp' \in [Phones -> 0..codes]
    BY <1>1, <1>2, <2>1
  <2>4. dead' \subseteq 1..codes
    BY <1>1, <1>2, <2>2
  <2> QED
    BY <2>3, <2>4
<1>5. TypeOK' /\ PhonesKnown' /\ AnswersTrue'
  BY <1>0, <1>1, <1>4 DEF TypeOK, PhonesKnown, AnswersTrue, Opened
<1>6. CodesAlive'
  <2>1. \A q \in Phones : otp'[q] \notin dead'
    BY <1>0, <1>1, <1>2, <1>3 DEF CodesAlive
  <2>2. \A q \in Requests, s \in Phones :
          request[q].op = "verify" /\ request[q].pc \in {"matched", "opened"}
            /\ otp'[s] = request[q].code => s = request[q].phone
    BY <1>0, <1>2, <1>3 DEF CodesAlive
  <2> QED
    BY <1>0, <1>1, <1>3, <2>1, <2>2 DEF CodesAlive
<1> QED
  BY <1>5, <1>6 DEF PortalInv

\* A code is matched while it is alive, and is then of the caller's number.
LEMMA ReadCodeStep ==
  ASSUME PortalInv, NEW r \in Requests, ReadCode(r)
  PROVE  PortalInv'
<1>0. TypeOK /\ PhonesKnown /\ CodesAlive /\ AnswersTrue
  BY DEF PortalInv
<1>1. request[r].op = "verify" /\ request[r].pc = "asked" /\ UNCHANGED <<venue, page>>
  BY DEF ReadCode, At
<1>2. CASE otp[request[r].phone] # request[r].code
  <2>1. GoesOn(r, "refused")
    BY <1>0, <1>1, <1>2, GoesFacts DEF ReadCode, Answers
  <2> QED
    BY <1>1, <2>1, QuietGoesOn DEF Answers
<1>3. CASE otp[request[r].phone] = request[r].code
  <2>1. request[r].phone \in Phones /\ request[r].code \in 1..codes /\ request[r].code \notin dead
    BY <1>0, <1>1, <1>3 DEF PhonesKnown, CodesAlive
  <2>2. request[r] \in RequestStates /\ ~request[r].late
    BY <1>0, <1>1, RequestFacts DEF CodesAlive
  <2> DEFINE new == [request[r] EXCEPT !.pc = "matched", !.late = FALSE]
  <2>3. request' = [request EXCEPT ![r] = new]
    <3>1. request' = [request EXCEPT ![r] = [request[r] EXCEPT !.pc = "matched",
                                               !.late = request[r].code \in dead]]
      BY <1>3 DEF ReadCode
    <3>2. (request[r].code \in dead) = FALSE
      BY <2>1
    <3> QED
      BY <3>1, <3>2, Zenon
  <2>4. /\ new \in RequestStates /\ new.pc = "matched" /\ new.op = request[r].op
        /\ new.page = request[r].page /\ new.phone = request[r].phone /\ new.code = request[r].code
    BY <2>2 DEF RequestStates, Handling
  <2>5. new.late = FALSE
    BY <2>2 DEF RequestStates
  <2> HIDE DEF new
  <2>6. GoesOn(r, "matched")
    BY <1>0, <2>2, <2>3, <2>4, <2>5 DEF GoesOn, TypeOK, RequestStates
  <2>7. UNCHANGED <<codes, otp, dead, sessions, step, form>>
    BY <1>1 DEF venue, page
  <2>8. TypeOK' /\ PhonesKnown'
    BY <1>0, <1>1, <2>6, <2>7, TypesGoOn DEF TypeOK, Handling
  <2>9. CodesAlive'
    <3>1. \A q \in Requests, s \in Phones :
            request'[q].op = "verify" /\ request'[q].pc \in {"matched", "opened"}
              /\ otp[s] = request'[q].code => s = request'[q].phone
      BY <1>0, <1>3, <2>1, <2>6 DEF CodesAlive, GoesOn
    <3> QED
      BY <1>0, <2>6, <2>7, <3>1 DEF CodesAlive, GoesOn
  <2>10. AnswersTrue'
    BY <1>0, <2>6, <2>7 DEF AnswersTrue, Opened, GoesOn
  <2> QED
    BY <2>8, <2>9, <2>10 DEF PortalInv
<1> QED
  BY <1>2, <1>3

\* A session is opened for the page that asked, by a code that was alive.
LEMMA OpenSessionStep ==
  ASSUME PortalInv, NEW r \in Requests, OpenSession(r)
  PROVE  PortalInv'
<1>0. TypeOK /\ PhonesKnown /\ CodesAlive /\ AnswersTrue
  BY DEF PortalInv
<1>1. /\ request[r].op = "verify" /\ request[r].pc = "matched" /\ Goes(r, "opened")
      /\ UNCHANGED <<codes, otp, dead, step, form>>
      /\ sessions' = sessions \cup {[page |-> request[r].page, late |-> request[r].late]}
  BY DEF OpenSession, At, page
<1>2. GoesOn(r, "opened") /\ request[r].page \in Pages /\ request[r].late \in BOOLEAN
  BY <1>0, <1>1, GoesFacts, RequestFacts DEF Handling
<1>3. sessions' \subseteq [page : Pages, late : BOOLEAN]
  BY <1>0, <1>1, <1>2 DEF TypeOK
<1>4. TypeOK' /\ PhonesKnown'
  BY <1>0, <1>1, <1>2, <1>3, TypesGoOn DEF TypeOK, Handling
<1>5. \A s \in sessions' : ~s.late
  BY <1>0, <1>1 DEF CodesAlive
<1>6. CodesAlive'
  BY <1>0, <1>1, <1>2, <1>5 DEF CodesAlive, GoesOn
<1>7. (\E s \in sessions' : s.page = request[r].page) /\ sessions \subseteq sessions'
  <2> DEFINE new == [page |-> request[r].page, late |-> request[r].late]
  <2>1. new.page = request[r].page
    OBVIOUS
  <2>2. new \in sessions' /\ sessions \subseteq sessions'
    BY <1>1
  <2> HIDE DEF new
  <2> QED
    BY <2>1, <2>2
<1>8. AnswersTrue'
  BY <1>0, <1>1, <1>2, <1>7 DEF AnswersTrue, Opened, GoesOn
<1> QED
  BY <1>4, <1>6, <1>8 DEF PortalInv

\* What is deleted with a code is the newest code of the same number, and no other.
LEMMA DeleteCodeStep ==
  ASSUME PortalInv, NEW r \in Requests, DeleteCode(r)
  PROVE  PortalInv'
<1>0. TypeOK /\ PhonesKnown /\ CodesAlive /\ AnswersTrue
  BY DEF PortalInv
<1> DEFINE p == request[r].phone
<1>1. /\ request[r].op = "verify" /\ request[r].pc = "opened" /\ Goes(r, "ok")
      /\ UNCHANGED <<codes, sessions, step, form>>
      /\ otp' = [otp EXCEPT ![p] = 0]
      /\ dead' = dead \cup ({request[r].code, otp[p]} \ {0})
  BY DEF DeleteCode, WithoutCode, At, page
<1>2. GoesOn(r, "ok") /\ p \in Phones /\ request[r].code \in 1..codes
  BY <1>0, <1>1, GoesFacts DEF Answers, PhonesKnown, CodesAlive
<1>3. codes \in Nat /\ otp \in [Phones -> 0..codes] /\ dead \subseteq 1..codes
  BY <1>0, PortalAssumption DEF TypeOK
<1>4. \A q \in Phones : otp'[q] = IF q = p THEN 0 ELSE otp[q]
  BY <1>1, <1>3
<1>5. otp' \in [Phones -> 0..codes] /\ dead' \subseteq 1..codes
  <2>1. otp[p] \in 0..codes /\ 0 \in 0..codes
    BY <1>2, <1>3
  <2>2. otp' \in [Phones -> 0..codes]
    BY <1>1, <1>3, <2>1
  <2>3. dead' \subseteq dead \cup {request[r].code, otp[p]} /\ 0 \notin dead'
    BY <1>1, <1>3
  <2>4. dead' \subseteq 1..codes
    BY <1>2, <1>3, <2>1, <2>3
  <2> QED
    BY <2>2, <2>4
<1>6. TypeOK' /\ PhonesKnown'
  BY <1>0, <1>1, <1>2, <1>5, TypesGoOn DEF TypeOK, Answers
<1>7. CodesAlive'
  <2>1. \A q \in Phones : otp'[q] \notin dead'
    BY <1>0, <1>1, <1>2, <1>3, <1>4 DEF CodesAlive
  <2>2. \A q \in Requests, s \in Phones :
          request'[q].op = "verify" /\ request'[q].pc \in {"matched", "opened"}
            /\ otp'[s] = request'[q].code => s = request'[q].phone
    <3>1. SUFFICES ASSUME NEW q \in Requests, NEW s \in Phones, request'[q].op = "verify",
                          request'[q].pc \in {"matched", "opened"}, otp'[s] = request'[q].code
                   PROVE  s = request'[q].phone
      OBVIOUS
    <3>2. q # r /\ request'[q] = request[q]
      BY <1>2, <3>1 DEF GoesOn
    <3>3. request[q].code # 0
      BY <1>0, <3>1, <3>2 DEF CodesAlive
    <3>4. otp[s] = request[q].code
      BY <1>4, <3>1, <3>2, <3>3
    <3> QED
      BY <1>0, <3>1, <3>2, <3>4 DEF CodesAlive
  <2> QED
    BY <1>0, <1>1, <1>2, <1>4, <2>1, <2>2 DEF CodesAlive, GoesOn
<1>8. AnswersTrue'
  BY <1>0, <1>1, <1>2 DEF AnswersTrue, Opened, GoesOn
<1> QED
  BY <1>6, <1>7, <1>8 DEF PortalInv

LEMMA RedeemStep ==
  ASSUME PortalInv, NEW r \in Requests, NEW v \in Vouchers, Redeem(r, v)
  PROVE  PortalInv'
<1>0. TypeOK /\ PhonesKnown /\ CodesAlive /\ AnswersTrue
  BY DEF PortalInv
<1>1. /\ request[r].op = "redeem" /\ request[r].pc = "asked"
      /\ UNCHANGED <<codes, otp, dead, step, form>>
  BY DEF Redeem, At, page
<1>2. PICK pc \in Answers :
        /\ Goes(r, pc)
        /\ \/ sessions' = sessions \cup {[page |-> request[r].page, late |-> FALSE]}
           \/ sessions' = sessions /\ pc = "refused"
  BY DEF Redeem, Answers
<1>3. GoesOn(r, pc) /\ request[r].page \in Pages
  BY <1>0, <1>1, <1>2, GoesFacts, RequestFacts
<1>4. /\ sessions' \subseteq [page : Pages, late : BOOLEAN] /\ sessions \subseteq sessions'
      /\ \A s \in sessions' : ~s.late
      /\ pc = "refused" \/ \E s \in sessions' : s.page = request[r].page
  <2> DEFINE new == [page |-> request[r].page, late |-> FALSE]
  <2>1. new \in [page : Pages, late : BOOLEAN] /\ new.page = request[r].page /\ ~new.late
    BY <1>3
  <2>2. sessions' = sessions \cup {new} \/ (sessions' = sessions /\ pc = "refused")
    BY <1>2
  <2> HIDE DEF new
  <2>3. sessions \subseteq [page : Pages, late : BOOLEAN] /\ \A s \in sessions : ~s.late
    BY <1>0 DEF TypeOK, CodesAlive
  <2> QED
    BY <2>1, <2>2, <2>3
<1>5. TypeOK' /\ PhonesKnown'
  BY <1>0, <1>1, <1>2, <1>3, <1>4, TypesGoOn DEF TypeOK
<1>6. CodesAlive'
  BY <1>0, <1>1, <1>3, <1>4 DEF CodesAlive, GoesOn
<1>7. AnswersTrue'
  BY <1>0, <1>1, <1>3, <1>4 DEF AnswersTrue, Opened, GoesOn
<1> QED
  BY <1>5, <1>6, <1>7 DEF PortalInv

-----------------------------------------------------------------------------
(* Answers, and requests that are lost.                                     *)

LEMMA LostStep ==
  ASSUME PortalInv, NEW r \in Requests, Lost(r)
  PROVE  PortalInv'
<1>1. TypeOK /\ request[r].pc \in {"asked", "ok"} /\ UNCHANGED <<venue, page>> /\ Goes(r, "refused")
  BY DEF PortalInv, Lost
<1>2. GoesOn(r, "refused")
  BY <1>1, GoesFacts DEF Answers
<1> QED
  BY <1>1, <1>2, QuietGoesOn DEF Answers

LEMMA CrashStep ==
  ASSUME PortalInv, Crash
  PROVE  PortalInv'
<1>0. TypeOK /\ PhonesKnown /\ CodesAlive /\ AnswersTrue
  BY DEF PortalInv
<1>1. UNCHANGED <<codes, otp, dead, sessions, step, form>>
  BY DEF Crash, venue, page
<1>2. \A r \in Requests :
        /\ request'[r] \in RequestStates \cup {Unsent}
        /\ \/ request'[r] = request[r]
           \/ /\ request'[r].pc = "refused" /\ request'[r].op = request[r].op
              /\ request'[r].phone = request[r].phone /\ request'[r].code = request[r].code
              /\ request'[r].late = request[r].late
  <2>1. SUFFICES ASSUME NEW r \in Requests, request[r].pc \in Handling
                 PROVE  /\ request'[r] \in RequestStates
                        /\ request'[r].pc = "refused" /\ request'[r].op = request[r].op
                        /\ request'[r].phone = request[r].phone /\ request'[r].code = request[r].code
                        /\ request'[r].late = request[r].late
    BY <1>0 DEF Crash, TypeOK
  <2>2. request[r] \in RequestStates
    BY <1>0, <2>1, RequestFacts DEF Handling
  <2>3. request'[r] = [request[r] EXCEPT !.pc = "refused"]
    BY <2>1 DEF Crash
  <2> QED
    BY <2>2, <2>3 DEF RequestStates, Answers
<1>3. request' \in [Requests -> RequestStates \cup {Unsent}]
  BY <1>2 DEF Crash
<1>4. TypeOK' /\ PhonesKnown'
  BY <1>0, <1>1, <1>2, <1>3 DEF TypeOK, PhonesKnown
<1>5. CodesAlive'
  BY <1>0, <1>1, <1>2 DEF CodesAlive
<1>6. AnswersTrue'
  BY <1>0, <1>1, <1>2 DEF AnswersTrue, Opened
<1> QED
  BY <1>4, <1>5, <1>6 DEF PortalInv

\* An answer moves its page, and the phone form that awaits it.
LEMMA AnsweredStep ==
  ASSUME PortalInv, NEW r \in Requests, Answered(r)
  PROVE  PortalInv'
<1>0. TypeOK /\ PhonesKnown /\ CodesAlive /\ AnswersTrue
  BY DEF PortalInv
<1> DEFINE g == request[r].page
<1>1. /\ request[r].pc \in Answers /\ g \in Pages
      /\ request' = [request EXCEPT ![r] = Unsent]
      /\ UNCHANGED <<codes, otp, dead, sessions>>
  BY <1>0, RequestFacts DEF Answered, Answers, venue
<1>2. PICK s \in {"success", "error", step[g]} :
        /\ step' = [step EXCEPT ![g] = s]
        /\ s = "success" => Succeeds(r) \/ step[g] = "success"
        /\ s = "sms" => step[g] = "sms"
  BY DEF Answered, Show, FailedStep
<1>3. /\ \A h \in Pages : step'[h] = IF h = g THEN s ELSE step[h]
      /\ step' \in [Pages -> {"terms", "voucher", "sms", "loading", "success", "error"}]
  BY <1>0, <1>1, <1>2 DEF TypeOK
<1>4. \E f \in FormStates :
        /\ form' = [form EXCEPT ![g] = f]
        /\ s # "sms" => f = Mounted
        /\ f.phase = "code" \/ f.awaits # None => f.phone \in Phones
  <2>1. CASE s # "sms"
    <3>1. form' = [form EXCEPT ![g] = Mounted]
      BY <1>1, <1>3, <2>1 DEF Answered
    <3>2. Mounted \in FormStates
      BY DEF Mounted, FormStates
    <3> QED
      BY <3>1, <3>2, UnsentFacts
  <2>2. CASE s = "sms" /\ form[g].awaits # r
    <3>1. form' = [form EXCEPT ![g] = form[g]]
      BY <1>1, <1>3, <2>2 DEF Answered
    <3>2. form[g] \in FormStates
      BY <1>0, <1>1 DEF TypeOK, FormStates
    <3> QED
      BY <1>0, <1>1, <2>2, <3>1, <3>2 DEF PhonesKnown
  <2>3. CASE s = "sms" /\ form[g].awaits = r
    <3>1. form[g] \in FormStates /\ form[g].phone \in Phones
      <4>1. r # None
        BY PortalAssumption
      <4> QED
        BY <1>0, <1>1, <2>3, <4>1 DEF TypeOK, FormStates, PhonesKnown
    <3>2. PICK phase \in {"phone", "code"} :
            form' = [form EXCEPT ![g] = [form[g] EXCEPT !.awaits = None, !.phase = phase]]
      <4>1. form[g].phase \in {"phone", "code"}
        BY <3>1 DEF FormStates
      <4>2. form' = [form EXCEPT ![g] = [form[g] EXCEPT !.awaits = None,
                       !.phase = IF At(r, "send", "ok") THEN "code" ELSE form[g].phase]]
        BY <1>1, <1>3, <2>3 DEF Answered
      <4>3. CASE At(r, "send", "ok")
        BY <4>2, <4>3
      <4>4. CASE ~At(r, "send", "ok")
        <5>1. form' = [form EXCEPT ![g] = [form[g] EXCEPT !.awaits = None, !.phase = form[g].phase]]
          BY <4>2, <4>4
        <5> QED
          BY <4>1, <5>1
      <4> QED
        BY <4>3, <4>4
    <3> DEFINE f == [form[g] EXCEPT !.awaits = None, !.phase = phase]
    <3>3. f \in FormStates /\ f.phone = form[g].phone
      BY <3>1 DEF FormStates
    <3>4. form' = [form EXCEPT ![g] = f]
      BY <3>2
    <3> HIDE DEF f
    <3> QED
      BY <2>3, <3>1, <3>3, <3>4
  <2> QED
    BY <2>1, <2>2, <2>3
<1>5. PICK f \in FormStates :
        /\ form' = [form EXCEPT ![g] = f]
        /\ s # "sms" => f = Mounted
        /\ f.phase = "code" \/ f.awaits # None => f.phone \in Phones
  BY <1>4
<1>6. /\ \A h \in Pages : form'[h] = IF h = g THEN f ELSE form[h]
      /\ form' \in [Pages -> FormStates]
  BY <1>0, <1>1, <1>5 DEF TypeOK, FormStates
<1>7. /\ \A q \in Requests : request'[q] = IF q = r THEN Unsent ELSE request[q]
      /\ request' \in [Requests -> RequestStates \cup {Unsent}]
  BY <1>0, <1>1 DEF TypeOK
<1>8. TypeOK'
  <2>1. \A h \in Pages : form'[h] # Mounted => step'[h] = "sms"
    BY <1>0, <1>3, <1>5, <1>6 DEF TypeOK
  <2> QED
    BY <1>0, <1>1, <1>3, <1>6, <1>7, <2>1 DEF TypeOK, FormStates
<1>9. PhonesKnown'
  BY <1>0, <1>5, <1>6, <1>7, UnsentFacts DEF PhonesKnown
<1>10. CodesAlive'
  BY <1>0, <1>1, <1>7, UnsentFacts DEF CodesAlive
<1>11. AnswersTrue'
  <2>1. s = "success" => Opened(g)
    BY <1>0, <1>1, <1>2 DEF Succeeds, AnswersTrue
  <2> QED
    BY <1>0, <1>1, <1>3, <1>7, <2>1, UnsentFacts DEF AnswersTrue, Opened
<1> QED
  BY <1>8, <1>9, <1>10, <1>11 DEF PortalInv

-----------------------------------------------------------------------------
\* Every step keeps all this.
LEMMA InvStep == PortalInv /\ [Next]_vars => PortalInv'
<1> SUFFICES ASSUME PortalInv, [Next]_vars PROVE PortalInv'
  OBVIOUS
<1>1. CASE UNCHANGED vars
  BY <1>1 DEF vars, venue, vouchers, page, PortalInv, TypeOK, PhonesKnown, CodesAlive,
     AnswersTrue, Opened
<1> QED
  BY <1>1, PageStep, SubmitStep, StoreCodeStep, TextCodeStep, LapseStep, ReadCodeStep,
     OpenSessionStep, DeleteCodeStep, RedeemStep, LostStep, CrashStep, AnsweredStep DEF Next

LEMMA PortalInvariant == Spec => []PortalInv
  BY InvInit, InvStep, PTL DEF Spec

\* Types hold on every page and in Redis, for any number of guests and codes
\* (PortalPage.tsx:16-31, SmsStep.tsx:28-34).
THEOREM PortalTypeCorrect == Spec => []TypeOK
<1>1. PortalInv => TypeOK
  BY DEF PortalInv
<1> QED
  BY <1>1, PortalInvariant, PTL

\* No dead code opens a session, for any number of phone numbers and overlapping calls
\* (portal-auth.service.ts:53-81).
THEOREM DeadCodesAreDead == Spec => []DeadCodeOpensNothing
<1>1. PortalInv => DeadCodeOpensNothing
  BY DEF PortalInv, CodesAlive, DeadCodeOpensNothing
<1> QED
  BY <1>1, PortalInvariant, PTL

\* A page that says "connected" has its session (PortalPage.tsx:54-72, 122-134).
THEOREM ConnectedIsTrue == Spec => []ConnectedMeansSession
<1>1. PortalInv => ConnectedMeansSession
  BY DEF PortalInv, AnswersTrue, Opened, ConnectedMeansSession
<1> QED
  BY <1>1, PortalInvariant, PTL
=============================================================================
