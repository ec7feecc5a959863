-------------------------- MODULE GatewayAgentProofs --------------------------
(***************************************************************************)
(* Theorems about GatewayAgent, for any number of sessions and devices.     *)
(* Types, and that nobody is online who bought nothing, hold whatever polls  *)
(* overlap, scripts leave half done and processes end.  That the agent       *)
(* implements VenueAccess, and what a sync leaves on the router, need one    *)
(* poll after the other.                                                     *)
(***************************************************************************)
EXTENDS GatewayAgent, TLAPS

\* A script is only under way in a sync.
CallsInSync == \A p \in Polls : poll[p].call # NoCall => poll[p].pc = "sync"

TypeInv == TypeOK /\ CallsInSync

Stages == {"starting", "running"} \cup Closing
RouterOK == open \subseteq Macs /\ rate \in [Macs -> Speeds \cup {0}] /\ spoiled \subseteq Macs

-----------------------------------------------------------------------------
(* Records.                                                                 *)

LEMMA NoneFacts == None \notin Sessions /\ None \notin Macs /\ None \notin Polls
  BY AgentAssumption

LEMMA MapFacts ==
  ASSUME NEW s \in Sessions
  PROVE  MacOf[s] \in Macs /\ SpeedOf[s] \in Speeds /\ SpeedOf[s] \in Nat /\ SpeedOf[s] # 0
  BY AgentAssumption DEF Speeds

LEMMA CallFacts ==
  ASSUME NEW c \in Calls
  PROVE  /\ c # NoCall => /\ c.op \in {"allow", "shape", "block"} /\ c.mac \in Macs
                          /\ c.state \in {"running", "ok", "failed"}
                          /\ c.op # "block" => c.session \in Sessions
                          /\ c.op = "block" => c.session = None
         /\ c = NoCall => c.op = "none" /\ c.mac = None /\ c.session = None /\ c.state = "none"
         /\ c.session \in Sessions \cup {None}
  BY DEF Calls, NoCall

LEMMA NewCall ==
  ASSUME NEW m \in Macs, NEW op, NEW s,
         (op = "block" /\ s = None) \/ (op \in {"allow", "shape"} /\ s \in Sessions)
  PROVE  LET c == [op |-> op, mac |-> m, session |-> s, state |-> "running"]
         IN  c \in Calls /\ c # NoCall /\ c.op = op /\ c.mac = m /\ c.session = s
               /\ c.state = "running"
  BY DEF Calls, NoCall

LEMMA EndedCall ==
  ASSUME NEW c \in Calls, c # NoCall, NEW state \in {"ok", "failed"}
  PROVE  LET d == [c EXCEPT !.state = state]
         IN  d \in Calls /\ d # NoCall /\ d.op = c.op /\ d.mac = c.mac /\ d.session = c.session
               /\ d.state = state
  BY DEF Calls, NoCall

LEMMA IdleFacts ==
  /\ Idle \in PollStates /\ Idle.pc = "idle" /\ Idle.call = NoCall /\ Idle.list = {}
  /\ Idle.block = {} /\ Idle.orphan = FALSE
  BY DEF Idle, PollStates, Calls

LEMMA PollFacts ==
  ASSUME TypeInv, NEW p \in Polls
  PROVE  /\ poll[p] \in PollStates /\ poll[p].call \in Calls
         /\ poll[p].list \subseteq Sessions /\ poll[p].block \subseteq Macs
         /\ poll[p].offline \in BOOLEAN /\ poll[p].orphan \in BOOLEAN
         /\ poll[p].pc \in {"idle", "asking", "answered", "sync"}
         /\ poll[p].call # NoCall => poll[p].pc = "sync"
  BY DEF TypeInv, TypeOK, CallsInSync, PollStates

\* A poll that goes on, as new.
LEMMA PollMoves ==
  ASSUME TypeInv, NEW p \in Polls, NEW new \in PollStates, poll' = [poll EXCEPT ![p] = new],
         new.call # NoCall => new.pc = "sync"
  PROVE  /\ poll' \in [Polls -> PollStates] /\ CallsInSync'
         /\ poll'[p] = new /\ \A q \in Polls : q # p => poll'[q] = poll[q]
  BY DEF TypeInv, TypeOK, CallsInSync

\* sync as it starts.
LEMMA SyncingFacts ==
  ASSUME TypeInv, NEW p \in Polls, NEW list \in SUBSET Sessions, NEW offline \in BOOLEAN
  PROVE  /\ Syncing(p, list, offline) \in PollStates /\ Syncing(p, list, offline).pc = "sync"
         /\ Syncing(p, list, offline).call = NoCall
         /\ Syncing(p, list, offline).list = Active(list)
         /\ Syncing(p, list, offline).block = Unlisted(list)
         /\ Syncing(p, list, offline).orphan = FALSE
<1>1. poll[p] \in PollStates /\ NoCall \in Calls
  BY PollFacts DEF Calls
<1>2. Active(list) \in SUBSET Sessions /\ Unlisted(list) \in SUBSET Macs
  BY DEF Active, Unlisted
<1> QED
  BY <1>1, <1>2 DEF Syncing, PollStates

-----------------------------------------------------------------------------
(* Types.                                                                   *)

LEMMA FreshTypes ==
  ASSUME TypeInv, FreshProcess, phase' \in [Sessions -> {"none", "active", "suspended", "due"}],
         licensed' \in BOOLEAN, UNCHANGED router
  PROVE  TypeInv'
<1>1. /\ restarts' = restarts + 1 /\ restarts < MaxRestarts
      /\ enforced' = [m \in Macs |-> None] /\ cache' = {} /\ age' = "never"
      /\ poll' = [p \in Polls |-> Idle] /\ thread' = None /\ stage' = "starting"
  BY DEF FreshProcess
<1>2. restarts' \in 0..MaxRestarts
  BY <1>1, AgentAssumption DEF TypeInv, TypeOK
<1>3. poll' \in [Polls -> PollStates] /\ \A p \in Polls : poll'[p].call = NoCall
  BY <1>1, IdleFacts
<1> QED
  BY <1>1, <1>2, <1>3 DEF TypeInv, TypeOK, CallsInSync, router

\* The cloud's own steps.
CloudActs ==
  \/ \E s \in Sessions : Open(s) \/ Suspend(s)
  \/ \E gone \in SUBSET Sessions : Expire(gone)
  \/ ChangeLicense \/ GraceRunsOut

\* They leave the agent and the router alone, and nothing that is over comes back.
LEMMA CloudFacts ==
  ASSUME TypeInv, CloudActs
  PROVE  /\ UNCHANGED <<router, enforced, cache, poll, thread, stage, restarts>>
         /\ phase' \in [Sessions -> {"none", "active", "suspended", "due"}]
         /\ licensed' \in BOOLEAN /\ age' \in {"never", "fresh", "stale"}
         /\ \A s \in Sessions : phase[s] = "due" => phase'[s] = "due"
         /\ \A s \in Sessions : phase[s] # "none" => phase'[s] # "none"
         /\ Cloud!Next \/ UNCHANGED phase
<1>0. TypeOK
  BY DEF TypeInv
<1>1. ASSUME NEW s \in Sessions, Open(s) \/ Suspend(s)
      PROVE  /\ Cloud!Next /\ UNCHANGED <<licensed, age>>
             /\ phase' \in [Sessions -> {"none", "active", "suspended", "due"}]
             /\ \A t \in Sessions : phase[t] = "due" => phase'[t] = "due"
             /\ \A t \in Sessions : phase[t] # "none" => phase'[t] # "none"
  BY <1>0, <1>1 DEF TypeOK, Open, Suspend, Cloud!Open, Cloud!Suspend, Cloud!Next
<1>2. ASSUME NEW gone \in SUBSET Sessions, Expire(gone)
      PROVE  /\ Cloud!Next /\ UNCHANGED <<licensed, age>>
             /\ phase' \in [Sessions -> {"none", "active", "suspended", "due"}]
             /\ \A t \in Sessions : phase[t] = "due" => phase'[t] = "due"
             /\ \A t \in Sessions : phase[t] # "none" => phase'[t] # "none"
  BY <1>0, <1>2 DEF TypeOK, Expire, Cloud!Expire, Cloud!Next
<1>3. CASE ChangeLicense \/ GraceRunsOut
  BY <1>0, <1>3 DEF TypeOK, ChangeLicense, GraceRunsOut
<1>4. UNCHANGED <<router, enforced, cache, poll, thread, stage, restarts>>
  BY DEF CloudActs, Open, Suspend, Expire, ChangeLicense, GraceRunsOut
<1> QED
  BY <1>0, <1>1, <1>2, <1>3, <1>4 DEF CloudActs, TypeOK

LEMMA CloudTypes ==
  ASSUME TypeInv, CloudActs
  PROVE  TypeInv'
<1>0. TypeOK /\ CallsInSync
  BY DEF TypeInv
<1> QED
  BY <1>0, CloudFacts DEF TypeInv, TypeOK, CallsInSync, router

\* A step of one poll: what it may do to the rest.
LEMMA PollTypes ==
  ASSUME TypeInv, NEW p \in Polls, NEW new \in PollStates, poll' = [poll EXCEPT ![p] = new],
         new.call # NoCall => new.pc = "sync",
         \/ thread' = None
         \/ thread' = p /\ new.pc = "sync" /\ new.call = NoCall
         \/ thread' = thread /\ thread # p,
         UNCHANGED <<phase, licensed, restarts>>, UNCHANGED router \/ RouterOK',
         enforced' \in [Macs -> Sessions \cup {None}], cache' \subseteq Sessions,
         age' \in {"never", "fresh", "stale"}, stage' \in Stages
  PROVE  TypeInv'
<1>0. TypeOK /\ CallsInSync
  BY DEF TypeInv
<1>1. /\ poll' \in [Polls -> PollStates] /\ CallsInSync'
      /\ poll'[p] = new /\ \A q \in Polls : q # p => poll'[q] = poll[q]
  BY PollMoves
<1>2. /\ thread' \in Polls \cup {None}
      /\ thread' # None => poll'[thread'].pc = "sync" /\ poll'[thread'].call = NoCall
  BY <1>0, <1>1, NoneFacts DEF TypeOK
<1>3. RouterOK'
  BY <1>0 DEF RouterOK, router, TypeOK
<1> QED
  BY <1>0, <1>1, <1>2, <1>3 DEF TypeInv, TypeOK, Stages, RouterOK

\* A poll that is over leaves a process that has started, or was and still is closing.
LEMMA PollEndsFacts ==
  ASSUME TypeInv, NEW p \in Polls, PollEnds(p)
  PROVE  /\ poll' = [poll EXCEPT ![p] = Idle] /\ poll'[p] = Idle /\ thread' = None
         /\ stage' \in Stages /\ (stage \in Closing <=> stage' \in Closing)
         /\ (stage' = "running" \/ stage' = stage)
  BY DEF PollEnds, TypeInv, TypeOK, Stages, Closing

\* The catch block: the cache is enforced, or the poll is over.
LEMMA CaughtTypes ==
  ASSUME TypeInv, NEW p \in Polls, Caught(p),
         UNCHANGED <<phase, licensed, router, enforced, cache, age, restarts>>
  PROVE  TypeInv'
<1>0. /\ cache \in SUBSET Sessions /\ stage \in Stages /\ RouterOK
      /\ enforced \in [Macs -> Sessions \cup {None}] /\ age \in {"never", "fresh", "stale"}
  BY DEF TypeInv, TypeOK, Stages, RouterOK
<1>1. CASE CacheUsable
  <2>1. poll' = [poll EXCEPT ![p] = Syncing(p, cache, TRUE)] /\ thread' = p /\ stage' = stage
    BY <1>1 DEF Caught
  <2> QED
    BY <1>0, <2>1, SyncingFacts, PollTypes
<1>2. CASE ~CacheUsable
  <2>1. poll' = [poll EXCEPT ![p] = Idle] /\ thread' = None /\ stage' \in Stages
    BY <1>2, PollEndsFacts DEF Caught
  <2> QED
    BY <1>0, <2>1, IdleFacts, PollTypes
<1> QED
  BY <1>1, <1>2

\* Requests, and the start and end of a sync.
LEMMA AskTypes ==
  ASSUME TypeInv, NEW p \in Polls,
         PollBegin(p) \/ CloudAnswers(p) \/ CloudUnreachable(p) \/ SyncBegin(p) \/ SyncEnd(p)
  PROVE  TypeInv'
<1>0. /\ cache \in SUBSET Sessions /\ stage \in Stages /\ RouterOK
      /\ enforced \in [Macs -> Sessions \cup {None}] /\ age \in {"never", "fresh", "stale"}
      /\ thread \in Polls \cup {None} /\ (thread # None => poll[thread].pc = "sync")
  BY DEF TypeInv, TypeOK, Stages, RouterOK
<1>1. poll[p] \in PollStates /\ (poll[p].call # NoCall => poll[p].pc = "sync")
  BY PollFacts
<1>2. CASE PollBegin(p)
  <2> DEFINE new == [poll[p] EXCEPT !.pc = "asking"]
  <2>1. new \in PollStates /\ new.call = NoCall /\ poll' = [poll EXCEPT ![p] = new]
    BY <1>1, <1>2 DEF PollBegin, PollStates
  <2>2. thread # p
    BY <1>0, <1>2, NoneFacts DEF PollBegin
  <2> HIDE DEF new
  <2> QED
    BY <1>0, <1>2, <2>1, <2>2, PollTypes DEF PollBegin
<1>3. CASE CloudAnswers(p)
  <2> DEFINE new == [poll[p] EXCEPT !.pc = "answered", !.list = Offered]
  <2>1. Offered \in SUBSET Sessions
    BY DEF Offered
  <2>2. new \in PollStates /\ new.call = NoCall /\ poll' = [poll EXCEPT ![p] = new]
    BY <1>1, <1>3, <2>1 DEF CloudAnswers, PollStates
  <2>3. thread # p
    BY <1>0, <1>3, NoneFacts DEF CloudAnswers
  <2> HIDE DEF new
  <2> QED
    BY <1>0, <1>3, <2>2, <2>3, PollTypes DEF CloudAnswers
<1>4. CASE CloudUnreachable(p)
  BY <1>4, CaughtTypes DEF CloudUnreachable
<1>5. CASE SyncBegin(p)
  <2>1. poll[p].list \in SUBSET Sessions
    BY PollFacts
  <2>2. /\ poll' = [poll EXCEPT ![p] = Syncing(p, poll[p].list, FALSE)] /\ thread' = p
        /\ cache' = poll[p].list /\ age' = "fresh"
        /\ UNCHANGED <<phase, licensed, router, enforced, stage, restarts>>
    BY <1>5 DEF SyncBegin
  <2> QED
    BY <1>0, <2>1, <2>2, SyncingFacts, PollTypes
<1>6. CASE SyncEnd(p)
  BY <1>0, <1>6, IdleFacts, PollEndsFacts, PollTypes DEF SyncEnd
<1> QED
  BY <1>2, <1>3, <1>4, <1>5, <1>6

\* A script is started, for a MAC that is not in the list or a session that is.
Starts(p, op, m, s) ==
  /\ (op = "block" /\ s = None) \/ (op \in {"allow", "shape"} /\ s \in Sessions)
  /\ m \in Macs
  /\ Await(p, op, m, s)

\* The poll then awaits it.
Awaits(p, op, m, s) ==
  /\ thread' = None
  /\ \E new \in PollStates :
       /\ poll' = [poll EXCEPT ![p] = new] /\ new.pc = "sync" /\ new.call # NoCall
       /\ new.call.op = op /\ new.call.mac = m /\ new.call.session = s
       /\ new.call.state = "running" /\ new.orphan = FALSE
       /\ new.list = poll[p].list /\ new.block = poll[p].block

LEMMA AwaitFacts ==
  ASSUME TypeInv, NEW p \in Polls, poll[p].pc = "sync", NEW op \in {"allow", "shape", "block"},
         NEW m \in Macs, NEW s \in Sessions \cup {None}, Starts(p, op, m, s)
  PROVE  Awaits(p, op, m, s)
<1> DEFINE c == [op |-> op, mac |-> m, session |-> s, state |-> "running"]
<1>1. c \in Calls /\ c # NoCall /\ c.op = op /\ c.mac = m /\ c.session = s /\ c.state = "running"
  BY NewCall DEF Starts
<1>2. poll' = [poll EXCEPT ![p] = [poll[p] EXCEPT !.call = c, !.orphan = FALSE]] /\ thread' = None
  BY DEF Starts, Await
<1> HIDE DEF c
<1>3. poll[p] \in PollStates
  BY PollFacts
<1> DEFINE new == [poll[p] EXCEPT !.call = c, !.orphan = FALSE]
<1>4. /\ new \in PollStates /\ new.pc = "sync" /\ new.call = c /\ new.orphan = FALSE
      /\ new.list = poll[p].list /\ new.block = poll[p].block
  BY <1>1, <1>3 DEF PollStates
<1>5. poll' = [poll EXCEPT ![p] = new]
  BY <1>2
<1> HIDE DEF new
<1> QED
  BY <1>1, <1>2, <1>4, <1>5 DEF Awaits

\* The three things the loop over the list does.
LEMMA AllowKinds ==
  ASSUME TypeInv, NEW p \in Polls, AllowNext(p)
  PROVE  /\ thread = p /\ poll[p].block = {} /\ poll[p].pc = "sync" /\ poll[p].call = NoCall
         /\ UNCHANGED <<phase, licensed, router, cache, age, stage, restarts>>
         /\ \E s \in poll[p].list :
              \/ /\ enforced[MacOf[s]] = None /\ Starts(p, "allow", MacOf[s], s)
                 /\ UNCHANGED enforced
              \/ /\ enforced[MacOf[s]] # None /\ Starts(p, "shape", MacOf[s], s)
                 /\ UNCHANGED enforced
              \/ /\ enforced[MacOf[s]] # None
                 /\ SpeedOf[enforced[MacOf[s]]] = SpeedOf[s]
                 /\ enforced' = [enforced EXCEPT ![MacOf[s]] = s]
                 /\ poll' = [poll EXCEPT ![p] = [poll[p] EXCEPT !.list = poll[p].list \ {s}]]
                 /\ UNCHANGED thread
<1>1. thread = p /\ poll[p].pc = "sync" /\ poll[p].call = NoCall /\ poll[p].list \subseteq Sessions
  BY PollFacts, NoneFacts DEF AllowNext, TypeInv, TypeOK
<1>2. \A s \in poll[p].list : s \in Sessions /\ MacOf[s] \in Macs
  BY <1>1, MapFacts
<1>3. PICK s \in poll[p].list :
        \/ /\ enforced[MacOf[s]] = None /\ Await(p, "allow", MacOf[s], s)
           /\ UNCHANGED enforced
        \/ /\ enforced[MacOf[s]] # None /\ Await(p, "shape", MacOf[s], s)
           /\ UNCHANGED enforced
        \/ /\ enforced[MacOf[s]] # None
           /\ SpeedOf[enforced[MacOf[s]]] = SpeedOf[s]
           /\ enforced' = [enforced EXCEPT ![MacOf[s]] = s]
           /\ poll' = [poll EXCEPT ![p] = [poll[p] EXCEPT !.list = poll[p].list \ {s}]]
           /\ UNCHANGED thread
  BY Zenon DEF AllowNext, SameSpeed
<1>4. s \in Sessions /\ MacOf[s] \in Macs
  BY <1>2
<1>5. /\ Await(p, "allow", MacOf[s], s) => Starts(p, "allow", MacOf[s], s)
      /\ Await(p, "shape", MacOf[s], s) => Starts(p, "shape", MacOf[s], s)
  BY <1>4 DEF Starts
<1>6. /\ poll[p].block = {}
      /\ UNCHANGED <<phase, licensed, router, cache, age, stage, restarts>>
  BY DEF AllowNext
<1> QED
  BY <1>1, <1>3, <1>5, <1>6

LEMMA NextTypes ==
  ASSUME TypeInv, NEW p \in Polls, BlockNext(p) \/ AllowNext(p)
  PROVE  TypeInv'
<1>0. /\ cache \in SUBSET Sessions /\ stage \in Stages /\ RouterOK
      /\ enforced \in [Macs -> Sessions \cup {None}] /\ age \in {"never", "fresh", "stale"}
  BY DEF TypeInv, TypeOK, Stages, RouterOK
<1>1. ASSUME NEW op \in {"allow", "shape", "block"}, NEW m \in Macs, NEW s \in Sessions \cup {None},
             Starts(p, op, m, s), poll[p].pc = "sync",
             UNCHANGED <<phase, licensed, router, enforced, cache, age, stage, restarts>>
      PROVE  TypeInv'
  <2>1. PICK new \in PollStates :
          poll' = [poll EXCEPT ![p] = new] /\ new.pc = "sync" /\ thread' = None
    <3>1. Awaits(p, op, m, s)
      BY <1>1, AwaitFacts
    <3> QED
      BY <3>1 DEF Awaits
  <2> QED
    BY <1>0, <1>1, <2>1, PollTypes
<1>2. CASE BlockNext(p)
  <2>1. poll[p].pc = "sync" /\ poll[p].block \subseteq Macs
    BY <1>2, PollFacts, NoneFacts DEF BlockNext, TypeInv, TypeOK
  <2>2. PICK m \in poll[p].block : Starts(p, "block", m, None)
    BY <1>2, <2>1 DEF BlockNext, Starts
  <2> QED
    BY <1>1, <1>2, <2>1, <2>2 DEF BlockNext
<1>3. CASE AllowNext(p)
  <2>1. PICK s \in poll[p].list :
          \/ Starts(p, "allow", MacOf[s], s) /\ UNCHANGED enforced
          \/ Starts(p, "shape", MacOf[s], s) /\ UNCHANGED enforced
          \/ /\ enforced' = [enforced EXCEPT ![MacOf[s]] = s]
             /\ poll' = [poll EXCEPT ![p] = [poll[p] EXCEPT !.list = poll[p].list \ {s}]]
             /\ UNCHANGED thread
    BY <1>3, AllowKinds
  <2>2. /\ thread = p /\ poll[p].pc = "sync" /\ poll[p].call = NoCall
        /\ UNCHANGED <<phase, licensed, router, cache, age, stage, restarts>>
    BY <1>3, AllowKinds
  <2>3. ASSUME enforced' = [enforced EXCEPT ![MacOf[s]] = s],
               poll' = [poll EXCEPT ![p] = [poll[p] EXCEPT !.list = poll[p].list \ {s}]],
               UNCHANGED thread
        PROVE  TypeInv'
    <3> DEFINE new == [poll[p] EXCEPT !.list = poll[p].list \ {s}]
    <3>1. poll[p] \in PollStates /\ poll[p].list \subseteq Sessions
      BY PollFacts
    <3>2. new \in PollStates /\ new.pc = "sync" /\ new.call = NoCall
      BY <2>2, <3>1 DEF PollStates
    <3>3. poll' = [poll EXCEPT ![p] = new]
      BY <2>3
    <3>4. enforced' \in [Macs -> Sessions \cup {None}]
      BY <1>0, <2>3, <3>1
    <3> HIDE DEF new
    <3> QED
      BY <1>0, <2>2, <2>3, <3>2, <3>3, <3>4, PollTypes
  <2>4. s \in Sessions /\ MacOf[s] \in Macs
    BY PollFacts, MapFacts
  <2> QED
    BY <1>1, <2>1, <2>2, <2>3, <2>4
<1> QED
  BY <1>2, <1>3

\* What a script that does all its work makes of the speeds.
LEMMA ShapingFacts ==
  ASSUME RouterOK, NEW c \in Calls, c # NoCall, NEW r \in Shaping(c)
  PROVE  /\ r \in [Macs -> Speeds \cup {0}]
         /\ \A m \in Macs : m # c.mac => r[m] = rate[m]
         /\ c.op = "block" => r = [rate EXCEPT ![c.mac] = 0] /\ r[c.mac] = 0
         /\ c.op # "block" =>
              \/ r = [rate EXCEPT ![c.mac] = SpeedOf[c.session]] /\ r[c.mac] = SpeedOf[c.session]
              \/ r = rate /\ c.op = "shape" /\ rate[c.mac] = 0
<1>1. /\ c.op \in {"allow", "shape", "block"} /\ c.mac \in Macs
      /\ c.op # "block" => SpeedOf[c.session] \in Speeds
  BY CallFacts, MapFacts
<1>2. rate \in [Macs -> Speeds \cup {0}]
  BY DEF RouterOK
<1>3. /\ c.op = "block" => r = [rate EXCEPT ![c.mac] = 0]
      /\ c.op # "block" => \/ r = [rate EXCEPT ![c.mac] = SpeedOf[c.session]]
                           \/ r = rate /\ c.op = "shape" /\ rate[c.mac] = 0
  BY DEF Shaping
<1> QED
  BY <1>1, <1>2, <1>3

\* The three ends of a script: all its work and no error, a refusal that is passed on, or a
\* rule that is spoiled from then on.
Ends(c, state) ==
  \/ /\ state = "ok" /\ open' = Accepting(c) /\ rate' \in Shaping(c)
     /\ spoiled' = IF c.op = "shape" THEN spoiled ELSE spoiled \ {c.mac}
  \/ state = "failed" /\ FailFast /\ UNCHANGED <<open, rate, spoiled>>
  \/ spoiled' = spoiled \cup {c.mac}

LEMMA ScriptFacts ==
  ASSUME TypeInv, NEW p \in Polls, RunScript(p)
  PROVE  LET c == poll[p].call IN
         /\ c \in Calls /\ c # NoCall /\ c.state = "running" /\ poll[p].pc = "sync"
         /\ c.mac \in Macs /\ c.op \in {"allow", "shape", "block"}
         /\ c.op # "block" => c.session \in Sessions
         /\ c.op = "block" => c.session = None
         /\ UNCHANGED <<phase, licensed, enforced, cache, age, thread, stage, restarts>>
         /\ open' = open \/ open' = Accepting(c)
         /\ rate' = rate \/ rate' \in Shaping(c)
         /\ \E d \in Calls :
              /\ d # NoCall /\ d.op = c.op /\ d.mac = c.mac /\ d.session = c.session
              /\ d.state \in {"ok", "failed"}
              /\ poll' = [poll EXCEPT ![p] = [poll[p] EXCEPT !.call = d]]
              /\ Ends(c, d.state)
<1> DEFINE c == poll[p].call
<1>1. PICK outcome \in Outcomes : Script(p, outcome)
  BY DEF RunScript
<1>2. /\ c.state = "running" /\ spoiled' = Spoiled(c, outcome)
      /\ poll' = [poll EXCEPT ![p] = [poll[p] EXCEPT !.call =
                    [c EXCEPT !.state = IF outcome \in Failing THEN "failed" ELSE "ok"]]]
      /\ UNCHANGED <<phase, licensed, enforced, cache, age, thread, stage, restarts>>
  BY <1>1, Zenon DEF Script
<1>3. /\ outcome = "done" => Whole(c)
      /\ outcome = "refused" => UNCHANGED <<open, rate>>
      /\ outcome \in {"silent", "cut"} => Part(c)
  BY <1>1 DEF Script
<1>4. outcome \in {"done", "silent", "refused", "cut"}
  BY AgentAssumption
<1>5. /\ c \in Calls /\ c # NoCall /\ c.mac \in Macs /\ c.op \in {"allow", "shape", "block"}
      /\ c.op # "block" => c.session \in Sessions
      /\ c.op = "block" => c.session = None
      /\ poll[p].pc = "sync"
  BY <1>2, PollFacts, CallFacts
<1>6. PICK state \in {"ok", "failed"} : state = IF outcome \in Failing THEN "failed" ELSE "ok"
  OBVIOUS
<1> DEFINE d == [c EXCEPT !.state = state]
<1>7. d \in Calls /\ d # NoCall /\ d.op = c.op /\ d.mac = c.mac /\ d.session = c.session /\ d.state = state
  BY <1>5, EndedCall
<1>8. poll' = [poll EXCEPT ![p] = [poll[p] EXCEPT !.call = d]]
  BY <1>2, <1>6, Zenon
<1> HIDE DEF d
<1>9. open' = open \/ open' = Accepting(c)
  BY <1>3, <1>4 DEF Whole, Part
<1>10. rate' = rate \/ rate' \in Shaping(c)
  BY <1>3, <1>4 DEF Whole, Part
<1>11. Ends(c, state)
  <2>1. CASE outcome = "done"
    BY <1>2, <1>3, <1>6, <2>1 DEF Ends, Whole, Spoiled, Failing
  <2>2. CASE outcome = "refused"
    BY <1>2, <1>3, <1>6, <2>2 DEF Ends, Spoiled, Failing
  <2>3. CASE outcome \in {"silent", "cut"}
    BY <1>2, <2>3 DEF Ends, Spoiled
  <2> QED
    BY <1>4, <2>1, <2>2, <2>3
<1> QED
  BY <1>2, <1>5, <1>6, <1>7, <1>8, <1>9, <1>10, <1>11

LEMMA ScriptTypes ==
  ASSUME TypeInv, NEW p \in Polls, RunScript(p)
  PROVE  TypeInv'
<1> DEFINE c == poll[p].call
<1>0. /\ cache \in SUBSET Sessions /\ stage \in Stages /\ RouterOK
      /\ enforced \in [Macs -> Sessions \cup {None}] /\ age \in {"never", "fresh", "stale"}
      /\ thread # None => poll[thread].call = NoCall
  BY DEF TypeInv, TypeOK, Stages, RouterOK
<1>1. /\ c \in Calls /\ c # NoCall /\ c.mac \in Macs /\ c.op \in {"allow", "shape", "block"}
      /\ poll[p].pc = "sync"
      /\ UNCHANGED <<phase, licensed, enforced, cache, age, thread, stage, restarts>>
      /\ open' = open \/ open' = Accepting(c)
      /\ rate' = rate \/ rate' \in Shaping(c)
  BY ScriptFacts
<1>2. PICK d \in Calls : /\ d # NoCall /\ poll' = [poll EXCEPT ![p] = [poll[p] EXCEPT !.call = d]]
                         /\ Ends(c, d.state)
  BY ScriptFacts
<1>3. thread # p
  BY <1>0, <1>1, NoneFacts
<1> DEFINE new == [poll[p] EXCEPT !.call = d]
<1>4. new \in PollStates /\ new.pc = "sync" /\ poll' = [poll EXCEPT ![p] = new]
  BY <1>1, <1>2, PollFacts DEF PollStates
<1> HIDE DEF new
<1>5. RouterOK'
  <2>1. open' \subseteq Macs
    BY <1>0, <1>1 DEF RouterOK, Accepting
  <2>2. rate' \in [Macs -> Speeds \cup {0}]
    BY <1>0, <1>1, ShapingFacts DEF RouterOK
  <2>3. spoiled' \subseteq Macs
    BY <1>0, <1>1, <1>2 DEF RouterOK, Ends
  <2> QED
    BY <2>1, <2>2, <2>3 DEF RouterOK
<1> QED
  BY <1>0, <1>1, <1>3, <1>4, <1>5, PollTypes

\* sync after the await of a script.
LEMMA ReturnedFacts ==
  ASSUME TypeInv, NEW p \in Polls, poll[p].call # NoCall, Returned(p)
  PROVE  /\ thread' = p /\ UNCHANGED <<cache, age, stage, restarts>>
         /\ enforced' = Noted(poll[p].call, poll[p].call.op = "shape" /\ poll[p].orphan)
         /\ enforced' \in [Macs -> Sessions \cup {None}]
         /\ \A q \in Polls :
              /\ poll'[q] \in PollStates
              /\ q # p => /\ poll'[q].pc = poll[q].pc /\ poll'[q].call = poll[q].call
                          /\ poll'[q].list = poll[q].list
         /\ poll' \in [Polls -> PollStates]
         /\ poll'[p].pc = "sync" /\ poll'[p].call = NoCall
         /\ poll'[p].block = IF poll[p].call.op = "block" THEN poll[p].block \ {poll[p].call.mac}
                             ELSE poll[p].block
         /\ poll'[p].list = poll[p].list \ {poll[p].call.session}
<1> DEFINE c == poll[p].call
<1>0. /\ \A q \in Polls : poll[q] \in PollStates /\ poll[q].orphan \in BOOLEAN
      /\ c \in Calls /\ c.session \in Sessions \cup {None} /\ c.mac \in Macs
      /\ enforced \in [Macs -> Sessions \cup {None}] /\ poll \in [Polls -> PollStates]
  BY PollFacts, CallFacts DEF TypeInv, TypeOK
<1>1. /\ thread' = p /\ UNCHANGED <<cache, age, stage, restarts>>
      /\ enforced' = Noted(c, c.op = "shape" /\ poll[p].orphan)
  BY DEF Returned
<1>2. enforced' \in [Macs -> Sessions \cup {None}]
  BY <1>0, <1>1 DEF Noted
<1> DEFINE after == IF c.op = "shape" THEN poll ELSE [q \in Polls |-> Orphaned(q, c.mac)]
           new == [poll[p] EXCEPT !.call = NoCall,
                                  !.block = poll[p].block \ {m \in {c.mac} : c.op = "block"},
                                  !.list = poll[p].list \ {c.session}]
<1>3. poll' = [after EXCEPT ![p] = new]
  BY DEF Returned
<1>4. NoCall \in Calls /\ poll[p].pc = "sync"
  BY PollFacts DEF Calls
<1>5. /\ new \in PollStates /\ new.pc = "sync" /\ new.call = NoCall
      /\ new.block = poll[p].block \ {m \in {c.mac} : c.op = "block"}
      /\ new.list = poll[p].list \ {c.session}
  BY <1>0, <1>4 DEF PollStates
<1>6. \A q \in Polls : /\ Orphaned(q, c.mac) \in PollStates
                       /\ Orphaned(q, c.mac).pc = poll[q].pc
                       /\ Orphaned(q, c.mac).call = poll[q].call
                       /\ Orphaned(q, c.mac).list = poll[q].list
  <2>1. SUFFICES ASSUME NEW q \in Polls
                 PROVE  /\ Orphaned(q, c.mac) \in PollStates
                        /\ Orphaned(q, c.mac).pc = poll[q].pc
                        /\ Orphaned(q, c.mac).call = poll[q].call
                        /\ Orphaned(q, c.mac).list = poll[q].list
    OBVIOUS
  <2>2. PICK b \in BOOLEAN : b = (poll[q].orphan \/ poll[q].call.mac = c.mac)
    OBVIOUS
  <2>3. Orphaned(q, c.mac) = [poll[q] EXCEPT !.orphan = b]
    BY <2>2, Zenon DEF Orphaned
  <2> QED
    BY <1>0, <2>3 DEF PollStates
<1>7. after \in [Polls -> PollStates]
      /\ \A q \in Polls : /\ after[q].pc = poll[q].pc /\ after[q].call = poll[q].call
                          /\ after[q].list = poll[q].list
  BY <1>0, <1>6
<1> HIDE DEF after, new
<1>8. /\ poll' \in [Polls -> PollStates] /\ poll'[p] = new
      /\ \A q \in Polls : q # p => poll'[q] = after[q]
  BY <1>3, <1>5, <1>7
<1>9. poll[p].block \ {m \in {c.mac} : c.op = "block"} =
        IF c.op = "block" THEN poll[p].block \ {c.mac} ELSE poll[p].block
  OBVIOUS
<1> QED
  BY <1>1, <1>2, <1>5, <1>7, <1>8, <1>9

LEMMA ResumeTypes ==
  ASSUME TypeInv, NEW p \in Polls, Resume(p)
  PROVE  TypeInv'
<1>0. /\ TypeOK /\ CallsInSync /\ poll[p].call.state \in {"ok", "failed"}
      /\ UNCHANGED <<phase, licensed, router>>
  BY DEF TypeInv, Resume
<1>1. poll[p].call # NoCall
  BY <1>0, PollFacts, CallFacts
<1>2. CASE Thrown(p)
  <2>1. CASE stage # "starting"
    <3>1. /\ poll' = [poll EXCEPT ![p] = Idle] /\ thread' = None
          /\ UNCHANGED <<enforced, cache, age, stage, restarts>>
      BY <1>2, <2>1 DEF Thrown
    <3> QED
      BY <1>0, <3>1, IdleFacts, PollTypes DEF TypeOK, Stages
  <2>2. CASE stage = "starting"
    <3>1. FreshProcess
      BY <1>2, <2>2 DEF Thrown
    <3> QED
      BY <1>0, <3>1, FreshTypes DEF TypeOK
  <2> QED
    BY <2>1, <2>2
<1>3. CASE Caught(p) /\ UNCHANGED <<enforced, cache, age, restarts>>
  BY <1>0, <1>3, CaughtTypes
<1>4. CASE Returned(p)
  <2>1. CallsInSync'
    BY <1>0, <1>1, <1>4, ReturnedFacts DEF CallsInSync
  <2>2. TypeOK'
    BY <1>0, <1>1, <1>4, ReturnedFacts DEF TypeOK, router
  <2> QED
    BY <2>1, <2>2 DEF TypeInv
<1> QED
  BY <1>2, <1>3, <1>4 DEF Resume

LEMMA TypeInit == Init => TypeInv
<1> SUFFICES ASSUME Init PROVE TypeInv
  OBVIOUS
<1>1. poll \in [Polls -> PollStates] /\ \A p \in Polls : poll[p].call = NoCall
  BY IdleFacts DEF Init
<1>2. 0 \in 0..MaxRestarts
  BY AgentAssumption
<1> QED
  BY <1>1, <1>2 DEF Init, Cloud!Init, TypeInv, TypeOK, CallsInSync

\* The process ends, at once or when teardown.sh has.
LEMMA ShutdownTypes ==
  ASSUME TypeInv, Shutdown \/ Flush \/ Delete
  PROVE  /\ TypeInv' /\ stage' \in Closing
         /\ UNCHANGED <<phase, enforced, cache, poll, restarts, spoiled>>
         /\ open' \in {open, {}} /\ rate' \in {rate, [m \in Macs |-> 0]}
<1>1. /\ stage' \in Closing /\ open' \in {open, {}} /\ rate' \in {rate, [m \in Macs |-> 0]}
      /\ UNCHANGED <<phase, licensed, spoiled, enforced, cache, age, poll, thread, restarts>>
  BY DEF Shutdown, Flush, Delete, Closing, router
<1> QED
  BY <1>1 DEF TypeInv, TypeOK, CallsInSync

LEMMA TypeStep == TypeInv /\ [Next]_vars => TypeInv'
<1> SUFFICES ASSUME TypeInv, [Next]_vars PROVE TypeInv'
  OBVIOUS
<1>1. CASE Crash \/ Exit
  BY <1>1, FreshTypes DEF Crash, Exit, TypeInv, TypeOK
<1>2. CASE UNCHANGED vars
  BY <1>2 DEF vars, router, TypeInv, TypeOK, CallsInSync
<1> QED
  BY <1>1, <1>2, CloudTypes, AskTypes, NextTypes, ScriptTypes, ResumeTypes, ShutdownTypes
  DEF Next, CloudActs

LEMMA TypeInvariant == Spec => []TypeInv
  BY TypeInit, TypeStep, PTL DEF Spec

\* Types hold for any number of sessions, devices, overlapping polls, failing scripts and
\* ends of the process (session-manager.ts:53-103).
THEOREM AgentTypeCorrect == Spec => []TypeOK
<1>1. TypeInv => TypeOK
  BY DEF TypeInv
<1> QED
  BY <1>1, TypeInvariant, PTL

-----------------------------------------------------------------------------
(* The agent whose polls do not overlap.                                    *)

\* One poll after the other.
LoneAgent(p) == Polls = {p}

\* The rule a device has for a session, or for none.
RateOf(known) == IF known = None THEN 0 ELSE SpeedOf[known]
RuleIs(m, known) == (m \in open <=> known # None) /\ rate[m] = RateOf(known)

\* A rule that can be relied on: no script spoiled it and nobody takes it down.
Sound(m) == m \notin spoiled /\ stage \notin Closing

\* The rule of m is what the map says: of a MAC that is not in the map only the first
\* process knows that it has none.
AsNoted(m) == Sound(m) /\ (enforced[m] # None \/ restarts = 0) => RuleIs(m, enforced[m])

\* The router has the rules of the enforced map, but for the MAC of the script under
\* way, which has the old rule until the script has done its work and then the new one.
RouterIs(p) ==
  LET c == poll[p].call IN
  /\ \A m \in Macs : c.mac # m => AsNoted(m)
  /\ c # NoCall =>
       /\ ~poll[p].orphan
       /\ c.state # "ok" => AsNoted(c.mac)
       /\ c.state = "ok" /\ Sound(c.mac) => RuleIs(c.mac, c.session)
       /\ c.state = "failed" /\ ~FailFast => c.mac \in spoiled
       /\ c.op = "block" => c.mac \in poll[p].block
       /\ c.op # "block" =>
            poll[p].block = {} /\ c.session \in poll[p].list /\ MacOf[c.session] = c.mac
       /\ c.op = "shape" => enforced[c.mac] # None

\* Of what the agent has cached, a sync has still to handle the list and the block; the
\* rest is enforced, and nothing else is.
SyncIs(p) ==
  poll[p].pc = "sync" =>
    /\ poll[p].list \subseteq cache
    /\ \A s \in cache :
         \/ s \in poll[p].list \/ phase[s] = "due"
         \/ enforced[MacOf[s]] # None /\ MacOf[s] \notin poll[p].block
    /\ \A m \in Macs : enforced[m] # None =>
         \/ m \in poll[p].block
         \/ \E s \in cache : MacOf[s] = m /\ SpeedOf[s] = SpeedOf[enforced[m]]
         \/ \E s \in poll[p].list : MacOf[s] = m

LoneInv(p) == TypeInv /\ RouterIs(p) /\ SyncIs(p)

\* Unless a script has done its work and sync has not noted it yet, every MAC has the
\* rule the map says.
LEMMA AtRest ==
  ASSUME NEW p, LoneAgent(p), LoneInv(p), poll[p].call.state # "ok", NEW m \in Macs
  PROVE  AsNoted(m)
<1>1. CASE poll[p].call = NoCall
  BY <1>1, NoneFacts DEF LoneInv, RouterIs, NoCall
<1>2. CASE poll[p].call # NoCall
  BY <1>2 DEF LoneInv, RouterIs
<1> QED
  BY <1>1, <1>2

LEMMA NoCallRests == NoCall.state # "ok" /\ NoCall.mac = None
  BY DEF NoCall

\* Steps that leave the poll alone.
LEMMA LoneQuiet ==
  ASSUME NEW p, LoneAgent(p), LoneInv(p), TypeInv', UNCHANGED <<router, enforced, cache, poll, restarts>>,
         stage' = stage, \A s \in Sessions : phase[s] = "due" => phase'[s] = "due"
  PROVE  LoneInv(p)'
<1>1. cache \subseteq Sessions
  BY DEF LoneInv, TypeInv, TypeOK
<1>2. RouterIs(p)'
  BY DEF LoneInv, RouterIs, AsNoted, RuleIs, Sound, RateOf, router
<1>3. SyncIs(p)'
  BY <1>1 DEF LoneInv, SyncIs
<1> QED
  BY <1>2, <1>3 DEF LoneInv

\* A poll that asks, or is over, and has no script.
LEMMA LoneOutside ==
  ASSUME NEW p, LoneAgent(p), LoneInv(p), TypeInv', UNCHANGED <<router, enforced, restarts>>,
         stage \in Closing => stage' \in Closing,
         poll[p].call.state # "ok", poll'[p].call = NoCall, poll'[p].pc # "sync"
  PROVE  LoneInv(p)'
<1>1. \A m \in Macs : AsNoted(m)'
  BY AtRest DEF AsNoted, RuleIs, Sound, RateOf, router
<1>2. RouterIs(p)'
  BY <1>1 DEF RouterIs, NoCall
<1> QED
  BY <1>2 DEF LoneInv, SyncIs

\* A process that starts knows no MAC, and is not the first.
LEMMA LoneFresh ==
  ASSUME NEW p, LoneAgent(p), LoneInv(p), TypeInv', FreshProcess
  PROVE  LoneInv(p)'
<1>1. /\ enforced' = [m \in Macs |-> None] /\ restarts' # 0 /\ poll'[p] = Idle
  BY DEF FreshProcess, LoneAgent, LoneInv, TypeInv, TypeOK
<1>2. RouterIs(p)' /\ SyncIs(p)'
  BY <1>1, IdleFacts DEF RouterIs, AsNoted, SyncIs, NoCall
<1> QED
  BY <1>2 DEF LoneInv

\* A sync starts on a list, which is then the cache.
LEMMA LoneSyncs ==
  ASSUME NEW p, LoneAgent(p), LoneInv(p), TypeInv', UNCHANGED <<phase, router, enforced, restarts>>,
         stage \in Closing => stage' \in Closing, poll[p].call.state # "ok", NEW list \in SUBSET Sessions, NEW offline \in BOOLEAN,
         poll'[p] = Syncing(p, list, offline), cache' = list
  PROVE  LoneInv(p)'
<1>0. TypeInv /\ p \in Polls
  BY DEF LoneInv, LoneAgent
<1>a. Active(list) = {s \in list : phase[s] # "due"}
  BY DEF Active
<1>b. Unlisted(list) = {m \in Macs : enforced[m] # None /\ \A s \in Active(list) : MacOf[s] # m}
  BY DEF Unlisted
<1>c. /\ Syncing(p, list, offline).call = NoCall
      /\ Syncing(p, list, offline).list = Active(list)
      /\ Syncing(p, list, offline).block = Unlisted(list)
  BY <1>0, SyncingFacts
<1>d. poll'[p].call = NoCall /\ poll'[p].list = Active(list) /\ poll'[p].block = Unlisted(list)
  BY <1>c
<1>1. /\ poll'[p].call = NoCall /\ poll'[p].list = Active(list) /\ poll'[p].block = Unlisted(list)
      /\ Active(list) = {s \in list : phase[s] # "due"}
      /\ Unlisted(list) = {m \in Macs : enforced[m] # None /\ \A s \in Active(list) : MacOf[s] # m}
  BY <1>a, <1>b, <1>d
<1>2. RouterIs(p)'
  <2>1. \A m \in Macs : AsNoted(m)'
    BY AtRest DEF AsNoted, RuleIs, Sound, RateOf, router
  <2> QED
    BY <1>1, <2>1 DEF RouterIs, NoCall
<1>3. SyncIs(p)'
  BY <1>1 DEF SyncIs
<1> QED
  BY <1>2, <1>3 DEF LoneInv

\* The cloud, requests, and the start and end of a sync.
LEMMA LoneAsks ==
  ASSUME NEW p, LoneAgent(p), LoneInv(p), TypeInv',
         PollBegin(p) \/ CloudAnswers(p) \/ CloudUnreachable(p) \/ SyncBegin(p) \/ SyncEnd(p)
  PROVE  LoneInv(p)'
<1>0. /\ TypeInv /\ p \in Polls /\ poll \in [Polls -> PollStates] /\ cache \in SUBSET Sessions
      /\ poll[p].call # NoCall => poll[p].pc = "sync"
  BY PollFacts DEF LoneInv, LoneAgent, TypeInv, TypeOK
<1>1. CASE PollBegin(p)
  <2>1. poll[p].call = NoCall /\ poll' = [poll EXCEPT ![p] = [poll[p] EXCEPT !.pc = "asking"]]
    BY <1>0, <1>1 DEF PollBegin
  <2>2. poll'[p].call = NoCall /\ poll'[p].pc = "asking"
    BY <1>0, <2>1 DEF PollStates
  <2> QED
    BY <1>1, <2>1, <2>2, NoCallRests, LoneOutside DEF PollBegin
<1>2. CASE CloudAnswers(p)
  <2>1. /\ poll[p].call = NoCall
        /\ poll' = [poll EXCEPT ![p] = [poll[p] EXCEPT !.pc = "answered", !.list = Offered]]
    BY <1>0, <1>2 DEF CloudAnswers
  <2>2. poll'[p].call = NoCall /\ poll'[p].pc = "answered"
    BY <1>0, <2>1 DEF PollStates
  <2> QED
    BY <1>2, <2>1, <2>2, NoCallRests, LoneOutside DEF CloudAnswers
<1>3. CASE CloudUnreachable(p)
  <2>1. poll[p].call = NoCall /\ UNCHANGED <<phase, router, enforced, cache, restarts>>
    BY <1>0, <1>3 DEF CloudUnreachable
  <2>2. CASE CacheUsable
    <3>1. poll'[p] = Syncing(p, cache, TRUE) /\ stage' = stage
      BY <1>0, <1>3, <2>2 DEF CloudUnreachable, Caught
    <3> QED
      BY <1>0, <2>1, <3>1, NoCallRests, LoneSyncs
  <2>3. CASE ~CacheUsable
    <3>1. poll'[p] = Idle /\ (stage \in Closing => stage' \in Closing)
      BY <1>0, <1>3, <2>3, PollEndsFacts DEF CloudUnreachable, Caught
    <3> QED
      BY <2>1, <3>1, IdleFacts, NoCallRests, LoneOutside
  <2> QED
    BY <2>2, <2>3
<1>4. CASE SyncBegin(p)
  <2>1. /\ poll[p].call = NoCall /\ poll'[p] = Syncing(p, poll[p].list, FALSE)
        /\ cache' = poll[p].list /\ UNCHANGED <<phase, router, enforced, stage, restarts>>
    BY <1>0, <1>4 DEF SyncBegin
  <2>2. poll[p].list \in SUBSET Sessions
    BY <1>0, PollFacts
  <2> QED
    BY <2>1, <2>2, NoCallRests, LoneSyncs
<1>5. CASE SyncEnd(p)
  <2>1. poll[p].call = NoCall
    BY <1>0, <1>5, NoneFacts DEF SyncEnd, TypeInv, TypeOK
  <2>2. /\ poll'[p] = Idle /\ (stage \in Closing => stage' \in Closing)
        /\ UNCHANGED <<router, enforced, restarts>>
    BY <1>0, <1>5, PollEndsFacts DEF SyncEnd
  <2> QED
    BY <2>1, <2>2, IdleFacts, NoCallRests, LoneOutside
<1> QED
  BY <1>1, <1>2, <1>3, <1>4, <1>5

\* A script is started: nothing has changed yet.
LEMMA LoneStarts ==
  ASSUME NEW p, LoneAgent(p), LoneInv(p), TypeInv', NEW op \in {"allow", "shape", "block"},
         NEW m \in Macs, NEW s \in Sessions \cup {None}, Awaits(p, op, m, s),
         poll[p].call = NoCall, poll[p].pc = "sync",
         UNCHANGED <<phase, router, enforced, cache, stage, restarts>>,
         op = "block" => m \in poll[p].block,
         op # "block" => poll[p].block = {} /\ s \in poll[p].list /\ MacOf[s] = m,
         op = "shape" => enforced[m] # None
  PROVE  LoneInv(p)'
<1>0. p \in Polls /\ poll \in [Polls -> PollStates]
  BY DEF LoneAgent, LoneInv, TypeInv, TypeOK
<1>1. /\ poll'[p].call.op = op /\ poll'[p].call.mac = m /\ poll'[p].call.session = s
      /\ poll'[p].call.state = "running" /\ poll'[p].orphan = FALSE
      /\ poll'[p].list = poll[p].list /\ poll'[p].block = poll[p].block
      /\ poll'[p].pc = "sync"
  BY <1>0 DEF Awaits
<1>2. RouterIs(p)'
  <2>1. \A n \in Macs : AsNoted(n)'
    BY NoCallRests, AtRest DEF AsNoted, RuleIs, Sound, RateOf, router
  <2>2. poll'[p].call.mac \in Macs
    BY <1>1
  <2> QED
    BY <1>1, <2>1, <2>2 DEF RouterIs
<1>3. SyncIs(p)'
  BY <1>1 DEF LoneInv, SyncIs
<1> QED
  BY <1>2, <1>3 DEF LoneInv

LEMMA LoneNext ==
  ASSUME NEW p, LoneAgent(p), LoneInv(p), TypeInv', BlockNext(p) \/ AllowNext(p)
  PROVE  LoneInv(p)'
<1>0. /\ TypeInv /\ p \in Polls /\ poll[p] \in PollStates /\ poll \in [Polls -> PollStates]
      /\ poll[p].list \subseteq Sessions /\ poll[p].block \subseteq Macs
      /\ enforced \in [Macs -> Sessions \cup {None}]
  BY PollFacts DEF LoneInv, LoneAgent, TypeInv, TypeOK
<1>1. poll[p].call = NoCall /\ poll[p].pc = "sync"
  BY <1>0, NoneFacts DEF BlockNext, AllowNext, TypeInv, TypeOK
<1>2. CASE BlockNext(p)
  <2>1. PICK m \in poll[p].block : Starts(p, "block", m, None)
    BY <1>0, <1>2 DEF BlockNext, Starts
  <2>2. Awaits(p, "block", m, None)
    BY <1>0, <1>1, <2>1, AwaitFacts
  <2> QED
    BY <1>0, <1>1, <1>2, <2>2, LoneStarts DEF BlockNext
<1>3. CASE AllowNext(p)
  <2>1. poll[p].block = {} /\ UNCHANGED <<phase, router, cache, stage, restarts>>
    BY <1>0, <1>3, AllowKinds
  <2>2. PICK s \in poll[p].list :
          \/ /\ enforced[MacOf[s]] = None /\ Starts(p, "allow", MacOf[s], s)
             /\ UNCHANGED enforced
          \/ /\ enforced[MacOf[s]] # None /\ Starts(p, "shape", MacOf[s], s)
             /\ UNCHANGED enforced
          \/ /\ enforced[MacOf[s]] # None
             /\ SpeedOf[enforced[MacOf[s]]] = SpeedOf[s]
             /\ enforced' = [enforced EXCEPT ![MacOf[s]] = s]
             /\ poll' = [poll EXCEPT ![p] = [poll[p] EXCEPT !.list = poll[p].list \ {s}]]
             /\ UNCHANGED thread
    BY <1>0, <1>3, AllowKinds
  <2>3. s \in Sessions /\ MacOf[s] \in Macs
    BY <1>0, MapFacts
  <2>4. CASE Starts(p, "allow", MacOf[s], s) /\ UNCHANGED enforced
    <3>1. Awaits(p, "allow", MacOf[s], s)
      BY <1>0, <1>1, <2>3, <2>4, AwaitFacts
    <3> QED
      BY <1>1, <2>1, <2>3, <2>4, <3>1, LoneStarts
  <2>5. CASE enforced[MacOf[s]] # None /\ Starts(p, "shape", MacOf[s], s) /\ UNCHANGED enforced
    <3>1. Awaits(p, "shape", MacOf[s], s)
      BY <1>0, <1>1, <2>3, <2>5, AwaitFacts
    <3> QED
      BY <1>1, <2>1, <2>3, <2>5, <3>1, LoneStarts
  <2>6. CASE /\ enforced[MacOf[s]] # None
             /\ SpeedOf[enforced[MacOf[s]]] = SpeedOf[s]
             /\ enforced' = [enforced EXCEPT ![MacOf[s]] = s]
             /\ poll' = [poll EXCEPT ![p] = [poll[p] EXCEPT !.list = poll[p].list \ {s}]]
    <3>1. /\ poll'[p].list = poll[p].list \ {s} /\ poll'[p].block = poll[p].block
          /\ poll'[p].call = poll[p].call /\ poll'[p].pc = "sync"
      BY <1>0, <1>1, <2>6 DEF PollStates
    <3>2. \A m \in Macs : RateOf(enforced'[m]) = RateOf(enforced[m])
                          /\ (enforced'[m] # None <=> enforced[m] # None)
      BY <1>0, <2>3, <2>6, NoneFacts DEF RateOf
    <3>3. RouterIs(p)'
      <4>1. \A m \in Macs : AsNoted(m)
        BY <1>1, NoCallRests, AtRest
      <4>2. \A m \in Macs : AsNoted(m)'
        BY <2>1, <3>2, <4>1 DEF AsNoted, RuleIs, Sound, router
      <4> QED
        BY <1>1, <3>1, <4>2 DEF RouterIs, NoCall
    <3>4. SyncIs(p)'
      <4>1. s \in cache /\ cache' = cache /\ phase' = phase
        BY <1>1, <2>1, <2>2 DEF LoneInv, SyncIs
      <4>2. poll'[p].list \subseteq cache'
        BY <1>1, <3>1, <4>1 DEF LoneInv, SyncIs
      <4>3. \A t \in cache :
              \/ t \in poll'[p].list \/ phase[t] = "due"
              \/ enforced'[MacOf[t]] # None /\ MacOf[t] \notin poll'[p].block
        <5>1. \A t \in cache : t \in Sessions /\ MacOf[t] \in Macs
          BY <1>0, MapFacts DEF TypeInv, TypeOK
        <5> QED
          BY <1>1, <2>1, <2>6, <3>1, <3>2, <5>1 DEF LoneInv, SyncIs
      <4>4. enforced'[MacOf[s]] = s
        BY <1>0, <2>3, <2>6
      <4>5. \A m \in Macs : m # MacOf[s] => enforced'[m] = enforced[m]
        BY <1>0, <2>6
      <4>6. \A m \in Macs : enforced'[m] # None =>
              \/ m \in poll'[p].block
              \/ \E t \in cache : MacOf[t] = m /\ SpeedOf[t] = SpeedOf[enforced'[m]]
              \/ \E t \in poll'[p].list : MacOf[t] = m
        <5>1. SUFFICES ASSUME NEW m \in Macs, enforced'[m] # None, m # MacOf[s]
                       PROVE  \/ m \in poll'[p].block
                              \/ \E t \in cache : MacOf[t] = m /\ SpeedOf[t] = SpeedOf[enforced'[m]]
                              \/ \E t \in poll'[p].list : MacOf[t] = m
          BY <4>1, <4>4
        <5> QED
          BY <1>1, <3>1, <4>5, <5>1 DEF LoneInv, SyncIs
      <4> QED
        BY <4>1, <4>2, <4>3, <4>6 DEF SyncIs
    <3> QED
      BY <3>3, <3>4 DEF LoneInv
  <2> QED
    BY <2>2, <2>4, <2>5, <2>6
<1> QED
  BY <1>2, <1>3

\* The script does its work, or refuses, or spoils the rule.
LEMMA LoneScript ==
  ASSUME NEW p, LoneAgent(p), LoneInv(p), TypeInv', RunScript(p)
  PROVE  LoneInv(p)'
<1> DEFINE c == poll[p].call
<1>0. /\ TypeInv /\ p \in Polls /\ poll[p] \in PollStates /\ poll \in [Polls -> PollStates]
      /\ RouterOK /\ enforced \in [Macs -> Sessions \cup {None}]
  BY PollFacts DEF LoneInv, LoneAgent, TypeInv, TypeOK, RouterOK
<1>1. /\ c \in Calls /\ c # NoCall /\ c.state = "running" /\ poll[p].pc = "sync"
      /\ c.mac \in Macs /\ c.op \in {"allow", "shape", "block"}
      /\ c.op # "block" => c.session \in Sessions
      /\ c.op = "block" => c.session = None
      /\ UNCHANGED <<phase, enforced, cache, stage, restarts>>
      /\ open' = open \/ open' = Accepting(c)
      /\ rate' = rate \/ rate' \in Shaping(c)
  BY <1>0, ScriptFacts
<1>2. PICK d \in Calls :
        /\ d # NoCall /\ d.op = c.op /\ d.mac = c.mac /\ d.session = c.session
        /\ d.state \in {"ok", "failed"}
        /\ poll' = [poll EXCEPT ![p] = [poll[p] EXCEPT !.call = d]]
        /\ Ends(c, d.state)
  BY <1>0, ScriptFacts
<1>3. /\ poll'[p].call = d /\ poll'[p].orphan = poll[p].orphan /\ poll'[p].list = poll[p].list
      /\ poll'[p].block = poll[p].block /\ poll'[p].pc = poll[p].pc
  BY <1>0, <1>2 DEF PollStates
<1>4. /\ ~poll[p].orphan
      /\ c.op = "block" => c.mac \in poll[p].block
      /\ c.op # "block" =>
           poll[p].block = {} /\ c.session \in poll[p].list /\ MacOf[c.session] = c.mac
      /\ c.op = "shape" => enforced[c.mac] # None
  BY <1>1 DEF LoneInv, RouterIs
<1>a. PICK mac \in Macs : mac = c.mac
  BY <1>1
<1>b. PICK known \in Sessions \cup {None} : known = c.session
  BY <1>1
<1>5. AsNoted(mac)
  BY <1>0, <1>1, <1>a, AtRest
<1>6. \A m \in Macs : c.mac # m =>
        (m \in open' <=> m \in open) /\ rate'[m] = rate[m] /\ (m \in spoiled' <=> m \in spoiled)
  <2>1. \A m \in Macs : c.mac # m => (m \in open' <=> m \in open)
    BY <1>1 DEF Accepting
  <2>2. \A m \in Macs : c.mac # m => rate'[m] = rate[m]
    BY <1>0, <1>1, ShapingFacts
  <2>3. \A m \in Macs : c.mac # m => (m \in spoiled' <=> m \in spoiled)
    BY <1>2 DEF Ends
  <2> QED
    BY <2>1, <2>2, <2>3
<1>7. \A m \in Macs : c.mac # m => AsNoted(m)'
  <2>1. SUFFICES ASSUME NEW m \in Macs, c.mac # m PROVE AsNoted(m)'
    OBVIOUS
  <2>2. AsNoted(m)
    BY <1>1, <2>1 DEF LoneInv, RouterIs
  <2> QED
    BY <1>1, <1>6, <2>1, <2>2 DEF AsNoted, RuleIs, Sound
<1>8. d.state # "ok" => AsNoted(mac)' /\ (~FailFast => mac \in spoiled')
  <2>1. CASE FailFast /\ UNCHANGED <<open, rate, spoiled>>
    BY <1>1, <1>5, <2>1 DEF AsNoted, RuleIs, Sound
  <2>2. CASE mac \in spoiled'
    BY <2>2 DEF AsNoted, Sound
  <2> QED
    BY <1>2, <1>a, <2>1, <2>2 DEF Ends
<1>9. d.state = "ok" /\ Sound(mac)' => RuleIs(mac, known)'
  <2>1. SUFFICES ASSUME d.state = "ok", c.mac \notin spoiled', stage \notin Closing
                 PROVE  RuleIs(mac, known)'
    BY <1>1, <1>a DEF Sound
  <2>2. /\ open' = Accepting(c) /\ rate' \in Shaping(c)
        /\ spoiled' = IF c.op = "shape" THEN spoiled ELSE spoiled \ {c.mac}
    BY <1>2, <2>1 DEF Ends
  <2>3. CASE c.op = "block"
    <3>1. c.mac \notin open' /\ rate'[c.mac] = 0
      BY <1>0, <1>1, <2>2, <2>3, ShapingFacts DEF Accepting
    <3> QED
      BY <1>1, <1>a, <1>b, <2>3, <3>1 DEF RuleIs, RateOf
  <2>4. CASE c.op = "allow"
    <3>1. c.mac \in open' /\ rate'[c.mac] = SpeedOf[c.session]
      BY <1>0, <1>1, <2>2, <2>4, ShapingFacts DEF Accepting
    <3> QED
      BY <1>1, <1>a, <1>b, <2>4, <3>1, NoneFacts DEF RuleIs, RateOf
  <2>5. CASE c.op = "shape"
    <3>1. enforced[c.mac] \in Sessions /\ enforced[c.mac] # None
      BY <1>0, <1>1, <1>4, <2>5
    <3>2. c.mac \in open /\ rate[c.mac] = SpeedOf[enforced[c.mac]]
      BY <1>5, <1>a, <2>1, <2>2, <2>5, <3>1 DEF AsNoted, RuleIs, Sound, RateOf
    <3>3. rate[c.mac] # 0
      BY <3>1, <3>2, MapFacts
    <3>4. rate'[c.mac] = SpeedOf[c.session]
      BY <1>0, <1>1, <2>2, <2>5, <3>3, ShapingFacts
    <3>5. c.mac \in open'
      BY <2>2, <2>5, <3>2 DEF Accepting
    <3> QED
      BY <1>1, <1>a, <1>b, <2>5, <3>4, <3>5, NoneFacts DEF RuleIs, RateOf
  <2> QED
    BY <1>1, <2>3, <2>4, <2>5
<1>10. RouterIs(p)'
  <2>1. c.op = "shape" => enforced'[c.mac] # None
    BY <1>1, <1>4
  <2> QED
    BY <1>1, <1>2, <1>3, <1>4, <1>7, <1>8, <1>9, <1>a, <1>b, <2>1 DEF RouterIs
<1>11. SyncIs(p)'
  BY <1>1, <1>3 DEF LoneInv, SyncIs
<1> QED
  BY <1>10, <1>11 DEF LoneInv

\* The await of a script that did its work returns: the map says what the router does,
\* unless the rule is spoiled.
LEMMA LoneReturns ==
  ASSUME NEW p, LoneAgent(p), LoneInv(p), TypeInv', poll[p].call.state \in {"ok", "failed"},
         ~Throws(poll[p].call), Returned(p), UNCHANGED <<phase, router>>
  PROVE  LoneInv(p)'
<1> DEFINE c == poll[p].call
<1>0. /\ TypeInv /\ p \in Polls /\ c \in Calls /\ c.state \in {"ok", "failed"}
      /\ enforced \in [Macs -> Sessions \cup {None}]
      /\ \A s \in cache : s \in Sessions /\ MacOf[s] \in Macs
  BY PollFacts, MapFacts DEF LoneInv, LoneAgent, TypeInv, TypeOK
<1>1. /\ c # NoCall /\ c.mac \in Macs /\ c.op \in {"allow", "shape", "block"}
      /\ c.op # "block" => c.session \in Sessions
      /\ c.op = "block" => c.session = None
      /\ poll[p].pc = "sync"
  BY <1>0, PollFacts, CallFacts
<1>3. /\ poll'[p].pc = "sync" /\ poll'[p].call = NoCall /\ UNCHANGED <<cache, stage, restarts>>
      /\ poll'[p].block = IF c.op = "block" THEN poll[p].block \ {c.mac} ELSE poll[p].block
      /\ poll'[p].list = poll[p].list \ {c.session}
      /\ enforced' = Noted(c, c.op = "shape" /\ poll[p].orphan)
  BY <1>0, <1>1, ReturnedFacts
<1>4. enforced' = [enforced EXCEPT ![c.mac] = c.session]
  <2>1. ~poll[p].orphan
    BY <1>1 DEF LoneInv, RouterIs
  <2> QED
    BY <1>3, <2>1 DEF Noted
<1>5. \A m \in Macs : enforced'[m] = IF m = c.mac THEN c.session ELSE enforced[m]
  BY <1>0, <1>4
<1>6. RouterIs(p)'
  <2>1. Sound(c.mac) => RuleIs(c.mac, c.session)
    <3>1. c.state = "failed" => ~Sound(c.mac)
      BY <1>1 DEF LoneInv, RouterIs, Throws, Sound
    <3> QED
      BY <1>0, <1>1, <3>1 DEF LoneInv, RouterIs
  <2>2. ASSUME NEW m \in Macs, m = c.mac PROVE AsNoted(m)'
    BY <1>1, <1>3, <1>5, <2>1, <2>2 DEF AsNoted, Sound, RuleIs, RateOf, router
  <2>3. ASSUME NEW m \in Macs, m # c.mac PROVE AsNoted(m)'
    <3>1. AsNoted(m)
      BY <2>3 DEF LoneInv, RouterIs
    <3> QED
      BY <1>3, <1>5, <2>3, <3>1 DEF AsNoted, Sound, RuleIs, RateOf, router
  <2>4. \A m \in Macs : AsNoted(m)'
    BY <2>2, <2>3
  <2> QED
    BY <1>3, <2>4 DEF RouterIs, NoCall
<1>7. SyncIs(p)'
  <2>1. c.op = "block" => c.mac \in poll[p].block
    BY <1>1 DEF LoneInv, RouterIs
  <2>2. c.op # "block" => /\ poll[p].block = {} /\ c.session \in poll[p].list
                          /\ MacOf[c.session] = c.mac /\ c.session \in cache /\ c.session # None
    BY <1>1, NoneFacts DEF LoneInv, RouterIs, SyncIs
  <2>3. c.op = "block" => poll'[p].list = poll[p].list
    BY <1>0, <1>1, <1>3, PollFacts, NoneFacts
  <2>4. poll'[p].list \subseteq cache
    BY <1>1, <1>3 DEF LoneInv, SyncIs
  <2>5. \A s \in cache :
          \/ s \in poll'[p].list \/ phase[s] = "due"
          \/ enforced'[MacOf[s]] # None /\ MacOf[s] \notin poll'[p].block
    <3>1. SUFFICES ASSUME NEW s \in cache, s \notin poll'[p].list, phase[s] # "due"
                   PROVE  enforced'[MacOf[s]] # None /\ MacOf[s] \notin poll'[p].block
      OBVIOUS
    <3>2. CASE s = c.session /\ c.op # "block"
      BY <1>0, <1>3, <1>5, <2>2, <3>1, <3>2
    <3>3. CASE ~(s = c.session /\ c.op # "block")
      <4>1. s \notin poll[p].list
        BY <1>1, <1>3, <2>3, <3>1, <3>3
      <4>2. enforced[MacOf[s]] # None /\ MacOf[s] \notin poll[p].block
        BY <1>1, <3>1, <4>1 DEF LoneInv, SyncIs
      <4> QED
        BY <1>0, <1>1, <1>3, <1>5, <2>1, <2>2, <3>1, <4>2
    <3> QED
      BY <3>2, <3>3
  <2>6. \A m \in Macs : enforced'[m] # None =>
          \/ m \in poll'[p].block
          \/ \E s \in cache : MacOf[s] = m /\ SpeedOf[s] = SpeedOf[enforced'[m]]
          \/ \E s \in poll'[p].list : MacOf[s] = m
    <3>1. SUFFICES ASSUME NEW m \in Macs, enforced'[m] # None
                   PROVE  \/ m \in poll'[p].block
                          \/ \E s \in cache : MacOf[s] = m /\ SpeedOf[s] = SpeedOf[enforced'[m]]
                          \/ \E s \in poll'[p].list : MacOf[s] = m
      OBVIOUS
    <3>2. CASE m = c.mac
      BY <1>1, <1>5, <2>2, <3>1, <3>2
    <3>3. CASE m # c.mac
      <4>1. enforced'[m] = enforced[m]
        BY <1>5, <3>3
      <4>2. \/ m \in poll[p].block
            \/ \E s \in cache : MacOf[s] = m /\ SpeedOf[s] = SpeedOf[enforced[m]]
            \/ \E s \in poll[p].list : MacOf[s] = m
        BY <1>1, <3>1, <4>1 DEF LoneInv, SyncIs
      <4>3. (\E s \in poll[p].list : MacOf[s] = m) => \E s \in poll'[p].list : MacOf[s] = m
        BY <1>1, <1>3, <2>2, <2>3, <3>3
      <4> QED
        BY <1>3, <3>3, <4>1, <4>2, <4>3
    <3> QED
      BY <3>2, <3>3
  <2> QED
    BY <1>0, <1>3, <2>4, <2>5, <2>6 DEF SyncIs
<1> QED
  BY <1>6, <1>7 DEF LoneInv

LEMMA LoneResumes ==
  ASSUME NEW p, LoneAgent(p), LoneInv(p), TypeInv', Resume(p)
  PROVE  LoneInv(p)'
<1>0. /\ TypeInv /\ p \in Polls /\ poll \in [Polls -> PollStates] /\ cache \in SUBSET Sessions
      /\ poll[p].call.state \in {"ok", "failed"} /\ UNCHANGED <<phase, router>>
  BY DEF LoneInv, LoneAgent, TypeInv, TypeOK, Resume
<1>1. CASE ~Throws(poll[p].call)
  BY <1>0, <1>1, LoneReturns DEF Resume
<1>2. CASE Throws(poll[p].call)
  <2>1. poll[p].call.state = "failed"
    BY <1>2 DEF Throws
  <2>2. CASE FreshProcess
    BY <2>2, LoneFresh
  <2>3. CASE /\ poll' = [poll EXCEPT ![p] = Idle] /\ UNCHANGED <<enforced, restarts>>
             /\ stage' = stage
    <3>1. poll'[p] = Idle
      BY <1>0, <2>3
    <3> QED
      BY <1>0, <2>1, <2>3, <3>1, IdleFacts, LoneOutside
  <2>4. CASE /\ poll' = [poll EXCEPT ![p] = Syncing(p, cache, TRUE)]
             /\ UNCHANGED <<enforced, cache, stage, restarts>>
    <3>1. poll'[p] = Syncing(p, cache, TRUE)
      BY <1>0, <2>4
    <3> QED
      BY <1>0, <2>1, <2>4, <3>1, LoneSyncs
  <2>5. CASE PollEnds(p) /\ UNCHANGED <<enforced, restarts>>
    <3>1. poll'[p] = Idle /\ (stage \in Closing => stage' \in Closing)
      BY <1>0, <2>5, PollEndsFacts
    <3> QED
      BY <1>0, <2>1, <2>5, <3>1, IdleFacts, LoneOutside
  <2> QED
    BY <1>0, <1>2, <2>2, <2>3, <2>4, <2>5 DEF Resume, Thrown, Caught
<1> QED
  BY <1>1, <1>2

LEMMA LoneInit == ASSUME NEW p, LoneAgent(p) PROVE Init => LoneInv(p)
<1> SUFFICES ASSUME Init PROVE LoneInv(p)
  OBVIOUS
<1>1. poll[p] = Idle
  BY DEF Init, LoneAgent
<1> QED
  BY <1>1, TypeInit, IdleFacts DEF Init, LoneInv, RouterIs, AsNoted, SyncIs, NoCall, RuleIs, RateOf

LEMMA LoneStep == ASSUME NEW p, LoneAgent(p) PROVE LoneInv(p) /\ [Next]_vars => LoneInv(p)'
<1> SUFFICES ASSUME LoneInv(p), [Next]_vars PROVE LoneInv(p)'
  OBVIOUS
<1>1. TypeInv'
  BY TypeStep DEF LoneInv
<1>2. CASE Crash \/ Exit
  BY <1>1, <1>2, LoneFresh DEF Crash, Exit
<1>5. CASE Shutdown \/ Flush \/ Delete
  <2>1. stage' \in Closing /\ UNCHANGED <<phase, enforced, cache, poll, restarts, spoiled>>
    BY <1>5, ShutdownTypes DEF LoneInv
  <2>2. /\ \A m \in Macs : AsNoted(m)'
        /\ \A m : ~Sound(m)'
    BY <2>1 DEF AsNoted, Sound
  <2>3. RouterIs(p)'
    <3>1. poll[p].call # NoCall => poll[p].call.mac \in Macs
      BY PollFacts, CallFacts DEF LoneInv, LoneAgent
    <3> QED
      BY <2>1, <2>2, <3>1 DEF LoneInv, RouterIs
  <2>4. SyncIs(p)'
    BY <2>1 DEF LoneInv, SyncIs
  <2> QED
    BY <1>1, <2>3, <2>4 DEF LoneInv
<1>3. CASE CloudActs
  <2>1. /\ UNCHANGED <<router, enforced, cache, poll, stage, restarts>>
        /\ \A s \in Sessions : phase[s] = "due" => phase'[s] = "due"
    BY <1>3, CloudFacts DEF LoneInv
  <2> QED
    BY <1>1, <2>1, LoneQuiet
<1>4. CASE UNCHANGED vars
  BY <1>1, <1>4, LoneQuiet DEF vars
<1> QED
  BY <1>1, <1>2, <1>3, <1>4, <1>5, LoneAsks, LoneNext, LoneScript, LoneResumes
  DEF Next, LoneAgent, CloudActs

LEMMA LoneInvariant == ASSUME NEW p, LoneAgent(p) PROVE Spec => []LoneInv(p)
  BY LoneInit, LoneStep, PTL DEF Spec

\* A shutdown is followed by another process, within the bound on them.
LastStage == stage \in Closing => restarts < MaxRestarts

LEMMA LastStep == TypeInv /\ LastStage /\ [Next]_vars => LastStage'
<1> SUFFICES ASSUME TypeInv, LastStage, [Next]_vars PROVE LastStage'
  OBVIOUS
<1>1. CASE FreshProcess
  BY <1>1 DEF FreshProcess, LastStage, Closing
<1>2. CASE stage' = stage /\ restarts' = restarts
  BY <1>2 DEF LastStage
<1>3. CASE stage' = "running" /\ restarts' = restarts
  BY <1>3 DEF LastStage, Closing
<1>4. CASE Shutdown \/ Flush \/ Delete
  BY <1>4 DEF Shutdown, Flush, Delete, LastStage, Closing
<1>5. CASE CloudActs
  BY <1>2, <1>5, CloudFacts
<1>6. ASSUME NEW p \in Polls, PollEnds(p), restarts' = restarts PROVE LastStage'
  BY <1>2, <1>3, <1>6, PollEndsFacts
<1>7. ASSUME NEW p \in Polls,
             PollBegin(p) \/ CloudAnswers(p) \/ CloudUnreachable(p) \/ SyncBegin(p) \/ SyncEnd(p)
      PROVE  LastStage'
  BY <1>2, <1>6, <1>7 DEF PollBegin, CloudAnswers, CloudUnreachable, SyncBegin, SyncEnd, Caught
<1>8. ASSUME NEW p \in Polls, BlockNext(p) \/ AllowNext(p) PROVE LastStage'
  BY <1>2, <1>8 DEF BlockNext, AllowNext
<1>9. ASSUME NEW p \in Polls, RunScript(p) PROVE LastStage'
  BY <1>2, <1>9, ScriptFacts
<1>10. ASSUME NEW p \in Polls, Resume(p) PROVE LastStage'
  BY <1>1, <1>2, <1>6, <1>10 DEF Resume, Thrown, Caught, Returned
<1>11. CASE UNCHANGED vars
  BY <1>2, <1>11 DEF vars
<1> QED
  BY <1>1, <1>4, <1>5, <1>7, <1>8, <1>9, <1>10, <1>11 DEF Next, CloudActs, Crash, Exit

LEMMA LastInvariant == Spec => []LastStage
<1>1. Init => LastStage
  BY DEF Init, LastStage, Closing
<1> QED
  BY <1>1, LastStep, TypeInvariant, PTL DEF Spec

\* No rule is left on the router that the agent does not know of, but for rules that a
\* script spoiled, for any number of sessions and devices and whatever becomes of scripts,
\* while the process lives (session-manager.ts:59-66).
THEOREM RulesAreKnown ==
  ASSUME NEW p, LoneAgent(p), MaxRestarts = 0 PROVE Spec => []RuleIsKnown
<1>1. LoneInv(p) /\ LastStage => RuleIsKnown
  <2>1. ASSUME LoneInv(p), LastStage, NEW m \in Macs \ spoiled, m \in open \/ rate[m] # 0,
               poll[p].call.mac # m
        PROVE  enforced[m] # None
    <3>1. restarts = 0 /\ stage \notin Closing /\ AsNoted(m)
      BY <2>1 DEF LoneInv, LastStage, RouterIs, TypeInv, TypeOK
    <3> QED
      BY <2>1, <3>1 DEF AsNoted, Sound, RuleIs, RateOf
  <2> QED
    BY <2>1 DEF RuleIsKnown, LoneAgent
<1> QED
  BY <1>1, LoneInvariant, LastInvariant, PTL

\* Only its end takes a sync out of the thread, unless the process goes.
LEMMA OnlySyncEnds ==
  ASSUME NEW p, LoneAgent(p), LoneInv(p), Next, ~FreshProcess, thread = p, poll'[p].pc = "idle"
  PROVE  SyncEnd(p)
<1>0. /\ TypeInv /\ p \in Polls /\ poll[p].pc = "sync" /\ poll[p].call = NoCall /\ p # None
      /\ poll \in [Polls -> PollStates]
  BY NoneFacts DEF LoneInv, LoneAgent, TypeInv, TypeOK
<1>1. ~BlockNext(p)
  <2>1. SUFFICES ASSUME BlockNext(p) PROVE FALSE
    OBVIOUS
  <2>2. poll[p].block \subseteq Macs
    BY <1>0, PollFacts
  <2>3. PICK m \in poll[p].block : Starts(p, "block", m, None)
    BY <2>1, <2>2 DEF BlockNext, Starts
  <2>4. Awaits(p, "block", m, None)
    BY <1>0, <2>2, <2>3, AwaitFacts
  <2> QED
    BY <1>0, <2>4 DEF Awaits
<1>2. ~AllowNext(p)
  <2>1. SUFFICES ASSUME AllowNext(p) PROVE FALSE
    OBVIOUS
  <2>2. PICK s \in poll[p].list :
          \/ Starts(p, "allow", MacOf[s], s)
          \/ Starts(p, "shape", MacOf[s], s)
          \/ poll' = [poll EXCEPT ![p] = [poll[p] EXCEPT !.list = poll[p].list \ {s}]]
    BY <1>0, <2>1, AllowKinds
  <2>3. s \in Sessions /\ MacOf[s] \in Macs /\ poll[p] \in PollStates
    BY <1>0, PollFacts, MapFacts
  <2>4. CASE Starts(p, "allow", MacOf[s], s)
    <3>1. Awaits(p, "allow", MacOf[s], s)
      BY <1>0, <2>3, <2>4, AwaitFacts
    <3> QED
      BY <1>0, <3>1 DEF Awaits
  <2>5. CASE Starts(p, "shape", MacOf[s], s)
    <3>1. Awaits(p, "shape", MacOf[s], s)
      BY <1>0, <2>3, <2>5, AwaitFacts
    <3> QED
      BY <1>0, <3>1 DEF Awaits
  <2>6. CASE poll' = [poll EXCEPT ![p] = [poll[p] EXCEPT !.list = poll[p].list \ {s}]]
    <3>1. poll'[p].pc = "sync"
      BY <1>0, <2>3, <2>6 DEF PollStates
    <3> QED
      BY <3>1
  <2> QED
    BY <2>2, <2>4, <2>5, <2>6
<1>3. ~RunScript(p)
  BY <1>0 DEF RunScript, Script, NoCall
<1>4. poll' # poll
  BY <1>0
<1> QED
  BY <1>0, <1>1, <1>2, <1>3, <1>4
  DEF Next, LoneAgent, Open, Suspend, Expire, ChangeLicense, GraceRunsOut, PollBegin,
      CloudAnswers, CloudUnreachable, SyncBegin, Resume, Crash, Shutdown, Flush, Delete, Exit

\* What a sync leaves when it ends.
LEMMA EndFacts ==
  ASSUME NEW p, LoneAgent(p), LoneInv(p), SyncEnd(p)
  PROVE  /\ \A m \in Macs : AsNoted(m)
         /\ \A m \in Macs : enforced[m] # None =>
              /\ RateOf(enforced[m]) # 0
              /\ \E s \in cache : MacOf[s] = m /\ SpeedOf[s] = RateOf(enforced[m])
         /\ \A s \in cache : MacOf[s] \in Macs /\ (phase[s] = "due" \/ enforced[MacOf[s]] # None)
<1>0. /\ TypeInv /\ p \in Polls /\ poll[p].pc = "sync" /\ poll[p].call = NoCall
      /\ poll[p].list = {} /\ poll[p].block = {}
      /\ enforced \in [Macs -> Sessions \cup {None}]
      /\ \A s \in cache : s \in Sessions /\ MacOf[s] \in Macs
  BY MapFacts, NoneFacts DEF LoneInv, LoneAgent, TypeInv, TypeOK, SyncEnd
<1>1. \A m \in Macs : AsNoted(m)
  BY <1>0, NoCallRests, AtRest
<1>2. \A m \in Macs : enforced[m] # None =>
        \E s \in cache : MacOf[s] = m /\ SpeedOf[s] = SpeedOf[enforced[m]]
  BY <1>0 DEF LoneInv, SyncIs
<1>3. \A s \in cache : phase[s] = "due" \/ enforced[MacOf[s]] # None
  BY <1>0 DEF LoneInv, SyncIs
<1>4. \A m \in Macs : enforced[m] # None =>
        RateOf(enforced[m]) = SpeedOf[enforced[m]] /\ SpeedOf[enforced[m]] # 0
  BY <1>0, MapFacts DEF RateOf
<1> QED
  BY <1>0, <1>1, <1>2, <1>3, <1>4

\* A sync that ends leaves exactly the cached list on the router, but for rules that a
\* script spoiled, for any number of sessions and devices, however the cloud changes
\* meanwhile and whatever becomes of scripts, while the process lives
\* (agent.ts:73-75, session-manager.ts:53-103).
THEOREM RouterAgrees ==
  ASSUME NEW p, LoneAgent(p), MaxRestarts = 0 PROVE Spec => SyncMakesRouterAgree
<1>1. ASSUME LoneInv(p), LastStage, Next, thread = p, poll'[p].pc = "idle" PROVE RouterIsAsListed
  <2>1. restarts = 0 /\ ~FreshProcess /\ stage \notin Closing
    BY <1>1 DEF FreshProcess, LastStage, LoneInv, TypeInv, TypeOK
  <2>2. SyncEnd(p)
    BY <1>1, <2>1, OnlySyncEnds
  <2>3. \A m \in Macs \ spoiled : RuleIs(m, enforced[m])
    BY <1>1, <2>1, <2>2, EndFacts DEF AsNoted, Sound
  <2>4. SUFFICES ASSUME NEW m \in Macs \ spoiled
                 PROVE  LET listed == {s \in cache : MacOf[s] = m} IN
                        \/ m \in open /\ rate[m] \in {SpeedOf[s] : s \in listed}
                        \/ m \notin open /\ rate[m] = 0 /\ \A s \in listed : phase[s] = "due"
    BY DEF RouterIsAsListed
  <2>5. CASE enforced[m] # None
    BY <1>1, <2>2, <2>3, <2>5, EndFacts DEF RuleIs
  <2>6. CASE enforced[m] = None
    BY <1>1, <2>2, <2>3, <2>6, EndFacts DEF RuleIs, RateOf
  <2> QED
    BY <2>5, <2>6
<1>2. LoneInv(p) /\ LastStage /\ [Next]_vars => [SyncEndsAsListed]_vars
  BY <1>1 DEF LoneAgent, SyncEndsAsListed
<1> QED
  BY <1>2, LoneInvariant, LastInvariant, PTL DEF Spec, SyncMakesRouterAgree

\* Every guest of the cached list is online at a listed speed when a sync ends, for any number
\* of sessions and devices, whatever becomes of scripts, unless the map takes a spoiled rule
\* for whole, and however often the process ends and leaves its rules behind
\* (agent.ts:73-99, session-manager.ts:53-103).
THEOREM ListedAreServed == ASSUME NEW p, LoneAgent(p) PROVE Spec => SyncServesListed
<1>1. ASSUME LoneInv(p), Next, thread = p, poll'[p].pc = "idle", stage' = "running"
      PROVE  ListedIsServed
  <2>1. SyncEnd(p)
    BY <1>1, OnlySyncEnds DEF FreshProcess
  <2>2. stage \notin Closing
    BY <1>1, <2>1, PollEndsFacts DEF SyncEnd, LoneInv, LoneAgent, Closing
  <2>3. SUFFICES ASSUME NEW s \in cache, phase[s] # "due", ~Mistaken(MacOf[s])
                 PROVE  /\ MacOf[s] \in open
                        /\ rate[MacOf[s]] \in {SpeedOf[t] : t \in {u \in cache : MacOf[u] = MacOf[s]}}
    BY DEF ListedIsServed
  <2>4. MacOf[s] \in Macs /\ enforced[MacOf[s]] # None
    BY <1>1, <2>1, <2>3, EndFacts
  <2>5. RuleIs(MacOf[s], enforced[MacOf[s]])
    BY <1>1, <2>1, <2>2, <2>3, <2>4, EndFacts DEF AsNoted, Sound, Mistaken
  <2>6. PICK t \in cache : MacOf[t] = MacOf[s] /\ SpeedOf[t] = RateOf(enforced[MacOf[s]])
    BY <1>1, <2>1, <2>4, EndFacts
  <2> QED
    BY <2>4, <2>5, <2>6 DEF RuleIs
<1>2. LoneInv(p) /\ [Next]_vars => [SyncEndsServing]_vars
  BY <1>1 DEF LoneAgent, SyncEndsServing
<1> QED
  BY <1>2, LoneInvariant, PTL DEF Spec, SyncServesListed

-----------------------------------------------------------------------------
(* Who is online, by polls that overlap as they like.                       *)

\* Sessions of a list have begun.
Begun(list) == \A s \in list : phase[s] # "none"

\* A poll holds sessions that have begun; so has the one of its script, and it is of that MAC.
PollSold(q) ==
  LET c == poll[q].call IN
  /\ Begun(poll[q].list)
  /\ c.session # None => phase[c.session] # "none" /\ MacOf[c.session] = c.mac

SoldInv ==
  /\ TypeInv /\ OnlySoldIsOnline /\ Begun(cache)
  /\ \A q \in Polls : PollSold(q)

\* A step of one poll that leaves the router alone.
LEMMA SoldPoll ==
  ASSUME SoldInv, TypeInv', UNCHANGED <<phase, router>>, NEW p \in Polls,
         \A q \in Polls : q # p => poll'[q].list = poll[q].list /\ poll'[q].call = poll[q].call,
         Begun(cache'), Begun(poll'[p].list),
         \/ poll'[p].call.session = None
         \/ /\ poll'[p].call.session \in poll[p].list
            /\ MacOf[poll'[p].call.session] = poll'[p].call.mac
  PROVE  SoldInv'
<1>1. Begun(poll[p].list)
  BY DEF SoldInv, PollSold
<1>2. PollSold(p)'
  BY <1>1 DEF PollSold, Begun
<1>3. \A q \in Polls : q # p => PollSold(q)'
  BY DEF SoldInv, PollSold, Begun
<1>4. OnlySoldIsOnline' /\ Begun(cache)'
  BY DEF SoldInv, OnlySoldIsOnline, Begun, router
<1> QED
  BY <1>2, <1>3, <1>4 DEF SoldInv

LEMMA SoldCloud ==
  ASSUME SoldInv, TypeInv', CloudActs
  PROVE  SoldInv'
<1>1. /\ UNCHANGED <<router, cache, poll>>
      /\ \A s \in Sessions : phase[s] # "none" => phase'[s] # "none"
  BY CloudFacts DEF SoldInv
<1>2. /\ cache \subseteq Sessions
      /\ \A q \in Polls : /\ poll[q].list \subseteq Sessions
                          /\ poll[q].call.session \in Sessions \cup {None}
  BY PollFacts, CallFacts DEF SoldInv, TypeInv, TypeOK
<1>3. OnlySoldIsOnline' /\ Begun(cache)'
  BY <1>1, <1>2 DEF SoldInv, OnlySoldIsOnline, Begun, router
<1>4. \A q \in Polls : PollSold(q)'
  BY <1>1, <1>2 DEF SoldInv, PollSold, Begun
<1> QED
  BY <1>3, <1>4 DEF SoldInv

\* A new process knows nobody; the router keeps its rules.
LEMMA SoldFresh ==
  ASSUME SoldInv, TypeInv', FreshProcess, UNCHANGED phase, UNCHANGED router
  PROVE  SoldInv'
<1>1. cache' = {} /\ \A q \in Polls : poll'[q] = Idle
  BY DEF FreshProcess
<1>2. \A q \in Polls : PollSold(q)'
  BY <1>1, IdleFacts DEF PollSold, Begun, NoCall
<1>3. OnlySoldIsOnline'
  BY DEF SoldInv, OnlySoldIsOnline, router
<1> QED
  BY <1>1, <1>2, <1>3 DEF SoldInv, Begun

\* teardown.sh only takes rules away.
LEMMA SoldShutdown ==
  ASSUME SoldInv, TypeInv', Shutdown \/ Flush \/ Delete
  PROVE  SoldInv'
<1>1. /\ UNCHANGED <<phase, cache, poll>>
      /\ open' \in {open, {}} /\ rate' \in {rate, [m \in Macs |-> 0]}
  BY ShutdownTypes DEF SoldInv
<1>2. OnlySoldIsOnline'
  BY <1>1 DEF SoldInv, OnlySoldIsOnline
<1> QED
  BY <1>1, <1>2 DEF SoldInv, PollSold, Begun

\* What a poll goes on with when it holds no script and a list of sessions that have begun.
LEMMA SoldMoves ==
  ASSUME SoldInv, TypeInv', UNCHANGED <<phase, router>>, NEW p \in Polls, NEW new \in PollStates,
         poll' = [poll EXCEPT ![p] = new], new.call = NoCall, Begun(new.list), Begun(cache')
  PROVE  SoldInv'
<1>1. poll'[p] = new /\ \A q \in Polls : q # p => poll'[q] = poll[q]
  BY DEF SoldInv, TypeInv, TypeOK
<1>2. new.call.session = None
  BY DEF NoCall
<1> QED
  BY <1>1, <1>2, SoldPoll

\* A sync starts, on a list of the cloud or on the cache.
LEMMA SoldSync ==
  ASSUME SoldInv, TypeInv', UNCHANGED <<phase, router>>, NEW p \in Polls, NEW list \in SUBSET Sessions,
         NEW offline \in BOOLEAN, Begun(list), cache' = list,
         poll' = [poll EXCEPT ![p] = Syncing(p, list, offline)]
  PROVE  SoldInv'
<1>1. /\ Syncing(p, list, offline) \in PollStates /\ Syncing(p, list, offline).call = NoCall
      /\ Syncing(p, list, offline).list = Active(list)
  BY SyncingFacts DEF SoldInv
<1>2. Begun(Active(list)) /\ Begun(cache')
  BY DEF Begun, Active
<1> QED
  BY <1>1, <1>2, SoldMoves

LEMMA SoldAsks ==
  ASSUME SoldInv, TypeInv', NEW p \in Polls,
         PollBegin(p) \/ CloudAnswers(p) \/ CloudUnreachable(p) \/ SyncBegin(p) \/ SyncEnd(p)
  PROVE  SoldInv'
<1>0. /\ TypeInv /\ poll[p] \in PollStates /\ (poll[p].call # NoCall => poll[p].pc = "sync")
      /\ cache \in SUBSET Sessions /\ poll[p].list \in SUBSET Sessions
      /\ Begun(cache) /\ Begun(poll[p].list)
  BY PollFacts DEF SoldInv, PollSold, TypeInv, TypeOK
<1>1. CASE PollBegin(p)
  <2> DEFINE new == [poll[p] EXCEPT !.pc = "asking"]
  <2>1. /\ poll' = [poll EXCEPT ![p] = new] /\ new \in PollStates /\ new.call = NoCall
        /\ new.list = poll[p].list /\ UNCHANGED <<phase, router, cache>>
    BY <1>0, <1>1 DEF PollBegin, PollStates
  <2> HIDE DEF new
  <2>2. Begun(new.list) /\ Begun(cache')
    BY <1>0, <2>1 DEF Begun
  <2> QED
    BY <2>1, <2>2, SoldMoves
<1>2. CASE CloudAnswers(p)
  <2> DEFINE new == [poll[p] EXCEPT !.pc = "answered", !.list = Offered]
  <2>1. Offered \in SUBSET Sessions /\ Begun(Offered)
    BY DEF Offered, Begun
  <2>2. /\ poll' = [poll EXCEPT ![p] = new] /\ new \in PollStates /\ new.call = NoCall
        /\ new.list = Offered /\ UNCHANGED <<phase, router, cache>>
    BY <1>0, <1>2, <2>1 DEF CloudAnswers, PollStates
  <2> HIDE DEF new
  <2>3. Begun(new.list) /\ Begun(cache')
    BY <1>0, <2>1, <2>2 DEF Begun
  <2> QED
    BY <2>2, <2>3, SoldMoves
<1>3. CASE CloudUnreachable(p)
  <2>1. UNCHANGED <<phase, router, cache>>
    BY <1>3 DEF CloudUnreachable
  <2>2. CASE poll' = [poll EXCEPT ![p] = Syncing(p, cache, TRUE)]
    BY <1>0, <2>1, <2>2, SoldSync
  <2>3. CASE poll' = [poll EXCEPT ![p] = Idle]
    BY <1>0, <2>1, <2>3, IdleFacts, SoldMoves DEF Begun
  <2> QED
    BY <1>0, <1>3, <2>2, <2>3, PollEndsFacts DEF CloudUnreachable, Caught
<1>4. CASE SyncBegin(p)
  <2>1. /\ poll' = [poll EXCEPT ![p] = Syncing(p, poll[p].list, FALSE)] /\ cache' = poll[p].list
        /\ UNCHANGED <<phase, router>>
    BY <1>4 DEF SyncBegin
  <2> QED
    BY <1>0, <2>1, SoldSync
<1>5. CASE SyncEnd(p)
  <2>1. poll' = [poll EXCEPT ![p] = Idle] /\ UNCHANGED <<phase, router, cache>>
    BY <1>0, <1>5, PollEndsFacts DEF SyncEnd
  <2> QED
    BY <1>0, <2>1, IdleFacts, SoldMoves DEF Begun
<1> QED
  BY <1>1, <1>2, <1>3, <1>4, <1>5

\* A script is started for a MAC to block or for a session of the poll's list.
LEMMA SoldNext ==
  ASSUME SoldInv, TypeInv', NEW p \in Polls, BlockNext(p) \/ AllowNext(p)
  PROVE  SoldInv'
<1>0. /\ TypeInv /\ poll \in [Polls -> PollStates] /\ poll[p] \in PollStates
      /\ poll[p].list \subseteq Sessions /\ poll[p].block \subseteq Macs
      /\ poll[p].pc = "sync" /\ poll[p].call = NoCall /\ UNCHANGED <<phase, router, cache>>
      /\ Begun(cache) /\ Begun(poll[p].list)
  BY PollFacts, NoneFacts DEF SoldInv, PollSold, TypeInv, TypeOK, BlockNext, AllowNext
<1>a. Begun(cache')
  BY <1>0 DEF Begun
<1>1. ASSUME NEW op \in {"allow", "shape", "block"}, NEW m \in Macs, NEW s \in Sessions \cup {None},
             Starts(p, op, m, s), s = None \/ (s \in poll[p].list /\ MacOf[s] = m)
      PROVE  SoldInv'
  <2>1. Awaits(p, op, m, s)
    BY <1>0, <1>1, AwaitFacts
  <2>2. /\ poll'[p].call.mac = m /\ poll'[p].call.session = s /\ poll'[p].list = poll[p].list
        /\ \A q \in Polls : q # p => poll'[q] = poll[q]
    BY <1>0, <2>1 DEF Awaits
  <2>3. Begun(poll'[p].list)
    BY <1>0, <2>2 DEF Begun
  <2> QED
    BY <1>0, <1>a, <1>1, <2>2, <2>3, SoldPoll
<1>2. CASE BlockNext(p)
  <2>1. PICK m \in poll[p].block : Starts(p, "block", m, None)
    BY <1>0, <1>2 DEF BlockNext, Starts
  <2> QED
    BY <1>0, <1>1, <2>1
<1>3. CASE AllowNext(p)
  <2>1. PICK s \in poll[p].list :
          \/ Starts(p, "allow", MacOf[s], s) \/ Starts(p, "shape", MacOf[s], s)
          \/ poll' = [poll EXCEPT ![p] = [poll[p] EXCEPT !.list = poll[p].list \ {s}]]
    BY <1>0, <1>3, AllowKinds
  <2>2. s \in Sessions /\ MacOf[s] \in Macs
    BY <1>0, MapFacts
  <2>3. CASE poll' = [poll EXCEPT ![p] = [poll[p] EXCEPT !.list = poll[p].list \ {s}]]
    <3> DEFINE new == [poll[p] EXCEPT !.list = poll[p].list \ {s}]
    <3>1. /\ new \in PollStates /\ new.call = NoCall /\ new.list \subseteq poll[p].list
          /\ poll' = [poll EXCEPT ![p] = new]
      BY <1>0, <2>3 DEF PollStates
    <3> HIDE DEF new
    <3>2. Begun(new.list)
      BY <1>0, <3>1 DEF Begun
    <3> QED
      BY <1>0, <1>a, <3>1, <3>2, SoldMoves
  <2> QED
    BY <1>1, <2>1, <2>2, <2>3
<1> QED
  BY <1>2, <1>3

\* The one step that gives a rule: to the device of a session that has begun.
LEMMA SoldScript ==
  ASSUME SoldInv, TypeInv', NEW p \in Polls, RunScript(p)
  PROVE  SoldInv'
<1> DEFINE c == poll[p].call
<1>0. /\ TypeInv /\ RouterOK /\ poll \in [Polls -> PollStates] /\ poll[p] \in PollStates
      /\ Begun(cache) /\ PollSold(p)
  BY PollFacts DEF SoldInv, TypeInv, TypeOK, RouterOK
<1>1. /\ c \in Calls /\ c # NoCall /\ c.mac \in Macs /\ c.op \in {"allow", "shape", "block"}
      /\ c.op # "block" => c.session \in Sessions
      /\ UNCHANGED <<phase, enforced, cache, stage, restarts>>
      /\ open' = open \/ open' = Accepting(c)
      /\ rate' = rate \/ rate' \in Shaping(c)
  BY <1>0, ScriptFacts
<1>2. PICK d : /\ poll' = [poll EXCEPT ![p] = [poll[p] EXCEPT !.call = d]]
               /\ d.mac = c.mac /\ d.session = c.session
  BY <1>0, ScriptFacts
<1>3. /\ poll'[p].call = d /\ poll'[p].list = poll[p].list
      /\ \A q \in Polls : q # p => poll'[q] = poll[q]
  BY <1>0, <1>2 DEF PollStates
<1>4. \A q \in Polls : PollSold(q)'
  BY <1>0, <1>1, <1>2, <1>3 DEF SoldInv, PollSold, Begun
<1>5. c.op # "block" => phase[c.session] # "none" /\ MacOf[c.session] = c.mac
  BY <1>0, <1>1, NoneFacts DEF PollSold
<1>6. ASSUME NEW m \in Macs
      PROVE  /\ m \in open' => \E s \in Sessions : MacOf[s] = m /\ phase[s] # "none"
             /\ rate'[m] # 0 =>
                  \E s \in Sessions : MacOf[s] = m /\ phase[s] # "none" /\ SpeedOf[s] = rate'[m]
  <2>1. /\ m \in open => \E s \in Sessions : MacOf[s] = m /\ phase[s] # "none"
        /\ rate[m] # 0 =>
             \E s \in Sessions : MacOf[s] = m /\ phase[s] # "none" /\ SpeedOf[s] = rate[m]
    BY DEF SoldInv, OnlySoldIsOnline
  <2>2. m \in open' => m \in open \/ (c.op # "block" /\ m = c.mac)
    BY <1>1 DEF Accepting
  <2>3. rate'[m] # 0 => rate'[m] = rate[m] \/ (c.op # "block" /\ m = c.mac /\ rate'[m] = SpeedOf[c.session])
    BY <1>0, <1>1, ShapingFacts
  <2> QED
    BY <1>1, <1>5, <2>1, <2>2, <2>3
<1>7. OnlySoldIsOnline'
  BY <1>1, <1>6 DEF OnlySoldIsOnline
<1> QED
  BY <1>0, <1>1, <1>4, <1>7 DEF SoldInv, Begun

LEMMA SoldResumes ==
  ASSUME SoldInv, TypeInv', NEW p \in Polls, Resume(p)
  PROVE  SoldInv'
<1>0. /\ TypeInv /\ poll[p].call.state \in {"ok", "failed"} /\ UNCHANGED <<phase, router>>
      /\ cache \in SUBSET Sessions /\ Begun(cache) /\ Begun(poll[p].list)
  BY DEF SoldInv, PollSold, TypeInv, TypeOK, Resume
<1>1. CASE FreshProcess
  BY <1>0, <1>1, SoldFresh
<1>2. CASE poll' = [poll EXCEPT ![p] = Idle] /\ UNCHANGED cache
  BY <1>0, <1>2, IdleFacts, SoldMoves DEF Begun
<1>3. CASE poll' = [poll EXCEPT ![p] = Syncing(p, cache, TRUE)] /\ UNCHANGED cache
  BY <1>0, <1>3, SoldSync
<1>4. CASE Returned(p)
  <2>1. poll[p].call # NoCall
    BY <1>0 DEF NoCall
  <2>2. /\ poll'[p].call = NoCall /\ cache' = cache /\ poll'[p].list \subseteq poll[p].list
        /\ \A q \in Polls : q # p => poll'[q].list = poll[q].list /\ poll'[q].call = poll[q].call
    BY <1>0, <1>4, <2>1, ReturnedFacts
  <2>3. poll'[p].call.session = None /\ Begun(cache') /\ Begun(poll'[p].list)
    BY <1>0, <2>2 DEF NoCall, Begun
  <2> QED
    BY <1>0, <2>2, <2>3, SoldPoll
<1> QED
  BY <1>0, <1>1, <1>2, <1>3, <1>4, PollEndsFacts DEF Resume, Thrown, Caught

LEMMA SoldInit == Init => SoldInv
<1> SUFFICES ASSUME Init PROVE SoldInv
  OBVIOUS
<1>1. cache = {} /\ \A q \in Polls : poll[q] = Idle
  BY DEF Init
<1>2. \A q \in Polls : PollSold(q)
  BY <1>1, IdleFacts DEF PollSold, Begun, NoCall
<1> QED
  BY <1>1, <1>2, TypeInit DEF SoldInv, Begun, OnlySoldIsOnline, Init

LEMMA SoldStep == SoldInv /\ [Next]_vars => SoldInv'
<1> SUFFICES ASSUME SoldInv, [Next]_vars PROVE SoldInv'
  OBVIOUS
<1>1. TypeInv'
  BY TypeStep DEF SoldInv
<1>2. CASE Crash \/ Exit
  BY <1>1, <1>2, SoldFresh DEF Crash, Exit
<1>3. CASE UNCHANGED vars
  <2>1. UNCHANGED <<phase, router, cache, poll>>
    BY <1>3 DEF vars
  <2> QED
    BY <1>1, <2>1 DEF SoldInv, PollSold, OnlySoldIsOnline, Begun, router
<1> QED
  BY <1>1, <1>2, <1>3, SoldCloud, SoldAsks, SoldNext, SoldScript, SoldResumes, SoldShutdown
  DEF Next, CloudActs

\* Nobody is let through who bought nothing, nor given a speed that was not bought, however
\* many polls overlap or go on during a shutdown, whatever scripts leave half done and
\* whenever the process ends (agent.ts:38-99,121-125).
THEOREM OnlyBuyersAreOnline == Spec => []OnlySoldIsOnline
<1>1. SoldInv => OnlySoldIsOnline
  BY DEF SoldInv
<1> QED
  BY <1>1, SoldInit, SoldStep, PTL DEF Spec

-----------------------------------------------------------------------------
(* The refinement of VenueAccess, by polls that do not overlap.             *)

\* What a poll holds of the list is in the cache once it syncs; a MAC it is to block has
\* no session there that still runs; the script under way is of the one or the other.
PollFollows(p) ==
  LET c == poll[p].call IN
  /\ Begun(cache) /\ Begun(poll[p].list)
  /\ poll[p].pc = "sync" =>
       /\ poll[p].list \subseteq cache
       /\ \A m \in poll[p].block : \A s \in cache : MacOf[s] = m => phase[s] = "due"
  /\ c # NoCall =>
       /\ c.op = "block" => c.mac \in poll[p].block
       /\ c.op # "block" => c.session \in poll[p].list /\ MacOf[c.session] = c.mac

FollowInv(p) == TypeInv /\ PollFollows(p)

\* One step of the promise, or none.
AccessStep == [Access!Next]_(Access!vars)

\* A step that leaves router and cache alone is none of the venue's.
LEMMA NoAccessStep ==
  ASSUME UNCHANGED <<phase, router, cache>>, stage \in Closing <=> stage' \in Closing
  PROVE  AccessStep
<1>1. (stage \in Closing)' = (stage \in Closing)
  OBVIOUS
<1> QED
  BY <1>1, Zenon DEF AccessStep, Access!vars, router

LEMMA CloudFollows ==
  ASSUME NEW p \in Polls, FollowInv(p), TypeInv', CloudActs
  PROVE  AccessStep /\ FollowInv(p)'
<1>1. /\ UNCHANGED <<router, cache, poll, stage>>
      /\ \A s \in Sessions : phase[s] = "due" => phase'[s] = "due"
      /\ \A s \in Sessions : phase[s] # "none" => phase'[s] # "none"
      /\ Cloud!Next \/ UNCHANGED phase
  BY CloudFacts DEF FollowInv
<1>2. /\ cache \subseteq Sessions /\ poll[p].list \subseteq Sessions
  BY PollFacts DEF FollowInv, TypeInv, TypeOK
<1>3. FollowInv(p)'
  <2>1. Begun(cache)' /\ Begun(poll[p].list)'
    BY <1>1, <1>2 DEF FollowInv, PollFollows, Begun
  <2>2. poll[p].pc = "sync" =>
          \A m \in poll[p].block : \A s \in cache : MacOf[s] = m => phase'[s] = "due"
    BY <1>1, <1>2 DEF FollowInv, PollFollows
  <2> QED
    BY <1>1, <2>1, <2>2 DEF FollowInv, PollFollows
<1>4. AccessStep
  <2>1. CASE UNCHANGED phase
    BY <1>1, <2>1, NoAccessStep
  <2>2. CASE Cloud!Next
    <3>1. Access!Cloud!Next
      BY <2>2 DEF Cloud!Next, Cloud!Open, Cloud!Suspend, Cloud!Expire, Access!Cloud!Next,
                  Access!Cloud!Open, Access!Cloud!Suspend, Access!Cloud!Expire
    <3> QED
      BY <1>1, <3>1 DEF AccessStep, Access!Next, Access!CloudStep, router
  <2> QED
    BY <1>1, <2>1, <2>2
<1> QED
  BY <1>3, <1>4

\* The agent learns a list, or loses it with its process.
LEMMA ListStep ==
  ASSUME UNCHANGED <<phase, router, stage>>, cache' \in SUBSET Sessions,
         \A s \in cache' : phase[s] # "none"
  PROVE  AccessStep
  BY DEF AccessStep, Access!Next, Access!Learn, router

LEMMA RestartStep ==
  ASSUME UNCHANGED <<phase, router>>, FreshProcess
  PROVE  AccessStep
<1>1. cache' = {} /\ stage' \notin Closing
  BY DEF FreshProcess, Closing
<1> QED
  BY <1>1 DEF AccessStep, Access!Next, Access!Restart, router

\* The poll after a step: outside a sync with a sold list, or at the start of a sync of it.
LEMMA FollowOutside ==
  ASSUME NEW p \in Polls, FollowInv(p), TypeInv', UNCHANGED phase,
         \A s \in cache' \cup poll'[p].list : phase[s] # "none", poll'[p].pc # "sync"
  PROVE  FollowInv(p)'
<1>1. poll'[p].call = NoCall
  BY DEF TypeInv, CallsInSync
<1> QED
  BY <1>1 DEF FollowInv, PollFollows, Begun

LEMMA FollowSync ==
  ASSUME NEW p \in Polls, FollowInv(p), TypeInv', UNCHANGED phase, NEW list \in SUBSET Sessions, Begun(list),
         cache' = list, NEW offline \in BOOLEAN, poll'[p] = Syncing(p, list, offline)
  PROVE  FollowInv(p)'
<1>a. Active(list) = {s \in list : phase[s] # "due"}
  BY DEF Active
<1>b. Unlisted(list) = {m \in Macs : enforced[m] # None /\ \A s \in Active(list) : MacOf[s] # m}
  BY DEF Unlisted
<1>2. /\ poll'[p].call = NoCall /\ poll'[p].list = Active(list) /\ poll'[p].block = Unlisted(list)
  BY SyncingFacts DEF FollowInv
<1>3. \A m \in poll'[p].block : \A s \in list : MacOf[s] = m => phase[s] = "due"
  BY <1>2, <1>a, <1>b
<1>4. PollFollows(p)'
  BY <1>2, <1>3, <1>a DEF PollFollows, Begun
<1> QED
  BY <1>4 DEF FollowInv

LEMMA FreshFollows ==
  ASSUME NEW p \in Polls, FollowInv(p), TypeInv', UNCHANGED phase, FreshProcess
  PROVE  FollowInv(p)'
<1>1. cache' = {} /\ poll'[p] = Idle
  BY DEF FreshProcess
<1> QED
  BY <1>1, IdleFacts, FollowOutside

\* Requests, and the start and end of a sync.
LEMMA AskFollows ==
  ASSUME NEW p \in Polls, FollowInv(p), TypeInv',
         PollBegin(p) \/ CloudAnswers(p) \/ CloudUnreachable(p) \/ SyncBegin(p) \/ SyncEnd(p)
  PROVE  AccessStep /\ FollowInv(p)'
<1>0. /\ TypeInv /\ poll \in [Polls -> PollStates] /\ poll[p] \in PollStates
      /\ cache \in SUBSET Sessions /\ poll[p].list \in SUBSET Sessions
      /\ Begun(cache) /\ Begun(poll[p].list)
  BY PollFacts DEF FollowInv, PollFollows, TypeInv, TypeOK
<1>1. CASE PollBegin(p)
  <2>1. poll' = [poll EXCEPT ![p] = [poll[p] EXCEPT !.pc = "asking"]] /\ UNCHANGED <<phase, router, cache, stage>>
    BY <1>1 DEF PollBegin
  <2>2. poll'[p].pc = "asking" /\ poll'[p].list = poll[p].list
    BY <1>0, <2>1 DEF PollStates
  <2> QED
    BY <1>0, <2>1, <2>2, FollowOutside, NoAccessStep DEF Begun
<1>2. CASE CloudAnswers(p)
  <2>1. /\ poll' = [poll EXCEPT ![p] = [poll[p] EXCEPT !.pc = "answered", !.list = Offered]]
        /\ UNCHANGED <<phase, router, cache, stage>>
    BY <1>2 DEF CloudAnswers
  <2>2. poll'[p].pc = "answered" /\ poll'[p].list = Offered
    BY <1>0, <2>1 DEF PollStates
  <2>3. Begun(Offered)
    BY DEF Offered, Begun
  <2> QED
    BY <1>0, <2>1, <2>2, <2>3, FollowOutside, NoAccessStep DEF Begun
<1>3. CASE CloudUnreachable(p)
  <2>1. UNCHANGED <<phase, router, cache>>
    BY <1>3 DEF CloudUnreachable
  <2>2. /\ poll'[p] = Syncing(p, cache, TRUE) \/ poll'[p] = Idle
        /\ stage \in Closing <=> stage' \in Closing
    BY <1>0, <1>3, PollEndsFacts DEF CloudUnreachable, Caught
  <2> QED
    BY <1>0, <2>1, <2>2, IdleFacts, FollowOutside, FollowSync, NoAccessStep DEF Begun
<1>4. CASE SyncBegin(p)
  <2>1. /\ poll'[p] = Syncing(p, poll[p].list, FALSE) /\ cache' = poll[p].list
        /\ UNCHANGED <<phase, router, stage>>
    BY <1>0, <1>4 DEF SyncBegin
  <2> QED
    BY <1>0, <2>1, FollowSync, ListStep DEF Begun
<1>5. CASE SyncEnd(p)
  <2>1. /\ poll'[p] = Idle /\ UNCHANGED <<phase, router, cache>>
        /\ stage \in Closing <=> stage' \in Closing
    BY <1>0, <1>5, PollEndsFacts DEF SyncEnd
  <2> QED
    BY <1>0, <2>1, IdleFacts, FollowOutside, NoAccessStep DEF Begun
<1> QED
  BY <1>1, <1>2, <1>3, <1>4, <1>5

\* A script is started for what sync has to block, or for a session of the list.
LEMMA NextFollows ==
  ASSUME NEW p \in Polls, FollowInv(p), TypeInv', BlockNext(p) \/ AllowNext(p)
  PROVE  AccessStep /\ FollowInv(p)'
<1>0. /\ TypeInv /\ poll \in [Polls -> PollStates] /\ poll[p] \in PollStates
      /\ poll[p].list \subseteq Sessions /\ poll[p].block \subseteq Macs
      /\ poll[p].pc = "sync" /\ UNCHANGED <<phase, router, cache, stage>>
  BY PollFacts, NoneFacts DEF FollowInv, TypeInv, TypeOK, BlockNext, AllowNext
<1>1. AccessStep
  BY <1>0, NoAccessStep
<1>2. ASSUME NEW op \in {"allow", "shape", "block"}, NEW m \in Macs, NEW s \in Sessions \cup {None},
             Starts(p, op, m, s), op = "block" => m \in poll[p].block,
             op # "block" => s \in poll[p].list /\ MacOf[s] = m
      PROVE  FollowInv(p)'
  <2>1. Awaits(p, op, m, s)
    BY <1>0, <1>2, AwaitFacts
  <2>2. /\ poll'[p].call.op = op /\ poll'[p].call.mac = m /\ poll'[p].call.session = s
        /\ poll'[p].list = poll[p].list /\ poll'[p].block = poll[p].block /\ poll'[p].pc = "sync"
    BY <1>0, <2>1 DEF Awaits
  <2> QED
    BY <1>0, <1>2, <2>2 DEF FollowInv, PollFollows, Begun
<1>3. CASE BlockNext(p)
  <2>1. PICK m \in poll[p].block : Starts(p, "block", m, None)
    BY <1>0, <1>3 DEF BlockNext, Starts
  <2> QED
    BY <1>0, <1>1, <1>2, <2>1
<1>4. CASE AllowNext(p)
  <2>1. PICK s \in poll[p].list :
          \/ Starts(p, "allow", MacOf[s], s) \/ Starts(p, "shape", MacOf[s], s)
          \/ poll' = [poll EXCEPT ![p] = [poll[p] EXCEPT !.list = poll[p].list \ {s}]]
    BY <1>0, <1>4, AllowKinds
  <2>2. s \in Sessions /\ MacOf[s] \in Macs
    BY <1>0, MapFacts
  <2>3. CASE poll' = [poll EXCEPT ![p] = [poll[p] EXCEPT !.list = poll[p].list \ {s}]]
    <3>1. /\ poll'[p].list = poll[p].list \ {s} /\ poll'[p].block = poll[p].block
          /\ poll'[p].call = NoCall /\ poll'[p].pc = "sync"
      BY <1>0, <1>4, <2>3, AllowKinds DEF PollStates
    <3> QED
      BY <1>0, <1>1, <3>1 DEF FollowInv, PollFollows, Begun
  <2> QED
    BY <1>1, <1>2, <2>1, <2>2, <2>3
<1> QED
  BY <1>3, <1>4

\* A script, or part of it, serves a listed guest or shuts out one who has no session.
LEMMA ScriptFollows ==
  ASSUME NEW p \in Polls, FollowInv(p), TypeInv', RunScript(p)
  PROVE  AccessStep /\ FollowInv(p)'
<1> DEFINE c == poll[p].call
<1>0. /\ TypeInv /\ poll \in [Polls -> PollStates] /\ poll[p] \in PollStates /\ RouterOK
  BY PollFacts DEF FollowInv, TypeInv, TypeOK, RouterOK
<1>1. /\ c \in Calls /\ c # NoCall /\ c.mac \in Macs /\ c.op \in {"allow", "shape", "block"}
      /\ c.op # "block" => c.session \in Sessions
      /\ poll[p].pc = "sync" /\ UNCHANGED <<phase, cache, stage>>
      /\ open' = open \/ open' = Accepting(c)
      /\ rate' = rate \/ rate' \in Shaping(c)
  BY <1>0, ScriptFacts
<1>2. PICK d \in Calls : /\ d # NoCall /\ d.op = c.op /\ d.mac = c.mac /\ d.session = c.session
                         /\ poll' = [poll EXCEPT ![p] = [poll[p] EXCEPT !.call = d]]
  BY <1>0, ScriptFacts
<1>3. /\ poll'[p].call = d /\ poll'[p].list = poll[p].list /\ poll'[p].block = poll[p].block
      /\ poll'[p].pc = "sync"
  BY <1>0, <1>1, <1>2 DEF PollStates
<1>4. FollowInv(p)'
  BY <1>0, <1>1, <1>2, <1>3 DEF FollowInv, PollFollows, Begun
<1>5. CASE c.op = "block"
  <2>1. /\ open' \in {open, open \ {c.mac}}
        /\ rate' \in {rate, [rate EXCEPT ![c.mac] = 0]}
    BY <1>0, <1>1, <1>5, ShapingFacts DEF Accepting
  <2>2. \A s \in cache : MacOf[s] = c.mac => phase[s] = "due"
    BY <1>1, <1>5 DEF FollowInv, PollFollows
  <2>3. Access!ShutOut(c.mac)
    BY <1>1, <2>1, <2>2 DEF Access!ShutOut
  <2> QED
    BY <1>1, <1>4, <2>3 DEF AccessStep, Access!Next
<1>6. CASE c.op # "block"
  <2>1. c.session \in cache /\ MacOf[c.session] = c.mac
    BY <1>1, <1>6 DEF FollowInv, PollFollows
  <2>2. /\ open' \in {open, open \cup {c.mac}}
        /\ rate' \in {rate, [rate EXCEPT ![c.mac] = SpeedOf[c.session]]}
    BY <1>0, <1>1, <1>6, ShapingFacts DEF Accepting
  <2>3. Access!Serve(c.session)
    BY <1>1, <2>1, <2>2 DEF Access!Serve
  <2> QED
    BY <1>1, <1>4, <1>6, <2>3 DEF AccessStep, Access!Next
<1> QED
  BY <1>5, <1>6

LEMMA ResumeFollows ==
  ASSUME NEW p \in Polls, FollowInv(p), TypeInv', Resume(p)
  PROVE  AccessStep /\ FollowInv(p)'
<1>0. /\ TypeInv /\ poll \in [Polls -> PollStates] /\ poll[p].call.state \in {"ok", "failed"}
      /\ UNCHANGED <<phase, router>> /\ cache \in SUBSET Sessions /\ Begun(cache)
  BY DEF FollowInv, PollFollows, TypeInv, TypeOK, Resume
<1>1. CASE FreshProcess
  BY <1>0, <1>1, FreshFollows, RestartStep
<1>2. CASE /\ \/ poll' = [poll EXCEPT ![p] = Idle]
              \/ poll' = [poll EXCEPT ![p] = Syncing(p, cache, TRUE)]
           /\ UNCHANGED cache
           /\ stage \in Closing <=> stage' \in Closing
  <2>1. poll'[p] = Idle \/ poll'[p] = Syncing(p, cache, TRUE)
    BY <1>0, <1>2
  <2> QED
    BY <1>0, <1>2, <2>1, IdleFacts, FollowOutside, FollowSync, NoAccessStep DEF Begun
<1>3. CASE Returned(p)
  <2>1. poll[p].call # NoCall
    BY <1>0 DEF NoCall
  <2>2. /\ poll'[p].call = NoCall /\ cache' = cache /\ stage' = stage
        /\ poll'[p].block \subseteq poll[p].block /\ poll'[p].list \subseteq poll[p].list
        /\ poll[p].pc = "sync"
    BY <1>0, <1>3, <2>1, ReturnedFacts, PollFacts
  <2>3. FollowInv(p)'
    BY <1>0, <2>2 DEF FollowInv, PollFollows, Begun
  <2> QED
    BY <1>0, <2>2, <2>3, NoAccessStep
<1> QED
  BY <1>0, <1>1, <1>2, <1>3, PollEndsFacts DEF Resume, Thrown, Caught

LEMMA EndFollows ==
  ASSUME NEW p \in Polls, FollowInv(p), TypeInv', Crash \/ Exit
  PROVE  AccessStep /\ FollowInv(p)'
  BY FreshFollows, RestartStep DEF Crash, Exit

LEMMA ShutdownFollows ==
  ASSUME NEW p \in Polls, FollowInv(p), TypeInv', Shutdown \/ Flush \/ Delete
  PROVE  AccessStep /\ FollowInv(p)'
<1>1. /\ stage' \in Closing /\ UNCHANGED <<phase, cache, poll>>
      /\ open' \in {open, {}} /\ rate' \in {rate, [m \in Macs |-> 0]}
  BY ShutdownTypes DEF FollowInv
<1>2. FollowInv(p)'
  BY <1>1 DEF FollowInv, PollFollows, Begun
<1>3. CASE Shutdown
  <2>1. Access!Close
    BY <1>1, <1>3 DEF Shutdown, router, Access!Close
  <2> QED
    BY <1>2, <2>1 DEF AccessStep, Access!Next
<1>4. CASE Flush \/ Delete
  <2>1. Access!TakeDown
    BY <1>1, <1>4 DEF Flush, Delete, Closing, Access!TakeDown
  <2> QED
    BY <1>2, <2>1 DEF AccessStep, Access!Next
<1> QED
  BY <1>3, <1>4

LEMMA FollowInit == ASSUME NEW p \in Polls PROVE Init => Access!Init /\ FollowInv(p)
<1> SUFFICES ASSUME Init PROVE Access!Init /\ FollowInv(p)
  OBVIOUS
<1>1. poll[p] = Idle /\ cache = {}
  BY DEF Init
<1>2. Access!Init
  BY DEF Init, Cloud!Init, Access!Init, Access!Cloud!Init, Closing
<1> QED
  BY <1>1, <1>2, TypeInit, IdleFacts DEF FollowInv, PollFollows, Begun

LEMMA FollowStep ==
  ASSUME NEW p, Polls = {p}
  PROVE  FollowInv(p) /\ [Next]_vars => AccessStep /\ FollowInv(p)'
<1> SUFFICES ASSUME FollowInv(p), [Next]_vars PROVE AccessStep /\ FollowInv(p)'
  OBVIOUS
<1>1. TypeInv' /\ p \in Polls
  BY TypeStep DEF FollowInv
<1>2. CASE UNCHANGED vars
  <2>1. UNCHANGED <<phase, router, cache, poll, stage>>
    BY <1>2 DEF vars
  <2> QED
    BY <1>1, <2>1, NoAccessStep DEF FollowInv, PollFollows, Begun
<1> QED
  BY <1>1, <1>2, CloudFollows, AskFollows, NextFollows, ScriptFollows, ResumeFollows, EndFollows,
     ShutdownFollows
  DEF Next, CloudActs

\* The agent implements VenueAccess for any number of sessions and devices, whatever scripts
\* leave half done and wherever processes end, a shutdown with a poll under way included, as
\* long as one poll ends before the next (agent.ts:38-99,121-125, session-manager.ts:53-103).
THEOREM AgentFollowsList == ASSUME NEW p, Polls = {p} PROVE Spec => AccessFollowsList
<1>1. p \in Polls
  OBVIOUS
<1>2. Init => Access!Init /\ FollowInv(p)
  BY <1>1, FollowInit
<1>3. FollowInv(p) /\ [Next]_vars => [Access!Next]_(Access!vars) /\ FollowInv(p)'
  BY FollowStep DEF AccessStep
<1> QED
  BY <1>2, <1>3, PTL DEF Spec, AccessFollowsList, Access!Spec
=============================================================================
