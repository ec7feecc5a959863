----------------------------- MODULE GatewayAgent -----------------------------
(***************************************************************************)
(* The agent on a venue's router.  Every poll asks the cloud which sessions *)
(* may be online and makes the router agree by running one script per MAC. *)
(* The agent is one JavaScript thread: between two awaits nothing else of   *)
(* it runs, at an await anything may, another poll included, because the    *)
(* interval timer does not wait for the previous poll to end.               *)
(*                                                                         *)
(* The cloud is an environment here: its sessions are those of             *)
(* CloudSessions, and it answers GET /gateway/sessions, or does not.       *)
(***************************************************************************)
EXTENDS Naturals, FiniteSets

CONSTANTS
  Sessions,     \* cloud sessions of the location
  Macs,         \* guest devices
  MacOf,        \* WifiSession.macAddress
  SpeedOf,      \* WifiSession.speedMbps
  Polls,        \* pollOnce invocations that may be under way together
  FailFast,     \* GATEWAY_FAIL_FAST=1
  Outcomes,     \* what becomes of a script: "done", "silent", "refused", "cut"
  MaxRestarts,  \* bound on the ends of the agent process
  None          \* undefined in a Map

ASSUME AgentAssumption ==
  /\ MacOf \in [Sessions -> Macs]
  /\ SpeedOf \in [Sessions -> Nat \ {0}]
  /\ FailFast \in BOOLEAN
  /\ "done" \in Outcomes /\ Outcomes \subseteq {"done", "silent", "refused", "cut"}
  /\ MaxRestarts \in Nat
  /\ None \notin Sessions \cup Macs \cup Polls

VARIABLES
  phase,        \* phase[s]: the cloud's view of session s
  licensed,     \* the tenant's licence allows sessions
  open,         \* the MACs with an ACCEPT rule in chain WIFI_SAAS
  rate,         \* rate[m]: the speed of the tc class MAC m is put in by a CLASSIFY rule,
                \* 0 when it lacks one of the two and is in the default class
  spoiled,      \* history: the MACs whose last script did not do all that was noted of it
  enforced,     \* SessionManager.enforced: MAC -> session, None when absent
  cache,        \* OfflineCache.sessions
  age,          \* OfflineCache.lastSuccessAt: "never", "fresh" or beyond the grace
  poll,         \* the pollOnce invocations
  thread,       \* the poll whose continuation is running, None between continuations
  stage,        \* the process: "starting" until start() returns, "running", "closing" from
                \* SIGTERM on, "flushed" when teardown.sh has emptied the chain, then "closed",
                \* or "kept" when a rule came back before the chain was deleted
  restarts      \* ends of the process so far

Cloud == INSTANCE CloudSessions

\* What scripts change.
router == <<open, rate, spoiled>>

vars == <<phase, licensed, router, enforced, cache, age, poll, thread, stage, restarts>>

Speeds == {SpeedOf[s] : s \in Sessions}

\* No script under way.
NoCall == [op |-> "none", mac |-> None, session |-> None, state |-> "none"]
Idle == [pc |-> "idle", list |-> {}, block |-> {}, call |-> NoCall,
         offline |-> FALSE, orphan |-> FALSE]

Init ==
  /\ Cloud!Init
  /\ licensed = TRUE
  /\ open = {}
  /\ rate = [m \in Macs |-> 0]
  /\ spoiled = {}
  /\ enforced = [m \in Macs |-> None]
  /\ cache = {}
  /\ age = "never"
  /\ poll = [p \in Polls |-> Idle]
  /\ thread = None
  /\ stage = "starting"
  /\ restarts = 0

-----------------------------------------------------------------------------
(* The cloud and time.                                                      *)

Open(s) ==
  /\ Cloud!Open(s)
  /\ UNCHANGED <<licensed, router, enforced, cache, age, poll, thread, stage, restarts>>

Suspend(s) ==
  /\ Cloud!Suspend(s)
  /\ UNCHANGED <<licensed, router, enforced, cache, age, poll, thread, stage, restarts>>

\* expiresAt passes, which the agent sees on its own clock too.
Expire(gone) ==
  /\ Cloud!Expire(gone)
  /\ UNCHANGED <<licensed, router, enforced, cache, age, poll, thread, stage, restarts>>

ChangeLicense ==
  /\ licensed' = ~licensed
  /\ UNCHANGED <<phase, router, enforced, cache, age, poll, thread, stage, restarts>>

\* GATEWAY_OFFLINE_GRACE_MS pass with no successful poll.
GraceRunsOut ==
  /\ age = "fresh"
  /\ age' = "stale"
  /\ UNCHANGED <<phase, licensed, router, enforced, cache, poll, thread, stage, restarts>>

\* GET /gateway/sessions: nothing for a venue without a licence.
Offered == IF licensed THEN {s \in Sessions : phase[s] = "active"} ELSE {}

-----------------------------------------------------------------------------
(* pollOnce and SessionManager.sync.                                        *)

\* The timer fires, whether or not the last poll has ended, until shutdown clears it;
\* the first poll is the one start() awaits.
PollBegin(p) ==
  /\ poll[p].pc = "idle"
  /\ stage \in {"starting", "running"}
  /\ stage = "starting" => \A q \in Polls : poll[q].pc = "idle"
  /\ poll' = [poll EXCEPT ![p] = [@ EXCEPT !.pc = "asking"]]
  /\ UNCHANGED <<phase, licensed, router, enforced, cache, age, thread, stage, restarts>>

\* Heartbeat and session list; the answer is on its way from here on.
CloudAnswers(p) ==
  /\ poll[p].pc = "asking"
  /\ poll' = [poll EXCEPT ![p] = [@ EXCEPT !.pc = "answered", !.list = Offered]]
  /\ UNCHANGED <<phase, licensed, router, enforced, cache, age, thread, stage, restarts>>

\* The synchronous start of sync: drop what has expired on the agent's clock,
\* note which enforced MACs are not in the list.
Active(list) == {s \in list : phase[s] # "due"}
\* A slip: only what has expired on the agent's clock is taken down.
UnlistedWhenDue(list) == {m \in Macs : enforced[m] # None /\ phase[enforced[m]] = "due"}
\* A slip: the session id of the map entry is looked for, not the MAC.
UnlistedBySession(list) == {m \in Macs : enforced[m] # None /\ enforced[m] \notin Active(list)}
Unlisted(list) == {m \in Macs : enforced[m] # None /\ \A s \in Active(list) : MacOf[s] # m}
Syncing(p, list, offline) ==
  [poll[p] EXCEPT !.pc = "sync", !.list = Active(list), !.block = Unlisted(list),
                  !.call = NoCall, !.offline = offline, !.orphan = FALSE]

\* The list arrives: markSuccess, then sync.
SyncBegin(p) ==
  /\ thread = None
  /\ poll[p].pc = "answered"
  /\ thread' = p
  /\ cache' = poll[p].list
  /\ age' = "fresh"
  /\ poll' = [poll EXCEPT ![p] = Syncing(p, poll[p].list, FALSE)]
  /\ UNCHANGED <<phase, licensed, router, enforced, stage, restarts>>

\* The process is gone and procd or systemd starts a new one: the maps are empty,
\* the router keeps its rules.
FreshProcess ==
  /\ restarts < MaxRestarts
  /\ restarts' = restarts + 1
  /\ enforced' = [m \in Macs |-> None]
  /\ cache' = {}
  /\ age' = "never"
  /\ poll' = [p \in Polls |-> Idle]
  /\ thread' = None
  /\ stage' = "starting"

\* An exception leaves pollOnce.  The interval logs it; start() passes it on and
\* the process exits.
Thrown(p) ==
  IF stage # "starting"
  THEN /\ poll' = [poll EXCEPT ![p] = Idle]
       /\ thread' = None
       /\ UNCHANGED <<enforced, cache, age, stage, restarts>>
  ELSE FreshProcess

\* pollOnce returns; the first time start() does too.
PollEnds(p) ==
  /\ poll' = [poll EXCEPT ![p] = Idle]
  /\ thread' = None
  /\ stage' = IF stage = "starting" THEN "running" ELSE stage

\* The catch block: enforce the cache while it is within the grace.
CacheUsable == cache # {} /\ age = "fresh"

Caught(p) ==
  IF CacheUsable
  THEN /\ poll' = [poll EXCEPT ![p] = Syncing(p, cache, TRUE)]
       /\ thread' = p
       /\ UNCHANGED stage
  ELSE PollEnds(p)

CloudUnreachable(p) ==
  /\ thread = None
  /\ poll[p].pc = "asking"
  /\ Caught(p)
  /\ UNCHANGED <<phase, licensed, router, enforced, cache, age, restarts>>

\* sync reaches an await: a script is started and the thread is free.
Await(p, op, m, s) ==
  /\ poll' = [poll EXCEPT ![p] =
                [@ EXCEPT !.call = [op |-> op, mac |-> m, session |-> s, state |-> "running"],
                          !.orphan = FALSE]]
  /\ thread' = None

BlockNext(p) ==
  /\ thread = p
  /\ \E m \in poll[p].block : Await(p, "block", m, None)
  /\ UNCHANGED <<phase, licensed, router, enforced, cache, age, stage, restarts>>

\* existing.speedMbps !== session.speedMbps; a slip: only the session id is compared.
SameSpeedAlways(known, s) == TRUE
SameSpeed(known, s) == SpeedOf[known] = SpeedOf[s]

\* The cloud returns its list in no particular order.
AllowNext(p) ==
  /\ thread = p
  /\ poll[p].block = {}
  /\ \E s \in poll[p].list :
       LET known == enforced[MacOf[s]] IN
       \/ /\ known = None
          /\ Await(p, "allow", MacOf[s], s)
          /\ UNCHANGED enforced
       \/ /\ known # None
          /\ ~SameSpeed(known, s)
          /\ Await(p, "shape", MacOf[s], s)
          /\ UNCHANGED enforced
       \/ /\ known # None
          /\ SameSpeed(known, s)
          /\ enforced' = [enforced EXCEPT ![MacOf[s]] = s]
          /\ poll' = [poll EXCEPT ![p] = [@ EXCEPT !.list = poll[p].list \ {s}]]
          /\ UNCHANGED thread
  /\ UNCHANGED <<phase, licensed, router, cache, age, stage, restarts>>

\* A slip: sync ends and its continuation is still taken to run.
SyncEndKeepsThread(p) ==
  /\ thread = p
  /\ poll[p].block = {} /\ poll[p].list = {}
  /\ poll' = [poll EXCEPT ![p] = Idle]
  /\ stage' = IF stage = "starting" THEN "running" ELSE stage
  /\ UNCHANGED <<phase, licensed, router, enforced, cache, age, thread, restarts>>

SyncEnd(p) ==
  /\ thread = p
  /\ poll[p].block = {} /\ poll[p].list = {}
  /\ PollEnds(p)
  /\ UNCHANGED <<phase, licensed, router, enforced, cache, age, restarts>>

-----------------------------------------------------------------------------
(* One script on the router.  It does all its work ("done"), or exits 0 with   *)
(* any part of it done ("silent": no set -e), or exits non-zero before it      *)
(* touched anything ("refused"), or is killed by the timeout with any part of  *)
(* it done ("cut").  A script that outlives the process ends before the next   *)
(* one starts: its step is then taken before the end of the process.           *)

Failing == {"refused", "cut"}

\* allow-mac.sh, block-mac.sh and shape-mac.sh on the ACCEPT rule of one MAC ...
Accepting(call) ==
  CASE call.op = "block" -> open \ {call.mac}
    [] call.op = "allow" -> open \cup {call.mac}
    [] call.op = "shape" -> open

\* ... and on its class: shape-mac.sh adds a missing class but no CLASSIFY rule.
Shaping(call) ==
  IF call.op = "block" THEN {[rate EXCEPT ![call.mac] = 0]}
  ELSE {[rate EXCEPT ![call.mac] = SpeedOf[call.session]]}
         \cup {same \in {rate} : call.op = "shape" /\ rate[call.mac] = 0}

\* teardown.sh has deleted the qdisc, and the chain unless it is "kept".
Whole(call) ==
  /\ stage \notin {"kept", "closed"}
  /\ open' = Accepting(call)
  /\ rate' \in Shaping(call)

Part(call) ==
  /\ open' = open \/ (stage # "closed" /\ open' = Accepting(call))
  /\ rate' = rate \/ (stage \notin {"kept", "closed"} /\ rate' \in Shaping(call))

\* allow and block write the whole rule, shape only its class; a refusal that is
\* passed on is not noted in the map.
Spoiled(call, outcome) ==
  CASE outcome = "done" -> IF call.op = "shape" THEN spoiled ELSE spoiled \ {call.mac}
    [] outcome = "refused" /\ FailFast -> spoiled
    [] OTHER -> spoiled \cup {call.mac}

\* An error that would end one process too many is not explored.
MayFail == stage # "starting" \/ ~FailFast \/ restarts < MaxRestarts

Script(p, outcome) ==
  LET call == poll[p].call IN
  /\ call.state = "running"
  /\ outcome \in Failing => MayFail
  /\ CASE outcome = "done" -> Whole(call)
       [] outcome = "refused" -> UNCHANGED <<open, rate>>
       [] OTHER -> Part(call)
  /\ spoiled' = Spoiled(call, outcome)
  /\ poll' = [poll EXCEPT ![p] = [@ EXCEPT !.call =
                [call EXCEPT !.state = IF outcome \in Failing THEN "failed" ELSE "ok"]]]
  /\ UNCHANGED <<phase, licensed, enforced, cache, age, thread, stage, restarts>>

RunScript(p) == \E outcome \in Outcomes : Script(p, outcome)

\* The map entry of mac is removed or replaced: a shape of another poll that is
\* still awaited will write to the old entry.
Orphaned(q, mac) == [poll[q] EXCEPT !.orphan = @ \/ poll[q].call.mac = mac]

\* What sync notes in the enforced map when the await of the script returns.
\* A slip: the entry of a blocked MAC is kept.
NotedKeepingBlocked(call, orphan) ==
  IF call.op = "block" \/ orphan THEN enforced ELSE [enforced EXCEPT ![call.mac] = call.session]
\* A call of op "block" has session None, so the same assignment deletes its entry.
Noted(call, orphan) ==
  IF orphan THEN enforced ELSE [enforced EXCEPT ![call.mac] = call.session]

\* Without GATEWAY_FAIL_FAST the driver has swallowed a failure, and sync goes on
\* as if the rule were there.
Returned(p) ==
  LET call == poll[p].call
      after == IF call.op = "shape" THEN poll ELSE [q \in Polls |-> Orphaned(q, call.mac)]
  IN
  /\ thread' = p
  /\ enforced' = Noted(call, call.op = "shape" /\ poll[p].orphan)
  /\ poll' = [after EXCEPT ![p] = [poll[p] EXCEPT !.call = NoCall,
                                                  !.block = @ \ {m \in {call.mac} : call.op = "block"},
                                                  !.list = @ \ {call.session}]]
  /\ UNCHANGED <<cache, age, stage, restarts>>

\* What a driver, of OpenWrt or of MikroTik, makes of a script that failed.
Throws(call) == call.state = "failed" /\ FailFast

Resume(p) ==
  /\ thread = None
  /\ poll[p].call.state \in {"ok", "failed"}
  /\ IF Throws(poll[p].call)
     THEN IF poll[p].offline
          THEN Thrown(p)
          ELSE Caught(p) /\ UNCHANGED <<enforced, cache, age, restarts>>
     ELSE Returned(p)
  /\ UNCHANGED <<phase, licensed, router>>

-----------------------------------------------------------------------------
(* The end of the process.                                                  *)

\* Killed, or SIGTERM before the handlers are set.
Crash == FreshProcess /\ UNCHANGED <<phase, licensed, router>>

\* SIGTERM: the timers are cleared and teardown.sh is awaited; a poll under way goes
\* on meanwhile, and so does its script.
Shutdown ==
  /\ stage = "running"
  /\ restarts < MaxRestarts
  /\ stage' = "closing"
  /\ UNCHANGED <<phase, licensed, router, enforced, cache, age, poll, thread, restarts>>

\* teardown.sh unlinks and empties the chain ...
Flush ==
  /\ stage = "closing"
  /\ stage' = "flushed"
  /\ open' = {}
  /\ UNCHANGED <<phase, licensed, rate, spoiled, enforced, cache, age, poll, thread, restarts>>

\* ... and deletes it, if it is still empty, and the qdisc with every class.
Delete ==
  /\ stage = "flushed"
  /\ stage' = IF open = {} THEN "closed" ELSE "kept"
  /\ rate' = [m \in Macs |-> 0]
  /\ UNCHANGED <<phase, licensed, open, spoiled, enforced, cache, age, poll, thread, restarts>>

\* teardown.sh has ended, or failed, or met its timeout: process.exit.
Closing == {"closing", "flushed", "kept", "closed"}
Exit ==
  /\ stage \in Closing
  /\ FreshProcess
  /\ UNCHANGED <<phase, licensed, router>>

Next ==
  \/ \E s \in Sessions : Open(s) \/ Suspend(s)
  \/ \E gone \in SUBSET Sessions : Expire(gone)
  \/ ChangeLicense
  \/ GraceRunsOut
  \/ \E p \in Polls :
       \/ PollBegin(p) \/ CloudAnswers(p) \/ CloudUnreachable(p) \/ SyncBegin(p)
       \/ BlockNext(p) \/ AllowNext(p) \/ SyncEnd(p)
       \/ RunScript(p) \/ Resume(p)
  \/ Crash
  \/ Shutdown
  \/ Flush
  \/ Delete
  \/ Exit

Spec == Init /\ [][Next]_vars

Continue(p) ==
  SyncBegin(p) \/ BlockNext(p) \/ AllowNext(p) \/ SyncEnd(p) \/ Resume(p)
RunsWell(p) == Script(p, "done")

\* The timer keeps firing, the thread runs what is ready, of the requests and scripts
\* tried again and again some get through, and the timeout ends the wait for teardown.sh.
Fairness ==
  /\ \A p \in Polls :
       /\ WF_vars(PollBegin(p))
       /\ SF_vars(CloudAnswers(p))
       /\ SF_vars(Continue(p))
       /\ SF_vars(RunsWell(p))
  /\ WF_vars(Exit)

FairSpec == Spec /\ Fairness

-----------------------------------------------------------------------------
(* Properties.                                                              *)

Calls ==
  [op : {"allow", "shape"}, mac : Macs, session : Sessions, state : {"running", "ok", "failed"}]
    \cup [op : {"block"}, mac : Macs, session : {None}, state : {"running", "ok", "failed"}]
    \cup {NoCall}
PollStates ==
  [pc : {"idle", "asking", "answered", "sync"}, list : SUBSET Sessions, block : SUBSET Macs,
   call : Calls, offline : BOOLEAN, orphan : BOOLEAN]

\* Every variable holds a value of its type, and the running continuation is one
\* of a sync that waits for no script (session-manager.ts:53-103).
TypeOK ==
  /\ phase \in [Sessions -> {"none", "active", "suspended", "due"}]
  /\ licensed \in BOOLEAN
  /\ open \subseteq Macs
  /\ rate \in [Macs -> Speeds \cup {0}]
  /\ spoiled \subseteq Macs
  /\ enforced \in [Macs -> Sessions \cup {None}]
  /\ cache \subseteq Sessions
  /\ age \in {"never", "fresh", "stale"}
  /\ poll \in [Polls -> PollStates]
  /\ thread \in Polls \cup {None}
  /\ thread # None => poll[thread].pc = "sync" /\ poll[thread].call = NoCall
  /\ stage \in {"starting", "running"} \cup Closing
  /\ restarts \in 0..MaxRestarts

\* A rule on the router is one the agent knows of, or is about to know of, unless a script
\* spoiled it: only MACs in the enforced map are ever blocked (session-manager.ts:59-66).
RuleIsKnown ==
  \A m \in Macs \ spoiled : m \in open \/ rate[m] # 0 =>
    enforced[m] # None \/ \E p \in Polls : poll[p].call.mac = m

\* The router has a cached session's rule for a MAC, or none when all its sessions are over.
RouterIsAsListed ==
  \A m \in Macs \ spoiled :
    LET listed == {s \in cache : MacOf[s] = m} IN
    \/ m \in open /\ rate[m] \in {SpeedOf[s] : s \in listed}
    \/ m \notin open /\ rate[m] = 0 /\ \A s \in listed : phase[s] = "due"
SyncEndsAsListed ==
  \A p \in Polls : thread = p /\ poll'[p].pc = "idle" => RouterIsAsListed

\* When a sync ends, the router lets through exactly the MACs of the list the
\* agent has cached, less what expired meanwhile, each at a speed of that list, but for
\* rules that a script spoiled (agent.ts:73-75, session-manager.ts:53-103).
SyncMakesRouterAgree == [][SyncEndsAsListed]_vars

\* The map has an entry for a device whose rule a script spoiled: the next sync takes the
\* entry for the rule.
Mistaken(m) == m \in spoiled /\ enforced[m] # None

\* A listed session that still runs has its device on the router, at the speed of one of
\* the device's sessions in the list.
ListedIsServed ==
  \A s \in cache : phase[s] # "due" /\ ~Mistaken(MacOf[s]) =>
    /\ MacOf[s] \in open
    /\ rate[MacOf[s]] \in {SpeedOf[t] : t \in {u \in cache : MacOf[u] = MacOf[s]}}
SyncEndsServing ==
  \A p \in Polls : thread = p /\ poll'[p].pc = "idle" /\ stage' = "running" => ListedIsServed

\* When a sync of a process that is not shutting down ends, every guest of the cached list
\* is online at a listed speed, whatever an earlier process left on the router, and whatever
\* became of scripts whose failure the map does not hide
\* (agent.ts:73-99, session-manager.ts:53-103).
SyncServesListed == [][SyncEndsServing]_vars

Access == INSTANCE VenueAccess WITH listed <- cache, closing <- (stage \in Closing)

\* The agent keeps what the venue promises: only a session of the cached list lets a guest
\* through or gives it a speed, and only a guest without a running session in it is shut
\* out or slowed down, unless the agent is shutting down, whatever scripts leave half done
\* and wherever processes end (agent.ts:38-99,121-125, session-manager.ts:53-103).
AccessFollowsList == Access!Spec

\* Whoever is let through has a session that has begun, if not still running, and a speed
\* given to a device is that of such a session, also when polls overlap or go on during a
\* shutdown, and scripts and processes end half way
\* (agent.ts:38-99,121-125, session-manager.ts:53-103).
OnlySoldIsOnline ==
  \A m \in Macs :
    LET begun == {s \in Sessions : MacOf[s] = m /\ phase[s] # "none"} IN
    /\ m \in open => begun # {}
    /\ rate[m] # 0 => \E s \in begun : SpeedOf[s] = rate[m]

Entitled(m) == licensed /\ \E s \in Sessions : phase[s] = "active" /\ MacOf[s] = m

\* A guest whose time or licence is over, or who is suspended, is taken off the
\* router ("access blocked on next poll", openwrt-venue-pilot.md:222).
OverEventuallyBlocked ==
  \A m \in Macs : (m \in open /\ ~Entitled(m)) ~> (m \notin open \/ Entitled(m))

\* A guest with an active session gets on the router, unless the map takes a rule for
\* whole that a script spoiled (agent.ts:73-75).
PaidEventuallyOnline ==
  \A m \in Macs : Entitled(m) ~> (m \in open \/ ~Entitled(m) \/ Mistaken(m))

\* The speed of a guest's only active session becomes the speed on the router,
\* whatever session of the same device was there before (session-manager.ts:86-99).
OnlySession(s) ==
  /\ licensed /\ phase[s] = "active"
  /\ \A t \in Sessions : phase[t] = "active" /\ MacOf[t] = MacOf[s] => t = s
SpeedApplies(s) == MacOf[s] \in open /\ rate[MacOf[s]] = SpeedOf[s]
PlanSpeedApplies ==
  \A s \in Sessions : OnlySession(s) ~> (SpeedApplies(s) \/ ~OnlySession(s))
=============================================================================
