------------------------------ MODULE Services ------------------------------
(***************************************************************************)
(* The other paid endpoints of the Coordinator Durable Object: inventions  *)
(* (improvise.ts), generated proposals (generated.ts), commentaries        *)
(* (runtime-commentary.ts) and speech (runtime-tts.ts), with the quota on  *)
(* new runs and the one cleanup alarm they share (coordinator-do.ts).      *)
(*                                                                         *)
(* Inventions and proposals are paid for once a pair, and take a rate slot *)
(* of the same list before their body is read; commentaries and speech are *)
(* paid for every time, and reserve everything at once.  As in Narrator a  *)
(* body given to a SerialGate is one step; the clock an invention reads    *)
(* before its gate is the clock of that step, for nothing but such bodies  *)
(* comes between.                                                          *)
(***************************************************************************)
EXTENDS Metering, FiniteSets

CONSTANTS
  Ips,             \* hashes of client addresses
  Pairs,           \* canonical pairs in an act
  Requests,        \* slots for requests being served at the same time
  Window,          \* rate list -> rateLimitWindowMs
  RateMax,         \* rate list -> rateLimitMax
  NarratorWindow,  \* the narrator's own rateLimitWindowMs
  DailyMax,        \* service -> dailyMax
  DailyMaxPerIp,   \* service -> dailyMaxPerIp
  CacheMaxAge,     \* CACHE_MAX_AGE_MS
  StatsMaxAge,     \* STATS_MAX_AGE_MS, IMPROVISE_STATS_MAX_AGE_MS
  CleanupInterval, \* CLEANUP_INTERVAL_MS
  QuotaWindow,     \* RUN_CREATE_WINDOW_MS
  QuotaMax,        \* RUN_CREATE_MAX_GLOBAL
  QuotaMaxPerIp,   \* RUN_CREATE_MAX_PER_IP
  Served,          \* the services that requests come for
  Sweeps,          \* bound: the sweeps an alarm may come to, of 11
  Arrivals,        \* bound: requests in a behaviour
  None             \* no service, no ip, no pair

Shared == {"improvise", "generated"}
Single == {"commentary", "tts"}
Services == Shared \cup Single

\* The lists of rate stamps: a proposal takes its slot from the inventions'.
Lists == {"improvise"} \cup Single
ListOf(s) == IF s \in Shared THEN "improvise" ELSE s

\* The first sweep of the alarm goes over the lists of commentaries and speech
\* with the narrator's window: it must not be the shorter one (wrangler.toml
\* gives all of them the same).  No window is empty (toPositiveInt()).
ASSUME WindowAssumption ==
  /\ NarratorWindow \in Nat \ {0}
  /\ Window \in [Lists -> Nat \ {0}]
  /\ \A s \in Single : Window[s] <= NarratorWindow

ASSUME LimitsAssumption ==
  /\ IsFiniteSet(Ips)
  /\ RateMax \in [Lists -> Nat]
  /\ DailyMax \in [Services -> Nat]
  /\ DailyMaxPerIp \in [Services -> Nat]
  /\ QuotaWindow \in Nat \ {0}
  /\ QuotaMax \in Nat
  /\ QuotaMaxPerIp \in Nat

ASSUME ServedAssumption == Served \subseteq Services /\ Sweeps \subseteq 0 .. 11

VARIABLES
  now,
  \* Durable storage.
  rl,        \* "rl:<list>:<ip>"
  cache,     \* "improv-cache:<pair>", "generated-cache:<pair>": createdAt
  budget,    \* "budget:<service>"
  ipBudget,  \* "budget:<service>:ip:<ip>"
  stats,     \* "improv-stats:<pair>"
  tally,     \* "stats:runtime-<service>:v1"
  quota,     \* "quota:run-create:v1"
  alarm,
  \* The object's memory.
  inFlight,  \* the two InFlightRegistries: when the call under way was asked for
  req,
  \* History, written by no code.
  granted,   \* slots handed out in the last Window ticks
  calls,     \* calls started, by service and the date charged to the world
  ipCalls,   \* ... and by the address
  created,   \* runs let through in the last QuotaWindow ticks
  arrived

stored == <<rl, cache, budget, ipBudget, stats, tally, quota>>
charged == <<calls, ipCalls>>
history == <<granted, charged, created>>
vars == <<now, stored, alarm, inFlight, req, history, arrived>>

NoStats == [upstreamCalls |-> 0, lastSeen |-> Never]
NoTally == [accepted |-> 0, rejected |-> 0, failed |-> 0, lastSeen |-> Never]
NoCalls == [s \in Shared |-> [k \in Pairs |-> Never]]
NoQuota == [global |-> NoStamps, perIp |-> [i \in Ips |-> NoStamps]]
Idle == [pc |-> "idle", service |-> None, ip |-> None, pair |-> None]

Init ==
  /\ now = 0
  /\ rl = [l \in Lists |-> [i \in Ips |-> NoStamps]]
  /\ cache = [s \in Shared |-> [k \in Pairs |-> Never]]
  /\ budget = [s \in Services |-> NoRecord]
  /\ ipBudget = [s \in Services |-> [i \in Ips |-> NoRecord]]
  /\ stats = [k \in Pairs |-> NoStats]
  /\ tally = [s \in Single |-> NoTally]
  /\ quota = NoQuota
  /\ alarm = Never
  /\ inFlight = NoCalls
  /\ req = [r \in Requests |-> Idle]
  /\ granted = [l \in Lists |-> [i \in Ips |-> NoStamps]]
  /\ calls = [s \in Services |-> [d \in Days |-> 0]]
  /\ ipCalls = [s \in Services |-> [i \in Ips |-> [d \in Days |-> 0]]]
  /\ created = [i \in Ips |-> NoStamps]
  /\ arrived = 0

-----------------------------------------------------------------------------
(* fetch(): every request sees to the alarm. *)

ScheduleCleanup ==
  alarm' = IF alarm = Never THEN now + CleanupInterval ELSE alarm

Arrive ==
  /\ arrived < Arrivals
  /\ arrived' = arrived + 1
  /\ ScheduleCleanup

SlotFree(l, i) == WindowOpen(rl[l][i], now, Window[l], RateMax[l])

GrantSlot(l, i) ==
  /\ rl' = [rl EXCEPT ![l][i] = TakeSlot(@, now, Window[l])]
  /\ granted' = [granted EXCEPT ![l][i][now] = @ + 1]

Reading(r, s, i) ==
  req' = [req EXCEPT ![r] = [pc |-> "reading", service |-> s, ip |-> i, pair |-> None]]

\* handleImprovise() and handleGenerated() take a slot before they read the
\* body; handleRuntimeCommentary() and handleRuntimeTts() read it first.
Receive(r, s, i) ==
  /\ Arrive
  /\ req[r] = Idle
  /\ Reading(r, s, i)
  /\ \/ s \in Shared /\ SlotFree(ListOf(s), i) /\ GrantSlot(ListOf(s), i)
     \/ s \in Single /\ UNCHANGED <<rl, granted>>
  /\ UNCHANGED <<now, cache, budget, ipBudget, stats, tally, quota, inFlight, charged, created>>

\* 429 before the body is read.
Limited(s, i) ==
  /\ Arrive
  /\ s \in Shared
  /\ ~ SlotFree(ListOf(s), i)
  /\ UNCHANGED <<now, stored, inFlight, req, history>>

Finish(r) == req' = [req EXCEPT ![r] = Idle]

\* 415 or 400: what was sent is not a request of the service.
BadBody(r) ==
  /\ req[r].pc = "reading"
  /\ Finish(r)
  /\ UNCHANGED <<now, stored, alarm, inFlight, history, arrived>>

-----------------------------------------------------------------------------
(* Money: the world's record and the address's, each asked before either   *)
(* is written.                                                             *)

WorldHasRoom(s) == HasRoom(budget[s], now, DailyMax[s])
IpHasRoom(s, i) == HasRoom(ipBudget[s][i], now, DailyMaxPerIp[s])
CanPay(s, i) == WorldHasRoom(s) /\ IpHasRoom(s, i)

ChargeWorld(s) == budget' = [budget EXCEPT ![s] = Reserved(@, now)]
ChargeIp(s, i) == ipBudget' = [ipBudget EXCEPT ![s][i] = Reserved(@, now)]

CountCall(s, i) ==
  /\ calls' = [calls EXCEPT ![s][DateOf(now)] = @ + 1]
  /\ ipCalls' = [ipCalls EXCEPT ![s][i][DateOf(now)] = @ + 1]

-----------------------------------------------------------------------------
(* decideImprovise() and decideGeneratedSelection(). *)

\* Only inventions keep statistics of their pairs.
RecordStats(s, k, outcome) ==
  stats' = IF s = "generated" THEN stats
           ELSE [stats EXCEPT ![k] =
                   [upstreamCalls |-> @.upstreamCalls + (IF outcome = "upstream" THEN 1 ELSE 0),
                    lastSeen |-> now]]

DecidingPair(r) == req[r].pc = "reading" /\ req[r].service \in Shared

CacheHit(r, k) ==
  LET s == req[r].service IN
  /\ DecidingPair(r)
  /\ cache[s][k] # Never
  /\ RecordStats(s, k, "hit")
  /\ Finish(r)
  /\ UNCHANGED <<now, rl, cache, budget, ipBudget, tally, quota, alarm, inFlight, history, arrived>>

JoinInFlight(r, k) ==
  LET s == req[r].service IN
  /\ DecidingPair(r)
  /\ cache[s][k] = Never
  /\ inFlight[s][k] # Never
  /\ RecordStats(s, k, "other")
  /\ req' = [req EXCEPT ![r].pc = "waiting", ![r].pair = k]
  /\ UNCHANGED <<now, rl, cache, budget, ipBudget, tally, quota, alarm, inFlight, history, arrived>>

Miss(r, k) ==
  /\ DecidingPair(r)
  /\ cache[req[r].service][k] = Never
  /\ inFlight[req[r].service][k] = Never

\* 503 or 429: the day is used up, for everyone or for this address.
CannotPay(r, k) ==
  LET s == req[r].service IN
  /\ Miss(r, k)
  /\ ~ CanPay(s, req[r].ip)
  /\ RecordStats(s, k, "other")
  /\ Finish(r)
  /\ UNCHANGED <<now, rl, cache, budget, ipBudget, tally, quota, alarm, inFlight, history, arrived>>

StartShared(r, k) ==
  LET s == req[r].service IN
  /\ Miss(r, k)
  /\ CanPay(s, req[r].ip)
  /\ ChargeWorld(s)
  /\ ChargeIp(s, req[r].ip)
  /\ RecordStats(s, k, "upstream")
  /\ inFlight' = [inFlight EXCEPT ![s][k] = now]
  /\ req' = [req EXCEPT ![r].pc = "waiting", ![r].pair = k]
  /\ CountCall(s, req[r].ip)
  /\ UNCHANGED <<now, rl, cache, tally, quota, alarm, granted, created, arrived>>

AnswerAll(s, k) ==
  req' = [r \in Requests |->
            IF req[r].pc = "waiting" /\ req[r].service = s /\ req[r].pair = k
              THEN Idle ELSE req[r]]

\* 200 for every request that shares the call; the cache says when it was asked for.
SharedOk(s, k) ==
  /\ inFlight[s][k] # Never
  /\ cache' = [cache EXCEPT ![s][k] = inFlight[s][k]]
  /\ inFlight' = [inFlight EXCEPT ![s][k] = Never]
  /\ AnswerAll(s, k)
  /\ UNCHANGED <<now, rl, budget, ipBudget, stats, tally, quota, alarm, history, arrived>>

\* 502, or 504 of a proposal that took four seconds: the call is paid for.
SharedFailed(s, k) ==
  /\ inFlight[s][k] # Never
  /\ inFlight' = [inFlight EXCEPT ![s][k] = Never]
  /\ AnswerAll(s, k)
  /\ UNCHANGED <<now, stored, alarm, granted, calls, ipCalls, created, arrived>>

-----------------------------------------------------------------------------
(* decideRuntimeCommentary() and decideRuntimeTts(). *)

DecidingSingle(r) == req[r].pc = "reading" /\ req[r].service \in Single

Admitted(r) ==
  LET s == req[r].service IN
  /\ DecidingSingle(r)
  /\ SlotFree(s, req[r].ip)
  /\ CanPay(s, req[r].ip)

\* 429 or 503: nothing is written unless all three would be.
Refused(r) ==
  /\ DecidingSingle(r)
  /\ ~ Admitted(r)
  /\ Finish(r)
  /\ UNCHANGED <<now, stored, alarm, inFlight, history, arrived>>

StartSingle(r) ==
  LET s == req[r].service IN
  /\ Admitted(r)
  /\ GrantSlot(s, req[r].ip)
  /\ ChargeWorld(s)
  /\ ChargeIp(s, req[r].ip)
  /\ req' = [req EXCEPT ![r].pc = "calling"]
  /\ CountCall(s, req[r].ip)
  /\ UNCHANGED <<now, cache, stats, tally, quota, alarm, inFlight, created, arrived>>

\* Of speech nothing is ever rejected: there is no text to judge.
Outcomes(s) == {"accepted", "failed"} \cup (IF s = "commentary" THEN {"rejected"} ELSE {})

\* The call is over and the second body of the gate has counted it.
EndSingle(r, outcome) ==
  LET s == req[r].service IN
  /\ req[r].pc = "calling"
  /\ outcome \in Outcomes(s)
  /\ tally' = [tally EXCEPT ![s][outcome] = @ + 1, ![s].lastSeen = now]
  /\ Finish(r)
  /\ UNCHANGED <<now, rl, cache, budget, ipBudget, stats, quota, alarm, inFlight, history, arrived>>

-----------------------------------------------------------------------------
(* handleRunCreateReserve(): a slot for a new run, of an address and of     *)
(* the world.  It is not given back when the run cannot be stored.          *)

Quota(stamps) == PruneWindow(stamps, now, QuotaWindow)

QuotaOpen(i) ==
  /\ SumFunction(Quota(quota.perIp[i])) < QuotaMaxPerIp
  /\ SumFunction(Quota(quota.global)) < QuotaMax

CreateRun(i) ==
  /\ Arrive
  /\ QuotaOpen(i)
  /\ quota' = [global |-> TakeSlot(quota.global, now, QuotaWindow),
               perIp |-> [quota.perIp EXCEPT ![i] = TakeSlot(@, now, QuotaWindow)]]
  /\ created' = [created EXCEPT ![i][now] = @ + 1]
  /\ UNCHANGED <<now, rl, cache, budget, ipBudget, stats, tally, inFlight, req, granted, charged>>

RefuseRun(i) ==
  /\ Arrive
  /\ ~ QuotaOpen(i)
  /\ UNCHANGED <<now, stored, inFlight, req, history>>

-----------------------------------------------------------------------------
(* alarm(), in its order; the narrator's own keys are Narrator's. *)

\* Mutant: the inventions' list is not left out of the first sweep.
EveryList == Lists

\* The lists under "rl:" that the narrator's window is applied to.
FirstSwept == Lists \ {"improvise"}

\* Which of the sweeps a list has to itself, and the records of the addresses;
\* the proposals' are never swept.
SweptAt == [improvise |-> 4, commentary |-> 8, tts |-> 10]
PaidUpAt == [improvise |-> 6, commentary |-> 9, tts |-> 11]

SweepRates(sweeps) ==
  LET Gone(l, i) ==
        \/ l \in FirstSwept /\ sweeps >= 1 /\ StaleStamps(rl[l][i], now, NarratorWindow)
        \/ sweeps >= SweptAt[l] /\ StaleStamps(rl[l][i], now, Window[l])
  IN  rl' = [l \in Lists |-> [i \in Ips |-> IF Gone(l, i) THEN NoStamps ELSE rl[l][i]]]

SweepIpBudgets(sweeps) ==
  LET Gone(s, i) ==
        s \in DOMAIN PaidUpAt /\ sweeps >= PaidUpAt[s] /\ StaleDate(ipBudget[s][i], now)
  IN  ipBudget' = [s \in Services |->
                     [i \in Ips |-> IF Gone(s, i) THEN NoRecord ELSE ipBudget[s][i]]]

\* Mutant: the record goes as soon as one of its stamps is old.
QuotaHasAged == AnyStampStale(quota.global, now, QuotaWindow)

QuotaIsOld == StaleStamps(quota.global, now, QuotaWindow)

SweepQuota ==
  IF QuotaIsOld THEN NoQuota
  ELSE [global |-> Quota(quota.global), perIp |-> [i \in Ips |-> Quota(quota.perIp[i])]]

\* The tallies lie under the prefix of the narrator's statistics.
SweepTally == [s \in Single |-> IF Expired(tally[s].lastSeen, now, StatsMaxAge)
                                  THEN NoTally ELSE tally[s]]

\* Only inventions carry a creation time: a proposal is kept for ever.
OldInventions == {k \in Pairs : Expired(cache["improvise"][k], now, CacheMaxAge)}

Without(ofPair, pairs, gone) == [k \in Pairs |-> IF k \in pairs THEN gone ELSE ofPair[k]]

OldStats == {k \in Pairs : Expired(stats[k].lastSeen, now, StatsMaxAge)}

\* A storage error ends the alarm after any number of sweeps; the next one is
\* set either way.
Cleanup(sweeps) ==
  /\ alarm # Never
  /\ now >= alarm
  /\ SweepRates(sweeps)
  /\ quota' = IF sweeps >= 2 THEN SweepQuota ELSE quota
  /\ tally' = IF sweeps >= 3 THEN SweepTally ELSE tally
  /\ IF sweeps >= 5
       THEN cache' = [cache EXCEPT !["improvise"] = Without(@, OldInventions, Never)]
       ELSE UNCHANGED cache
  /\ SweepIpBudgets(sweeps)
  /\ stats' = IF sweeps >= 7 THEN Without(stats, OldStats, NoStats) ELSE stats
  /\ alarm' = now + CleanupInterval
  /\ UNCHANGED <<now, budget, inFlight, req, granted, calls, ipCalls, created, arrived>>

-----------------------------------------------------------------------------
(* The platform. *)

ForgetMemory ==
  /\ inFlight' = NoCalls
  /\ req' = [r \in Requests |-> Idle]

Evict ==
  /\ \E r \in Requests : req[r] # Idle
  /\ ForgetMemory
  /\ UNCHANGED <<now, stored, alarm, granted, calls, ipCalls, created, arrived>>

\* Evicted between the writes of a reservation: the world has paid for a call
\* that is never made, and an address only if the second write was done.
EvictWhileCharging(r, both) ==
  LET s == req[r].service IN
  /\ Admitted(r) \/ \E k \in Pairs : Miss(r, k) /\ CanPay(s, req[r].ip)
  /\ IF s \in Single
       THEN GrantSlot(s, req[r].ip) ELSE UNCHANGED <<rl, granted>>
  /\ ChargeWorld(s)
  /\ IF both THEN ChargeIp(s, req[r].ip) ELSE UNCHANGED ipBudget
  /\ ForgetMemory
  /\ UNCHANGED <<now, cache, stats, tally, quota, alarm, calls, ipCalls, created, arrived>>

\* Evicted after the first write of one that takes its slot with the money: the
\* address has spent a slot and nobody has paid.
EvictAfterSlot(r) ==
  /\ Admitted(r)
  /\ GrantSlot(req[r].service, req[r].ip)
  /\ ForgetMemory
  /\ UNCHANGED <<now, cache, budget, ipBudget, stats, tally, quota, alarm, charged, created, arrived>>

InWindow(stamps, window) == [i \in Ips |-> PruneWindow(stamps[i], now + 1, window)]

Tick ==
  /\ now < Horizon
  /\ now' = now + 1
  /\ granted' = [l \in Lists |-> InWindow(granted[l], Window[l])]
  /\ created' = InWindow(created, QuotaWindow)
  /\ UNCHANGED <<stored, alarm, inFlight, req, charged, arrived>>

-----------------------------------------------------------------------------
Next ==
  \/ \E r \in Requests, s \in Served, i \in Ips : Receive(r, s, i)
  \/ \E s \in Served, i \in Ips : Limited(s, i)
  \/ \E r \in Requests : BadBody(r) \/ Refused(r) \/ StartSingle(r)
  \/ \E r \in Requests, k \in Pairs :
       CacheHit(r, k) \/ JoinInFlight(r, k) \/ CannotPay(r, k) \/ StartShared(r, k)
  \/ \E s \in Shared, k \in Pairs : SharedOk(s, k) \/ SharedFailed(s, k)
  \/ \E r \in Requests, outcome \in {"accepted", "rejected", "failed"} : EndSingle(r, outcome)
  \/ \E i \in Ips : CreateRun(i) \/ RefuseRun(i)
  \/ \E sweeps \in Sweeps : Cleanup(sweeps)
  \/ Evict
  \/ \E r \in Requests, both \in BOOLEAN : EvictWhileCharging(r, both)
  \/ \E r \in Requests : EvictAfterSlot(r)
  \/ Tick

Spec == Init /\ [][Next]_vars

-----------------------------------------------------------------------------
(* What the endpoints promise. *)

\* However evictions fall between the writes of a reservation and whatever the
\* alarm sweeps, what a service charges is the abstract daily budget's: on the
\* current date, within the limit of the world and of the address, each of the
\* four from records of its own (reserveBudget() and its four callers).
Inventions ==
  INSTANCE DailyBudget WITH
    Dates <- Days, Payers <- Ips, today <- DateOf(now),
    Limit <- DailyMax["improvise"], LimitPerPayer <- DailyMaxPerIp["improvise"],
    spent <- calls["improvise"], spentBy <- ipCalls["improvise"]

Proposals ==
  INSTANCE DailyBudget WITH
    Dates <- Days, Payers <- Ips, today <- DateOf(now),
    Limit <- DailyMax["generated"], LimitPerPayer <- DailyMaxPerIp["generated"],
    spent <- calls["generated"], spentBy <- ipCalls["generated"]

Commentaries ==
  INSTANCE DailyBudget WITH
    Dates <- Days, Payers <- Ips, today <- DateOf(now),
    Limit <- DailyMax["commentary"], LimitPerPayer <- DailyMaxPerIp["commentary"],
    spent <- calls["commentary"], spentBy <- ipCalls["commentary"]

Speech ==
  INSTANCE DailyBudget WITH
    Dates <- Days, Payers <- Ips, today <- DateOf(now),
    Limit <- DailyMax["tts"], LimitPerPayer <- DailyMaxPerIp["tts"],
    spent <- calls["tts"], spentBy <- ipCalls["tts"]

ImplementsDailyBudgets ==
  Inventions!Spec /\ Proposals!Spec /\ Commentaries!Spec /\ Speech!Spec

\* Within any of its windows no list lets an address through more often than
\* it may, though two endpoints share one list and the alarm sweeps another
\* with a window that is not its own (coordinator-do.ts:494-504).
ServiceRatesHonoured ==
  \A l \in Lists, i \in Ips : SumFunction(granted[l][i]) <= RateMax[l]

\* Within any hour no address starts more runs than it may, nor all of them
\* together, though the alarm rewrites the record and deletes it on the word
\* of the world's stamps alone (coordinator-do.ts:505-528, 802-815).
CreationsWithinQuota ==
  /\ \A i \in Ips : SumFunction(created[i]) <= QuotaMaxPerIp
  /\ SumFunction([i \in Ips |-> SumFunction(created[i])]) <= QuotaMax
=============================================================================
