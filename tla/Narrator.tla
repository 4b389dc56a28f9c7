------------------------------ MODULE Narrator ------------------------------
(***************************************************************************)
(* The narrator pipeline of the Coordinator Durable Object: fetch() of     *)
(* coordinator-do.ts down to decide() of coordinator.ts, with the delta    *)
(* cache, the calls in the air, the two daily budgets, the demand          *)
(* statistics, the cleanup alarm and the eviction of the object.           *)
(*                                                                         *)
(* Every body given to the SerialGate performs only storage operations, so *)
(* each is one step.  What separates two steps of a request is what the    *)
(* object really waits for outside the gate: the request's body and the    *)
(* language model.                                                         *)
(***************************************************************************)
EXTENDS Metering, FiniteSets

CONSTANTS
  Ips,             \* hashes of client addresses
  Keys,            \* cache keys: canonical pair and verdict
  Requests,        \* slots for requests being served at the same time
  RateWindow,      \* rateLimitWindowMs
  RateMax,         \* rateLimitMax
  DailyMax,        \* dailyMax
  DailyMaxPerIp,   \* dailyMaxPerIp
  CacheMaxAge,     \* CACHE_MAX_AGE_MS
  StatsMaxAge,     \* STATS_MAX_AGE_MS
  CleanupInterval, \* CLEANUP_INTERVAL_MS
  None             \* no ip, no key

\* toPositiveInt() and toNonNegativeInt() of env.ts: of the configured numbers
\* only a budget may be zero.
ASSUME LimitsAssumption ==
  /\ RateWindow \in Nat \ {0}
  /\ RateMax \in Nat
  /\ DailyMax \in Nat
  /\ DailyMaxPerIp \in Nat
  /\ CacheMaxAge \in Nat
  /\ StatsMaxAge \in Nat
  /\ CleanupInterval \in Nat \ {0}

ASSUME NoneAssumption == None \notin Ips \cup Keys

VARIABLES
  now,       \* the clock
  \* Durable storage.
  rl,        \* "rl:<ip>": the stamps of the rolling window
  cache,     \* "cache:<key>": createdAt, or Never
  budget,    \* "budget"
  ipBudget,  \* "budget:ip:<ip>"
  stats,     \* "stats:<key>"
  alarm,     \* time the next cleanup is due, or Never
  \* The object's memory, lost when it is evicted.
  inFlight,  \* keys of the InFlightRegistry
  req,       \* the requests being served
  \* History, written by no code.
  granted,   \* rate slots handed out in the last RateWindow ticks
  calls,     \* model calls started, by the date charged to the world
  ipCalls,   \* ... and by the date charged to the address
  lost,      \* reservations whose call an eviction prevented
  held       \* model calls paid for a key and not yet used up

stored == <<rl, cache, budget, ipBudget, stats>>
history == <<granted, calls, ipCalls, lost, held>>
vars == <<now, stored, alarm, inFlight, req, history>>

\* Of a statistics record, what cleanup and cost depend on: the model calls it
\* claims and its last use.  The demand and hit counters only ever grow.
NoStats == [upstreamCalls |-> 0, lastSeen |-> Never]

Idle == [pc |-> "idle", ip |-> None, key |-> None]

Init ==
  /\ now = 0
  /\ rl = [i \in Ips |-> NoStamps]
  /\ cache = [k \in Keys |-> Never]
  /\ budget = NoRecord
  /\ ipBudget = [i \in Ips |-> NoRecord]
  /\ stats = [k \in Keys |-> NoStats]
  /\ alarm = Never
  /\ inFlight = {}
  /\ req = [r \in Requests |-> Idle]
  /\ granted = [i \in Ips |-> NoStamps]
  /\ calls = [d \in Days |-> 0]
  /\ ipCalls = [i \in Ips |-> [d \in Days |-> 0]]
  /\ lost = [d \in Days |-> 0]
  /\ held = [k \in Keys |-> 0]

-----------------------------------------------------------------------------
(* fetch(): the alarm and the rate slot come before the body is read. *)

ScheduleCleanup ==
  alarm' = IF alarm = Never THEN now + CleanupInterval ELSE alarm

RateSlot(r, i) ==
  /\ req[r].pc = "idle"
  /\ WindowOpen(rl[i], now, RateWindow, RateMax)
  /\ ScheduleCleanup
  /\ rl' = [rl EXCEPT ![i] = TakeSlot(@, now, RateWindow)]
  /\ req' = [req EXCEPT ![r] = [pc |-> "reading", ip |-> i, key |-> None]]
  /\ granted' = [granted EXCEPT ![i][now] = @ + 1]
  /\ UNCHANGED <<now, cache, budget, ipBudget, stats, inFlight,
                 calls, ipCalls, lost, held>>

\* 429: the request is over, and nothing but the alarm may have changed.
RateLimited(r, i) ==
  /\ req[r].pc = "idle"
  /\ ~ WindowOpen(rl[i], now, RateWindow, RateMax)
  /\ ScheduleCleanup
  /\ UNCHANGED <<now, stored, inFlight, req, history>>

\* 415 or 400: wrong content type, too large, not JSON, unknown pair.
BadBody(r) ==
  /\ req[r].pc = "reading"
  /\ req' = [req EXCEPT ![r] = Idle]
  /\ UNCHANGED <<now, stored, alarm, inFlight, history>>

-----------------------------------------------------------------------------
(* decide(), once the body has been read and canonicalised to key k. *)

Counted(record, outcome, at) ==
  [upstreamCalls |-> record.upstreamCalls + (IF outcome = "upstream" THEN 1 ELSE 0),
   lastSeen |-> at]

RecordStats(k, outcome, at) ==
  stats' = [stats EXCEPT ![k] = Counted(@, outcome, at)]

\* The four ways to be answered inside the gate, without a call of its own.
CacheHit(r, k) ==
  /\ req[r].pc = "reading"
  /\ cache[k] # Never
  /\ RecordStats(k, "hit", now)
  /\ req' = [req EXCEPT ![r] = Idle]
  /\ UNCHANGED <<now, rl, cache, budget, ipBudget, alarm, inFlight, history>>

JoinInFlight(r, k) ==
  /\ req[r].pc = "reading"
  /\ cache[k] = Never
  /\ k \in inFlight
  /\ RecordStats(k, "other", now)
  /\ req' = [req EXCEPT ![r].pc = "waiting", ![r].key = k]
  /\ UNCHANGED <<now, rl, cache, budget, ipBudget, alarm, inFlight, history>>

\* Mutant: a call in the air is not looked for.
MissUnjoined(r, k) ==
  /\ req[r].pc = "reading"
  /\ cache[k] = Never

Miss(r, k) ==
  /\ req[r].pc = "reading"
  /\ cache[k] = Never
  /\ k \notin inFlight

\* 503: the day's calls are used up for everyone.
GlobalBudgetSpent(r, k) ==
  /\ Miss(r, k)
  /\ ~ HasRoom(budget, now, DailyMax)
  /\ RecordStats(k, "other", now)
  /\ req' = [req EXCEPT ![r] = Idle]
  /\ UNCHANGED <<now, rl, cache, budget, ipBudget, alarm, inFlight, history>>

\* The gate reads the clock for the world's budget and again, a storage read
\* later, for the address's: midnight may fall between the two.
SecondRead == {t \in {now, now + 1} : t <= Horizon}

\* 429: this address has used its share; the world's record is not written.
IpBudgetSpent(r, k, later) ==
  /\ Miss(r, k)
  /\ HasRoom(budget, now, DailyMax)
  /\ ~ HasRoom(ipBudget[req[r].ip], later, DailyMaxPerIp)
  /\ now' = later
  /\ RecordStats(k, "other", later)
  /\ req' = [req EXCEPT ![r] = Idle]
  /\ granted' = [i \in Ips |-> PruneWindow(granted[i], later, RateWindow)]
  /\ UNCHANGED <<rl, cache, budget, ipBudget, alarm, inFlight,
                 calls, ipCalls, lost, held>>

CanReserve(r, k, later) ==
  /\ Miss(r, k)
  /\ HasRoom(budget, now, DailyMax)
  /\ HasRoom(ipBudget[req[r].ip], later, DailyMaxPerIp)

\* Mutant: the count is carried over midnight.
ChargeWorldUnrolled ==
  budget' = [date |-> DateOf(now), count |-> budget.count + 1]

ChargeWorld == budget' = Reserved(budget, now)

ChargeIp(i, later) == ipBudget' = [ipBudget EXCEPT ![i] = Reserved(@, later)]

\* Both budgets are written, the call is counted and started.
StartUpstream(r, k, later) ==
  LET i == req[r].ip IN
  /\ CanReserve(r, k, later)
  /\ now' = later
  /\ ChargeWorld
  /\ ChargeIp(i, later)
  /\ RecordStats(k, "upstream", later)
  /\ inFlight' = inFlight \cup {k}
  /\ req' = [req EXCEPT ![r].pc = "waiting", ![r].key = k]
  /\ granted' = [j \in Ips |-> PruneWindow(granted[j], later, RateWindow)]
  /\ calls' = [calls EXCEPT ![DateOf(now)] = @ + 1]
  /\ ipCalls' = [ipCalls EXCEPT ![i][DateOf(later)] = @ + 1]
  /\ held' = [held EXCEPT ![k] = @ + 1]
  /\ UNCHANGED <<rl, cache, alarm, lost>>

-----------------------------------------------------------------------------
(* The model answers: the factory's continuation and its finally. *)

\* Mutant: only one of the requests that share the call hears of its end.
OneWaiter(k) ==
  LET all == {r \in Requests : req[r].pc = "waiting" /\ req[r].key = k}
  IN IF all = {} THEN {} ELSE {CHOOSE r \in all : TRUE}

Waiters(k) == {r \in Requests : req[r].pc = "waiting" /\ req[r].key = k}

Answer(k) ==
  req' = [r \in Requests |-> IF r \in Waiters(k) THEN Idle ELSE req[r]]

\* 200 for every waiter; the line is cached before the key leaves the air.
UpstreamOk(k) ==
  /\ k \in inFlight
  /\ cache' = [cache EXCEPT ![k] = now]
  /\ inFlight' = inFlight \ {k}
  /\ Answer(k)
  /\ UNCHANGED <<now, rl, budget, ipBudget, stats, alarm, history>>

\* 502 for every waiter; nothing is cached and the reservation stays spent.
UpstreamFailed(k) ==
  /\ k \in inFlight
  /\ inFlight' = inFlight \ {k}
  /\ Answer(k)
  /\ held' = [held EXCEPT ![k] = @ - 1]
  /\ UNCHANGED <<now, stored, alarm, granted, calls, ipCalls, lost>>

-----------------------------------------------------------------------------
(* alarm(): the narrator's part of the nightly cleanup. *)

SweepRates == [i \in Ips |-> IF StaleStamps(rl[i], now, RateWindow)
                               THEN NoStamps ELSE rl[i]]

ExpiredKeys == {k \in Keys : Expired(cache[k], now, CacheMaxAge)}

SweepCache == [k \in Keys |-> IF k \in ExpiredKeys THEN Never ELSE cache[k]]

SweepIpBudgets == [i \in Ips |-> IF StaleDate(ipBudget[i], now)
                                   THEN NoRecord ELSE ipBudget[i]]

SweepStats == [k \in Keys |-> IF Expired(stats[k].lastSeen, now, StatsMaxAge)
                                THEN NoStats ELSE stats[k]]

\* Mutant: the next cleanup is planned at the end of a complete one only.
RescheduleIfComplete(sweeps) ==
  alarm' = IF sweeps = 4 THEN now + CleanupInterval ELSE Never

Reschedule(sweeps) == alarm' = now + CleanupInterval

\* The sweeps run in this order; a storage error ends the run after any
\* number of them, and the next alarm is set in the finally either way.
Cleanup(sweeps) ==
  /\ alarm # Never
  /\ now >= alarm
  /\ rl' = IF sweeps >= 1 THEN SweepRates ELSE rl
  /\ cache' = IF sweeps >= 2 THEN SweepCache ELSE cache
  /\ held' = IF sweeps >= 2
               THEN [k \in Keys |-> held[k] - (IF k \in ExpiredKeys THEN 1 ELSE 0)]
               ELSE held
  /\ ipBudget' = IF sweeps >= 3 THEN SweepIpBudgets ELSE ipBudget
  /\ stats' = IF sweeps >= 4 THEN SweepStats ELSE stats
  /\ Reschedule(sweeps)
  /\ UNCHANGED <<now, budget, inFlight, req, granted, calls, ipCalls, lost>>

-----------------------------------------------------------------------------
(* The platform: time passes, and the object may leave memory at any time. *)

\* What an eviction takes away: the requests, and the calls in the air.
ForgetMemory ==
  /\ inFlight' = {}
  /\ req' = [r \in Requests |-> Idle]
  /\ held' = [k \in Keys |-> held[k] - (IF k \in inFlight THEN 1 ELSE 0)]

Evict ==
  /\ \E r \in Requests : req[r].pc # "idle"
  /\ ForgetMemory
  /\ UNCHANGED <<now, stored, alarm, granted, calls, ipCalls, lost>>

\* Evicted between the writes of StartUpstream: the first ones stay.
EvictWhileReserving(r, k, later, writes) ==
  LET i == req[r].ip IN
  /\ CanReserve(r, k, later)
  /\ now' = later
  /\ ChargeWorld
  /\ IF writes >= 2 THEN ChargeIp(i, later) ELSE UNCHANGED ipBudget
  /\ IF writes >= 3 THEN RecordStats(k, "upstream", later) ELSE UNCHANGED stats
  /\ lost' = [lost EXCEPT ![DateOf(now)] = @ + 1]
  /\ granted' = [j \in Ips |-> PruneWindow(granted[j], later, RateWindow)]
  /\ ForgetMemory
  /\ UNCHANGED <<rl, cache, alarm, calls, ipCalls>>

Tick ==
  /\ now < Horizon
  /\ now' = now + 1
  /\ granted' = [i \in Ips |-> PruneWindow(granted[i], now + 1, RateWindow)]
  /\ UNCHANGED <<stored, alarm, inFlight, req, calls, ipCalls, lost, held>>

-----------------------------------------------------------------------------
Decide(r, k) ==
  \/ CacheHit(r, k)
  \/ JoinInFlight(r, k)
  \/ GlobalBudgetSpent(r, k)
  \/ \E later \in SecondRead : IpBudgetSpent(r, k, later)
  \/ \E later \in SecondRead : StartUpstream(r, k, later)

Next ==
  \/ \E r \in Requests, i \in Ips : RateSlot(r, i) \/ RateLimited(r, i)
  \/ \E r \in Requests : BadBody(r)
  \/ \E r \in Requests, k \in Keys : Decide(r, k)
  \/ \E k \in Keys : UpstreamOk(k) \/ UpstreamFailed(k)
  \/ \E sweeps \in 0 .. 4 : Cleanup(sweeps)
  \/ Evict
  \/ \E r \in Requests, k \in Keys, later \in SecondRead, writes \in 1 .. 3 :
       EvictWhileReserving(r, k, later, writes)
  \/ Tick

Spec == Init /\ [][Next]_vars

-----------------------------------------------------------------------------
(* What the pipeline promises. *)

\* Every variable holds a value of its kind.
TypeOK ==
  /\ now \in Ticks
  /\ rl \in [Ips -> Stamps]
  /\ cache \in [Keys -> Ticks \cup {Never}]
  /\ budget \in BudgetRecord
  /\ ipBudget \in [Ips -> BudgetRecord]
  /\ stats \in [Keys -> [upstreamCalls : Nat, lastSeen : Ticks \cup {Never}]]
  /\ alarm \in Nat \cup {Never}
  /\ inFlight \subseteq Keys
  /\ req \in [Requests -> [pc : {"idle", "reading", "waiting"},
                           ip : Ips \cup {None}, key : Keys \cup {None}]]
  /\ granted \in [Ips -> Stamps]
  /\ calls \in [Days -> Nat]
  /\ ipCalls \in [Ips -> [Days -> Nat]]
  /\ lost \in [Days -> Nat]
  /\ held \in [Keys -> Nat]

\* No more model calls are charged to a date than the world's daily limit,
\* and no more to a date and an address than its share, however midnight,
\* the nightly cleanup and evictions fall among the requests
\* (coordinator.ts, decide()).
WithinDailyBudgets ==
  \A d \in Days :
    /\ calls[d] <= DailyMax
    /\ \A i \in Ips : ipCalls[i][d] <= DailyMaxPerIp

\* Today's record of the world's budget counts exactly the calls that were
\* started and the ones an eviction prevented: an address turned away, a cache
\* hit or a joined call never burns a unit of it (coordinator.ts, decide()).
WorldRecordIsExact ==
  budget.date # Never =>
    budget.count = calls[budget.date] + lost[budget.date]

\* Within any RateWindow ticks an address is let through at most RateMax
\* times, although its list is pruned on use and deleted by the cleanup
\* (reserveRateLimitSlot, findStaleRateLimitKeys).
RateHonoured == \A i \in Ips : SumFunction(granted[i]) <= RateMax

\* A line is paid for once: while its call is in the air or its text is
\* cached there is exactly one unused call behind the key, and none otherwise
\* (the cache and the InFlightRegistry together).
PaidOnce ==
  \A k \in Keys :
    held[k] = IF k \in inFlight \/ cache[k] # Never THEN 1 ELSE 0

\* Nobody waits for a call that is no longer in the air: such a request would
\* never be answered (decide() awaits the promise outside the gate).
NoOrphanedWaiter ==
  \A r \in Requests : req[r].pc = "waiting" => req[r].key \in inFlight

\* Whatever is stored will be swept: once there is a stamp, a cached line or
\* a record, a cleanup is due within one interval or already overdue
\* (ensureCleanupScheduled and the finally of alarm()).
CleanupScheduled ==
  /\ (\E i \in Ips : rl[i] # NoStamps \/ ipBudget[i] # NoRecord) => alarm # Never
  /\ (\E k \in Keys : cache[k] # Never \/ stats[k] # NoStats) => alarm # Never
  /\ alarm <= now + CleanupInterval

\* Every charge of the pipeline is a charge of the abstract daily budget, on
\* the current date and within both limits, and nothing else charges: the
\* detailed pipeline implements DailyBudget (decide() over reserveBudget).
Budget ==
  INSTANCE DailyBudget WITH
    Dates <- Days, Payers <- Ips, Limit <- DailyMax, LimitPerPayer <- DailyMaxPerIp,
    today <- DateOf(now), spent <- calls, spentBy <- ipCalls

ImplementsDailyBudget == Budget!Spec
=============================================================================
