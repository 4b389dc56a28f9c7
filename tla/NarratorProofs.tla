--------------------------- MODULE NarratorProofs ---------------------------
(***************************************************************************)
(* Theorems about the narrator pipeline, for every number of addresses,    *)
(* keys and concurrent requests and every limit.                           *)
(***************************************************************************)
EXTENDS Narrator, MeteringProofs

-----------------------------------------------------------------------------
(* The inductive invariant. *)

\* A request past the rate limiter knows the address it came from.
KnownAddress == \A r \in Requests : req[r].pc # "idle" => req[r].ip \in Ips

\* A key whose call is in the air has no cached line.
AirOrCache == \A k \in inFlight : cache[k] = Never

\* The world's record is the whole account of its date, no later date has
\* been charged, and no date was ever charged beyond the limit.
WorldAccount ==
  /\ budget.date <= DateOf(now)
  /\ budget.count <= DailyMax
  /\ WorldRecordIsExact
  /\ \A d \in Days :
       /\ calls[d] + lost[d] <= DailyMax
       /\ d > budget.date => calls[d] + lost[d] = 0

\* Every address's record is its account, as MeteringProofs states one.
IpAccount ==
  \A i \in Ips : AccountAt(now, ipBudget[i], ipCalls[i], DailyMaxPerIp)

\* Every address's list covers what it was let through in the window, and that
\* is no more than it may: the list itself may hold stamps that are older.
RateAccount ==
  \A i \in Ips :
    /\ Covered(granted[i], rl[i], now, RateWindow)
    /\ SumFunction(granted[i]) <= RateMax

\* Without an alarm the object is as new: nothing is stored, nobody is served.
\* The next cleanup is never more than an interval away.
AlarmAccount ==
  /\ alarm <= now + CleanupInterval
  /\ alarm = Never =>
       /\ \A i \in Ips : rl[i] = NoStamps /\ ipBudget[i] = NoRecord
       /\ \A k \in Keys : cache[k] = Never /\ stats[k] = NoStats
       /\ \A r \in Requests : req[r].pc = "idle"
       /\ inFlight = {}

Inv ==
  /\ TypeOK
  /\ KnownAddress
  /\ PaidOnce
  /\ AirOrCache
  /\ NoOrphanedWaiter
  /\ WorldAccount
  /\ IpAccount
  /\ RateAccount
  /\ AlarmAccount

LEMMA InitInv == Init => Inv
<1> SUFFICES ASSUME Init PROVE Inv
  OBVIOUS
<1> USE LimitsAssumption, HorizonAssumption DEF Init
<1>1. /\ 0 \in Ticks
      /\ NoStamps \in Stamps
      /\ NoRecord \in BudgetRecord
  BY DEF Ticks, NoStamps, Stamps, NoRecord, BudgetRecord
<1>2. DateOf(0) \in Nat
  BY <1>1, DateOfTick DEF Days
<1>3. TypeOK
  BY <1>1 DEF TypeOK, NoStats, Idle
<1>4. KnownAddress /\ PaidOnce /\ AirOrCache /\ NoOrphanedWaiter
  BY DEF KnownAddress, AirOrCache, PaidOnce, NoOrphanedWaiter, Idle
<1>5. WorldAccount
  BY <1>2 DEF WorldAccount, WorldRecordIsExact, NoRecord, Never
<1>6. IpAccount
  BY <1>1, AccountOpened DEF IpAccount
<1>7. RateAccount
  BY NoStampsSum DEF RateAccount, Covered, PruneWindow, NoStamps
<1>8. AlarmAccount
  BY DEF AlarmAccount, Idle, Never
<1> QED
  BY <1>3, <1>4, <1>5, <1>6, <1>7, <1>8 DEF Inv

-----------------------------------------------------------------------------
(* Every step keeps every variable in its type. *)

\* The second reading of the clock is a tick, no earlier than the first.
LEMMA SecondReadTick ==
  ASSUME now \in Ticks, NEW later \in SecondRead
  PROVE  later \in Ticks /\ now <= later
  BY HorizonAssumption DEF SecondRead, Ticks

LEMMA TypeStep == Inv /\ [Next]_vars => TypeOK'
<1> SUFFICES ASSUME Inv, [Next]_vars PROVE TypeOK'
  OBVIOUS
<1> USE LimitsAssumption, HorizonAssumption
<1>0. TypeOK /\ KnownAddress /\ PaidOnce
  BY DEF Inv
<1> USE <1>0
<1>a. /\ now \in Ticks /\ now \in Int
      /\ DateOf(now) \in Days
  BY DateOfTick DEF TypeOK, Ticks
<1>b. (now + CleanupInterval) \in Nat
  BY <1>a DEF Ticks
<1>c. ASSUME NEW i \in Ips
      PROVE  rl[i] \in Stamps /\ granted[i] \in Stamps
  BY DEF TypeOK
<1>d. NoStamps \in Stamps /\ NoRecord \in BudgetRecord
  BY DEF NoStamps, Stamps, NoRecord, BudgetRecord
<1>e. ASSUME NEW r \in Requests, NEW k \in Keys
      PROVE  [req EXCEPT ![r].pc = "waiting", ![r].key = k]
               \in [Requests -> [pc : {"idle", "reading", "waiting"},
                                 ip : Ips \cup {None}, key : Keys \cup {None}]]
  BY DEF TypeOK
<1>f. [r \in Requests |-> Idle]
        \in [Requests -> [pc : {"idle", "reading", "waiting"},
                          ip : Ips \cup {None}, key : Keys \cup {None}]]
  BY DEF Idle
<1>g. ASSUME NEW r \in Requests
      PROVE  [req EXCEPT ![r] = Idle]
               \in [Requests -> [pc : {"idle", "reading", "waiting"},
                                 ip : Ips \cup {None}, key : Keys \cup {None}]]
  BY DEF TypeOK, Idle
<1>h. ASSUME NEW k \in Keys, NEW outcome, NEW at \in Ticks, RecordStats(k, outcome, at)
      PROVE  stats' \in [Keys -> [upstreamCalls : Nat, lastSeen : Ticks \cup {Never}]]
  <2>1. stats \in [Keys -> [upstreamCalls : Nat, lastSeen : Ticks \cup {Never}]]
    BY DEF TypeOK
  <2>2. (IF outcome = "upstream" THEN 1 ELSE 0) \in Nat
    OBVIOUS
  <2>3. stats[k].upstreamCalls + (IF outcome = "upstream" THEN 1 ELSE 0) \in Nat
    BY <2>1, <2>2
  <2>4. Counted(stats[k], outcome, at)
          \in [upstreamCalls : Nat, lastSeen : Ticks \cup {Never}]
    BY <2>3 DEF Counted
  <2> QED
    BY <1>h, <2>1, <2>4 DEF RecordStats
<1>i. ASSUME NEW at \in Ticks
      PROVE  [i \in Ips |-> PruneWindow(granted[i], at, RateWindow)] \in [Ips -> Stamps]
  BY <1>c, PruneType DEF Ticks
<1>j. ForgetMemory => /\ inFlight' \subseteq Keys
                      /\ req' \in [Requests -> [pc : {"idle", "reading", "waiting"},
                                     ip : Ips \cup {None}, key : Keys \cup {None}]]
                      /\ held' \in [Keys -> Nat]
  BY <1>f DEF ForgetMemory, TypeOK, PaidOnce
<1>k. ChargeWorld => budget' \in BudgetRecord
  <2>1. budget \in BudgetRecord
    BY DEF TypeOK
  <2>2. Reserved(budget, now) \in BudgetRecord
    BY <1>a, <2>1, ReservedRecord
  <2> QED
    BY <2>2 DEF ChargeWorld
<1>l. ASSUME NEW i \in Ips, NEW at \in Ticks, ChargeIp(i, at)
      PROVE  ipBudget' \in [Ips -> BudgetRecord]
  <2>1. ipBudget \in [Ips -> BudgetRecord]
    BY DEF TypeOK
  <2>2. Reserved(ipBudget[i], at) \in BudgetRecord
    BY <2>1, ReservedRecord
  <2> QED
    BY <1>l, <2>1, <2>2 DEF ChargeIp
<1>1. ASSUME NEW r \in Requests, NEW i \in Ips, RateSlot(r, i)
      PROVE  TypeOK'
  <2>1. rl' \in [Ips -> Stamps]
    BY <1>1, <1>a, <1>c, TakeSlotType DEF RateSlot, TypeOK
  <2>2. granted' \in [Ips -> Stamps]
    BY <1>1, <1>a, <1>c DEF RateSlot, TypeOK, Stamps
  <2>3. req' \in [Requests -> [pc : {"idle", "reading", "waiting"},
                     ip : Ips \cup {None}, key : Keys \cup {None}]]
    BY <1>1 DEF RateSlot, TypeOK
  <2> QED
    BY <1>1, <1>b, <2>1, <2>2, <2>3 DEF RateSlot, ScheduleCleanup, TypeOK
<1>2. ASSUME NEW r \in Requests, NEW i \in Ips, RateLimited(r, i)
      PROVE  TypeOK'
  BY <1>2, <1>b DEF RateLimited, ScheduleCleanup, TypeOK, stored, history
<1>3. ASSUME NEW r \in Requests, BadBody(r)
      PROVE  TypeOK'
  BY <1>3, <1>g DEF BadBody, TypeOK, stored, history
<1>4. ASSUME NEW r \in Requests, NEW k \in Keys, CacheHit(r, k)
      PROVE  TypeOK'
  BY <1>4, <1>a, <1>g, <1>h DEF CacheHit, TypeOK, history
<1>5. ASSUME NEW r \in Requests, NEW k \in Keys, JoinInFlight(r, k)
      PROVE  TypeOK'
  BY <1>5, <1>a, <1>e, <1>h DEF JoinInFlight, TypeOK, history
<1>6. ASSUME NEW r \in Requests, NEW k \in Keys, GlobalBudgetSpent(r, k)
      PROVE  TypeOK'
  BY <1>6, <1>a, <1>g, <1>h DEF GlobalBudgetSpent, TypeOK, history
<1>7. ASSUME NEW r \in Requests, NEW k \in Keys, NEW later \in SecondRead,
             IpBudgetSpent(r, k, later)
      PROVE  TypeOK'
  <2>1. later \in Ticks
    BY <1>a, SecondReadTick
  <2> QED
    BY <1>7, <1>g, <1>h, <1>i, <2>1 DEF IpBudgetSpent, TypeOK
<1>8. ASSUME NEW r \in Requests, NEW k \in Keys, NEW later \in SecondRead,
             StartUpstream(r, k, later)
      PROVE  TypeOK'
  <2>1. later \in Ticks /\ DateOf(later) \in Days
    BY <1>a, SecondReadTick, DateOfTick
  <2>2. req[r].ip \in Ips
    BY <1>8 DEF StartUpstream, CanReserve, Miss, KnownAddress
  <2>3. /\ budget' \in BudgetRecord
        /\ ipBudget' \in [Ips -> BudgetRecord]
    BY <1>8, <1>k, <1>l, <2>1, <2>2 DEF StartUpstream
  <2>4. /\ calls' \in [Days -> Nat]
        /\ ipCalls' \in [Ips -> [Days -> Nat]]
        /\ held' \in [Keys -> Nat]
    BY <1>8, <1>a, <2>1, <2>2 DEF StartUpstream, TypeOK
  <2> QED
    BY <1>8, <1>e, <1>h, <1>i, <2>1, <2>3, <2>4 DEF StartUpstream, TypeOK
<1>9. ASSUME NEW k \in Keys, UpstreamOk(k)
      PROVE  TypeOK'
  BY <1>9, <1>a DEF UpstreamOk, Answer, Idle, TypeOK, history
<1>10. ASSUME NEW k \in Keys, UpstreamFailed(k)
       PROVE  TypeOK'
  <2>1. held' \in [Keys -> Nat]
    BY <1>10 DEF UpstreamFailed, PaidOnce, TypeOK
  <2> QED
    BY <1>10, <2>1 DEF UpstreamFailed, Answer, Idle, TypeOK, stored
<1>11. ASSUME NEW sweeps \in 0 .. 4, Cleanup(sweeps)
       PROVE  TypeOK'
  <2>1. rl' \in [Ips -> Stamps]
    BY <1>11, <1>c, <1>d DEF Cleanup, SweepRates, TypeOK
  <2>2. cache' \in [Keys -> Ticks \cup {Never}]
    BY <1>11 DEF Cleanup, SweepCache, TypeOK
  <2>3. held' \in [Keys -> Nat]
    <3>1. \A k \in ExpiredKeys : held[k] = 1
      BY DEF ExpiredKeys, Expired, PaidOnce
    <3> QED
      BY <1>11, <3>1 DEF Cleanup, TypeOK
  <2>4. ipBudget' \in [Ips -> BudgetRecord]
    BY <1>11, <1>d DEF Cleanup, SweepIpBudgets, TypeOK
  <2>5. stats' \in [Keys -> [upstreamCalls : Nat, lastSeen : Ticks \cup {Never}]]
    BY <1>11 DEF Cleanup, SweepStats, NoStats, TypeOK
  <2> QED
    BY <1>11, <1>b, <2>1, <2>2, <2>3, <2>4, <2>5 DEF Cleanup, Reschedule, TypeOK
<1>12. ASSUME Evict
       PROVE  TypeOK'
  BY <1>12, <1>j DEF Evict, TypeOK, stored
<1>13. ASSUME NEW r \in Requests, NEW k \in Keys, NEW later \in SecondRead,
              NEW writes \in 1 .. 3, EvictWhileReserving(r, k, later, writes)
       PROVE  TypeOK'
  <2>1. later \in Ticks
    BY <1>a, SecondReadTick
  <2>2. req[r].ip \in Ips
    BY <1>13 DEF EvictWhileReserving, CanReserve, Miss, KnownAddress
  <2>3. budget' \in BudgetRecord
    BY <1>13, <1>k, <2>1 DEF EvictWhileReserving
  <2>4. ipBudget' \in [Ips -> BudgetRecord]
    BY <1>13, <1>l, <2>1, <2>2 DEF EvictWhileReserving, TypeOK
  <2>5. stats' \in [Keys -> [upstreamCalls : Nat, lastSeen : Ticks \cup {Never}]]
    BY <1>13, <1>h, <2>1 DEF EvictWhileReserving, TypeOK
  <2>6. lost' \in [Days -> Nat]
    BY <1>13, <1>a DEF EvictWhileReserving, TypeOK
  <2> QED
    BY <1>13, <1>i, <1>j, <2>1, <2>3, <2>4, <2>5, <2>6
       DEF EvictWhileReserving, TypeOK
<1>14. ASSUME Tick
       PROVE  TypeOK'
  <2>1. now + 1 \in Ticks
    BY <1>14, <1>a DEF Tick, Ticks
  <2> QED
    BY <1>14, <1>i, <2>1 DEF Tick, TypeOK, stored
<1>15. CASE UNCHANGED vars
  BY <1>15 DEF vars, stored, history, TypeOK
<1> QED
  BY <1>1, <1>2, <1>3, <1>4, <1>5, <1>6, <1>7, <1>8, <1>9, <1>10, <1>11,
     <1>12, <1>13, <1>14, <1>15 DEF Next, Decide

-----------------------------------------------------------------------------
(* The requests being served. *)

LEMMA ServingStep ==
  Inv /\ [Next]_vars => KnownAddress' /\ NoOrphanedWaiter'
<1> SUFFICES ASSUME Inv, [Next]_vars
             PROVE  KnownAddress' /\ NoOrphanedWaiter'
  OBVIOUS
<1> USE DEF KnownAddress, NoOrphanedWaiter
<1>0. /\ KnownAddress /\ NoOrphanedWaiter
      /\ req \in [Requests -> [pc : {"idle", "reading", "waiting"},
                               ip : Ips \cup {None}, key : Keys \cup {None}]]
  BY DEF Inv, TypeOK
<1>a. ASSUME NEW r \in Requests, req' = [req EXCEPT ![r] = Idle],
             inFlight' = inFlight
      PROVE  KnownAddress' /\ NoOrphanedWaiter'
  BY <1>0, <1>a DEF Idle
<1>b. ASSUME NEW r \in Requests, NEW k \in Keys, req[r].pc = "reading",
             req' = [req EXCEPT ![r].pc = "waiting", ![r].key = k],
             k \in inFlight', inFlight \subseteq inFlight'
      PROVE  KnownAddress' /\ NoOrphanedWaiter'
  BY <1>0, <1>b
<1>c. ForgetMemory => KnownAddress' /\ NoOrphanedWaiter'
  BY DEF ForgetMemory, Idle
<1>d. ASSUME UNCHANGED <<req, inFlight>>
      PROVE  KnownAddress' /\ NoOrphanedWaiter'
  BY <1>0, <1>d
<1>e. ASSUME NEW k \in Keys, Answer(k), inFlight' = inFlight \ {k}
      PROVE  KnownAddress' /\ NoOrphanedWaiter'
  BY <1>0, <1>e DEF Answer, Waiters, Idle
<1>1. ASSUME NEW r \in Requests, NEW i \in Ips, RateSlot(r, i)
      PROVE  KnownAddress' /\ NoOrphanedWaiter'
  BY <1>0, <1>1 DEF RateSlot
<1>2. ASSUME NEW r \in Requests, NEW i \in Ips, RateLimited(r, i)
      PROVE  KnownAddress' /\ NoOrphanedWaiter'
  BY <1>2, <1>d DEF RateLimited
<1>3. ASSUME NEW r \in Requests, BadBody(r)
      PROVE  KnownAddress' /\ NoOrphanedWaiter'
  BY <1>3, <1>a DEF BadBody
<1>4. ASSUME NEW r \in Requests, NEW k \in Keys, CacheHit(r, k)
      PROVE  KnownAddress' /\ NoOrphanedWaiter'
  BY <1>4, <1>a DEF CacheHit
<1>5. ASSUME NEW r \in Requests, NEW k \in Keys, JoinInFlight(r, k)
      PROVE  KnownAddress' /\ NoOrphanedWaiter'
  BY <1>5, <1>b DEF JoinInFlight
<1>6. ASSUME NEW r \in Requests, NEW k \in Keys, GlobalBudgetSpent(r, k)
      PROVE  KnownAddress' /\ NoOrphanedWaiter'
  BY <1>6, <1>a DEF GlobalBudgetSpent
<1>7. ASSUME NEW r \in Requests, NEW k \in Keys, NEW later \in SecondRead,
             IpBudgetSpent(r, k, later)
      PROVE  KnownAddress' /\ NoOrphanedWaiter'
  BY <1>7, <1>a DEF IpBudgetSpent
<1>8. ASSUME NEW r \in Requests, NEW k \in Keys, NEW later \in SecondRead,
             StartUpstream(r, k, later)
      PROVE  KnownAddress' /\ NoOrphanedWaiter'
  BY <1>8, <1>b DEF StartUpstream, CanReserve, Miss
<1>9. ASSUME NEW k \in Keys, UpstreamOk(k) \/ UpstreamFailed(k)
      PROVE  KnownAddress' /\ NoOrphanedWaiter'
  BY <1>9, <1>e DEF UpstreamOk, UpstreamFailed
<1>10. ASSUME NEW sweeps \in 0 .. 4, Cleanup(sweeps)
       PROVE  KnownAddress' /\ NoOrphanedWaiter'
  BY <1>10, <1>d DEF Cleanup
<1>11. CASE Evict
  BY <1>11, <1>c DEF Evict
<1>12. ASSUME NEW r \in Requests, NEW k \in Keys, NEW later \in SecondRead,
              NEW writes \in 1 .. 3, EvictWhileReserving(r, k, later, writes)
       PROVE  KnownAddress' /\ NoOrphanedWaiter'
  BY <1>12, <1>c DEF EvictWhileReserving
<1>13. CASE Tick
  BY <1>13, <1>d DEF Tick
<1>14. CASE UNCHANGED vars
  BY <1>14, <1>d DEF vars
<1> QED
  BY <1>1, <1>2, <1>3, <1>4, <1>5, <1>6, <1>7, <1>8, <1>9, <1>10, <1>11,
     <1>12, <1>13, <1>14 DEF Next, Decide

-----------------------------------------------------------------------------
(* One unused call behind every key in the air or in the cache. *)

LEMMA PaidOnceStep == Inv /\ [Next]_vars => (PaidOnce /\ AirOrCache)'
<1> SUFFICES ASSUME Inv, [Next]_vars PROVE (PaidOnce /\ AirOrCache)'
  OBVIOUS
<1> USE DEF PaidOnce, AirOrCache
<1>0. /\ PaidOnce /\ AirOrCache
      /\ inFlight \subseteq Keys
      /\ now \in Int /\ now # Never
      /\ cache \in [Keys -> Ticks \cup {Never}]
      /\ held \in [Keys -> Nat]
  BY HorizonAssumption DEF Inv, TypeOK, Ticks, Never
<1>a. UNCHANGED <<cache, inFlight, held>> => (PaidOnce /\ AirOrCache)'
  BY <1>0
<1>b. UNCHANGED cache /\ ForgetMemory => (PaidOnce /\ AirOrCache)'
  BY <1>0 DEF ForgetMemory
<1>1. ASSUME NEW r \in Requests, NEW k \in Keys, NEW later \in SecondRead,
             StartUpstream(r, k, later)
      PROVE  (PaidOnce /\ AirOrCache)'
  BY <1>0, <1>1 DEF StartUpstream, CanReserve, Miss
<1>2. ASSUME NEW k \in Keys, UpstreamOk(k)
      PROVE  (PaidOnce /\ AirOrCache)'
  BY <1>0, <1>2 DEF UpstreamOk, history
<1>3. ASSUME NEW k \in Keys, UpstreamFailed(k)
      PROVE  (PaidOnce /\ AirOrCache)'
  BY <1>0, <1>3 DEF UpstreamFailed, stored
<1>4. ASSUME NEW sweeps \in 0 .. 4, Cleanup(sweeps)
      PROVE  (PaidOnce /\ AirOrCache)'
  BY <1>0, <1>4 DEF Cleanup, SweepCache, ExpiredKeys, Expired
<1>5. CASE Evict
  BY <1>5, <1>b DEF Evict, stored
<1>6. ASSUME NEW r \in Requests, NEW k \in Keys, NEW later \in SecondRead,
             NEW writes \in 1 .. 3, EvictWhileReserving(r, k, later, writes)
      PROVE  (PaidOnce /\ AirOrCache)'
  BY <1>6, <1>b DEF EvictWhileReserving
<1>7. \/ \E r \in Requests, i \in Ips : RateSlot(r, i) \/ RateLimited(r, i)
      \/ \E r \in Requests : BadBody(r)
      \/ \E r \in Requests, k \in Keys : CacheHit(r, k) \/ JoinInFlight(r, k)
                                         \/ GlobalBudgetSpent(r, k)
      \/ \E r \in Requests, k \in Keys, later \in SecondRead :
           IpBudgetSpent(r, k, later)
      \/ Tick
      \/ UNCHANGED vars
      => (PaidOnce /\ AirOrCache)'
  BY <1>a DEF RateSlot, RateLimited, BadBody, CacheHit, JoinInFlight,
              GlobalBudgetSpent, IpBudgetSpent, Tick, vars, stored, history
<1> QED
  BY <1>1, <1>2, <1>3, <1>4, <1>5, <1>6, <1>7 DEF Next, Decide

-----------------------------------------------------------------------------
(* The world's budget. *)

\* Time alone does not disturb either account.
LEMMA ClockNeverGoesBack ==
  Inv /\ [Next]_vars => now' \in Ticks /\ now <= now' /\ DateOf(now) <= DateOf(now')
<1> SUFFICES ASSUME Inv, [Next]_vars
             PROVE  now' \in Ticks /\ now <= now' /\ DateOf(now) <= DateOf(now')
  OBVIOUS
<1>1. now \in Ticks
  BY DEF Inv, TypeOK
<1>2. now' \in {now, now + 1}
  BY DEF Next, Decide, RateSlot, RateLimited, BadBody, CacheHit, JoinInFlight,
         GlobalBudgetSpent, IpBudgetSpent, StartUpstream, UpstreamOk,
         UpstreamFailed, Cleanup, Evict, EvictWhileReserving, Tick, SecondRead,
         vars
<1>3. now' \in Ticks
  BY TypeStep DEF TypeOK
<1> QED
  BY <1>1, <1>2, <1>3, DateOfMonotone, HorizonAssumption DEF Ticks

\* One charge to the world, whether its call is started or lost.
LEMMA WorldCharge ==
  ASSUME Inv, [Next]_vars, HasRoom(budget, now, DailyMax), ChargeWorld,
         \/ calls' = [calls EXCEPT ![DateOf(now)] = @ + 1] /\ lost' = lost
         \/ lost' = [lost EXCEPT ![DateOf(now)] = @ + 1] /\ calls' = calls
  PROVE  WorldAccount'
<1> DEFINE d0 == DateOf(now)
           n0 == Today(budget, now).count
<1>1. /\ now \in Ticks /\ budget \in BudgetRecord
      /\ calls \in [Days -> Nat] /\ lost \in [Days -> Nat]
      /\ WorldAccount
  BY DEF Inv, TypeOK
<1>2. d0 \in Days /\ d0 \in Nat
  BY <1>1, DateOfTick DEF Days
<1>3. /\ budget'.date = d0
      /\ budget'.count = n0 + 1
      /\ n0 \in Nat
  BY <1>1, ReservedRecord DEF ChargeWorld
<1>4. n0 < DailyMax
  BY DEF HasRoom
<1>5. n0 = calls[d0] + lost[d0]
  <2>1. CASE budget.date = d0
    BY <1>1, <1>2, <2>1 DEF Today, WorldAccount, WorldRecordIsExact, Never
  <2>2. CASE budget.date # d0
    <3>1. budget.date < d0
      BY <1>1, <1>2, <2>2 DEF WorldAccount, BudgetRecord, Days, Never
    <3> QED
      BY <1>1, <1>2, <2>2, <3>1 DEF Today, WorldAccount
  <2> QED
    BY <2>1, <2>2
<1>6. ASSUME NEW d \in Days
      PROVE  calls'[d] + lost'[d] = calls[d] + lost[d] + (IF d = d0 THEN 1 ELSE 0)
  BY <1>1, <1>2
<1>7. d0 <= DateOf(now')
  BY ClockNeverGoesBack
<1>8. ASSUME NEW d \in Days
      PROVE  /\ calls'[d] + lost'[d] <= DailyMax
             /\ d > d0 => calls'[d] + lost'[d] = 0
  <2>1. d > d0 => d > budget.date
    BY <1>1, <1>2 DEF WorldAccount, BudgetRecord, Days, Never
  <2>2. /\ calls[d] + lost[d] <= DailyMax
        /\ d > budget.date => calls[d] + lost[d] = 0
        /\ calls[d] + lost[d] \in Nat
    BY <1>1 DEF WorldAccount
  <2>3. CASE d = d0
    BY <1>1, <1>2, <1>3, <1>4, <1>5, <1>6, <2>3, LimitsAssumption
  <2>4. CASE d # d0
    BY <1>6, <2>1, <2>2, <2>4
  <2> QED
    BY <2>3, <2>4
<1>9. WorldRecordIsExact'
  BY <1>2, <1>3, <1>5, <1>6 DEF WorldRecordIsExact
<1> HIDE DEF d0, n0
<1> QED
  BY <1>2, <1>3, <1>4, <1>7, <1>8, <1>9, LimitsAssumption DEF WorldAccount

LEMMA WorldStep == Inv /\ [Next]_vars => WorldAccount'
<1> SUFFICES ASSUME Inv, [Next]_vars PROVE WorldAccount'
  OBVIOUS
<1>1. ASSUME UNCHANGED <<budget, calls, lost>>
      PROVE  WorldAccount'
  <2>1. /\ WorldAccount
        /\ budget.date \in Int
        /\ DateOf(now) \in Int
        /\ DateOf(now') \in Int
        /\ DateOf(now) <= DateOf(now')
    BY DateOfTick, ClockNeverGoesBack
       DEF Inv, TypeOK, BudgetRecord, Days, Never
  <2> QED
    BY <1>1, <2>1 DEF WorldAccount, WorldRecordIsExact
<1>2. ASSUME NEW r \in Requests, NEW k \in Keys, NEW later \in SecondRead,
             StartUpstream(r, k, later)
      PROVE  WorldAccount'
  BY <1>2, WorldCharge DEF StartUpstream, CanReserve
<1>3. ASSUME NEW r \in Requests, NEW k \in Keys, NEW later \in SecondRead,
             NEW writes \in 1 .. 3, EvictWhileReserving(r, k, later, writes)
      PROVE  WorldAccount'
  BY <1>3, WorldCharge DEF EvictWhileReserving, CanReserve
<1>4. \/ \E r \in Requests, i \in Ips : RateSlot(r, i) \/ RateLimited(r, i)
      \/ \E r \in Requests : BadBody(r)
      \/ \E r \in Requests, k \in Keys : CacheHit(r, k) \/ JoinInFlight(r, k)
                                         \/ GlobalBudgetSpent(r, k)
      \/ \E r \in Requests, k \in Keys, later \in SecondRead :
           IpBudgetSpent(r, k, later)
      \/ \E k \in Keys : UpstreamOk(k) \/ UpstreamFailed(k)
      \/ \E sweeps \in 0 .. 4 : Cleanup(sweeps)
      \/ Evict
      \/ Tick
      \/ UNCHANGED vars
      => WorldAccount'
  BY <1>1 DEF RateSlot, RateLimited, BadBody, CacheHit, JoinInFlight,
              GlobalBudgetSpent, IpBudgetSpent, UpstreamOk, UpstreamFailed,
              Cleanup, Evict, Tick, vars, stored, history
<1> QED
  BY <1>2, <1>3, <1>4 DEF Next, Decide

-----------------------------------------------------------------------------
(* The addresses' budgets. *)

LEMMA IpStep == Inv /\ [Next]_vars => IpAccount'
<1> SUFFICES ASSUME Inv, [Next]_vars,
                    NEW i \in Ips
             PROVE  AccountAt(now', ipBudget'[i], ipCalls'[i], DailyMaxPerIp)
  BY DEF IpAccount
<1>1. /\ now \in Ticks /\ now' \in Ticks /\ now <= now'
      /\ ipBudget \in [Ips -> BudgetRecord]
      /\ ipCalls \in [Ips -> [Days -> Nat]]
  BY ClockNeverGoesBack DEF Inv, TypeOK
<1>2. AccountAt(now, ipBudget[i], ipCalls[i], DailyMaxPerIp)
  BY DEF Inv, IpAccount
<1>3. /\ AccountAt(now', ipBudget[i], ipCalls[i], DailyMaxPerIp)
      /\ StaleDate(ipBudget[i], now') => AccountAt(now', NoRecord, ipCalls[i], DailyMaxPerIp)
  BY <1>1, <1>2, AccountLater, LimitsAssumption
<1>4. HasRoom(ipBudget[i], now', DailyMaxPerIp) =>
        /\ AccountAt(now', Reserved(ipBudget[i], now'), ipCalls[i], DailyMaxPerIp)
        /\ AccountAt(now', Reserved(ipBudget[i], now'),
                     [ipCalls[i] EXCEPT ![DateOf(now')] = @ + 1], DailyMaxPerIp)
  BY <1>1, <1>3, AccountCharged, LimitsAssumption
<1>5. UNCHANGED <<ipBudget, ipCalls>> =>
        AccountAt(now', ipBudget'[i], ipCalls'[i], DailyMaxPerIp)
  BY <1>3
<1>6. ASSUME NEW r \in Requests, NEW k \in Keys, NEW later \in SecondRead,
             StartUpstream(r, k, later)
      PROVE  AccountAt(now', ipBudget'[i], ipCalls'[i], DailyMaxPerIp)
  <2>1. /\ later = now'
        /\ req[r].ip \in Ips
        /\ HasRoom(ipBudget[req[r].ip], now', DailyMaxPerIp)
        /\ ipBudget' = [ipBudget EXCEPT ![req[r].ip] = Reserved(@, now')]
        /\ ipCalls' = [ipCalls EXCEPT ![req[r].ip][DateOf(now')] = @ + 1]
    BY <1>6 DEF StartUpstream, CanReserve, Miss, ChargeIp, Inv, KnownAddress
  <2>2. CASE i = req[r].ip
    <3>1. ipBudget'[i] = Reserved(ipBudget[i], now')
      BY <1>1, <2>1, <2>2
    <3>2. ipCalls'[i] = [ipCalls[i] EXCEPT ![DateOf(now')] = @ + 1]
      BY <1>1, <2>1, <2>2
    <3> QED
      BY <1>4, <2>1, <2>2, <3>1, <3>2
  <2>3. CASE i # req[r].ip
    BY <1>1, <1>3, <2>1, <2>3
  <2> QED
    BY <2>2, <2>3
<1>7. ASSUME NEW r \in Requests, NEW k \in Keys, NEW later \in SecondRead,
             NEW writes \in 1 .. 3, EvictWhileReserving(r, k, later, writes)
      PROVE  AccountAt(now', ipBudget'[i], ipCalls'[i], DailyMaxPerIp)
  <2>1. /\ req[r].ip \in Ips
        /\ HasRoom(ipBudget[req[r].ip], now', DailyMaxPerIp)
        /\ \/ ipBudget' = [ipBudget EXCEPT ![req[r].ip] = Reserved(@, now')]
           \/ ipBudget' = ipBudget
        /\ ipCalls' = ipCalls
    BY <1>7 DEF EvictWhileReserving, CanReserve, Miss, ChargeIp, Inv, KnownAddress
  <2>2. CASE i = req[r].ip /\ ipBudget' # ipBudget
    BY <1>1, <1>4, <2>1, <2>2
  <2>3. CASE i # req[r].ip \/ ipBudget' = ipBudget
    BY <1>1, <1>3, <2>1, <2>3
  <2> QED
    BY <2>2, <2>3
<1>8. ASSUME NEW sweeps \in 0 .. 4, Cleanup(sweeps)
      PROVE  AccountAt(now', ipBudget'[i], ipCalls'[i], DailyMaxPerIp)
  BY <1>1, <1>3, <1>8 DEF Cleanup, SweepIpBudgets
<1>9. \/ \E r \in Requests, j \in Ips : RateSlot(r, j) \/ RateLimited(r, j)
      \/ \E r \in Requests : BadBody(r)
      \/ \E r \in Requests, k \in Keys : CacheHit(r, k) \/ JoinInFlight(r, k)
                                         \/ GlobalBudgetSpent(r, k)
      \/ \E r \in Requests, k \in Keys, later \in SecondRead :
           IpBudgetSpent(r, k, later)
      \/ \E k \in Keys : UpstreamOk(k) \/ UpstreamFailed(k)
      \/ Evict
      \/ Tick
      \/ UNCHANGED vars
      => AccountAt(now', ipBudget'[i], ipCalls'[i], DailyMaxPerIp)
  BY <1>5 DEF RateSlot, RateLimited, BadBody, CacheHit, JoinInFlight,
              GlobalBudgetSpent, IpBudgetSpent, UpstreamOk, UpstreamFailed,
              Evict, Tick, vars, stored, history
<1> QED
  BY <1>6, <1>7, <1>8, <1>9 DEF Next, Decide

-----------------------------------------------------------------------------
(* The rolling windows of the addresses. *)

LEMMA RateStep == Inv /\ [Next]_vars => RateAccount'
<1> SUFFICES ASSUME Inv, [Next]_vars,
                    NEW i \in Ips
             PROVE  /\ Covered(granted'[i], rl'[i], now', RateWindow)
                    /\ SumFunction(granted'[i]) <= RateMax
  BY DEF RateAccount
<1> DEFINE Honoured == /\ Covered(granted'[i], rl'[i], now', RateWindow)
                       /\ SumFunction(granted'[i]) <= RateMax
<1>1. /\ now \in Ticks /\ now' \in Ticks /\ now <= now'
      /\ rl \in [Ips -> Stamps] /\ granted \in [Ips -> Stamps]
      /\ rl[i] \in Stamps /\ granted[i] \in Stamps
      /\ RateWindow \in Nat \ {0} /\ RateWindow \in Nat /\ RateMax \in Nat
  BY ClockNeverGoesBack, LimitsAssumption DEF Inv, TypeOK
<1>2. /\ Covered(granted[i], rl[i], now, RateWindow)
      /\ SumFunction(granted[i]) <= RateMax
  BY DEF Inv, RateAccount
<1>3. ASSUME UNCHANGED <<now, rl, granted>>
      PROVE  Honoured
  BY <1>2, <1>3
<1>4. ASSUME rl' = rl,
             granted' = [j \in Ips |-> PruneWindow(granted[j], now', RateWindow)]
      PROVE  Honoured
  <2>1. granted'[i] = PruneWindow(granted[i], now', RateWindow) /\ rl'[i] = rl[i]
    BY <1>4
  <2>2. /\ PruneWindow(granted[i], now', RateWindow) \in Stamps
        /\ Covered(PruneWindow(granted[i], now', RateWindow), rl[i], now', RateWindow)
        /\ SumFunction(PruneWindow(granted[i], now', RateWindow)) <= SumFunction(granted[i])
    BY <1>1, <1>2, CoveredLater
  <2>3. /\ SumFunction(granted[i]) \in Nat
        /\ SumFunction(PruneWindow(granted[i], now', RateWindow)) \in Nat
    BY <1>1, <2>2, StampsSum
  <2>4. SumFunction(granted'[i]) <= RateMax
    BY <1>1, <1>2, <2>1, <2>2, <2>3
  <2> QED
    BY <2>1, <2>2, <2>4
<1>5. ASSUME NEW r \in Requests, NEW j \in Ips, RateSlot(r, j)
      PROVE  Honoured
  <2>1. /\ WindowOpen(rl[j], now, RateWindow, RateMax)
        /\ rl' = [rl EXCEPT ![j] = TakeSlot(rl[j], now, RateWindow)]
        /\ granted' = [granted EXCEPT ![j][now] = @ + 1]
        /\ now' = now
    BY <1>5 DEF RateSlot
  <2>2. CASE i = j
    <3>1. granted'[i] = [granted[i] EXCEPT ![now] = @ + 1]
      BY <1>1, <2>1, <2>2
    <3>2. rl'[i] = TakeSlot(rl[i], now, RateWindow)
      BY <1>1, <2>1, <2>2
    <3> QED
      BY <1>1, <1>2, <2>1, <2>2, <3>1, <3>2, CoveredWhenTaken
  <2>3. CASE i # j
    BY <1>1, <1>2, <2>1, <2>3
  <2> QED
    BY <2>2, <2>3
<1>6. ASSUME NEW sweeps \in 0 .. 4, Cleanup(sweeps)
      PROVE  Honoured
  <2>1. /\ now' = now /\ granted' = granted
        /\ rl'[i] = rl[i] \/ (rl'[i] = NoStamps /\ StaleStamps(rl[i], now, RateWindow))
    BY <1>1, <1>6 DEF Cleanup, SweepRates
  <2>2. CASE rl'[i] = rl[i]
    BY <1>2, <2>1, <2>2
  <2>3. CASE rl'[i] = NoStamps /\ StaleStamps(rl[i], now, RateWindow)
    <3>1. Covered(granted[i], NoStamps, now, RateWindow)
      BY <1>1, <1>2, <2>3, CoveredWhenSwept
    <3> QED
      BY <1>2, <2>1, <2>3, <3>1
  <2> QED
    BY <2>1, <2>2, <2>3
<1>7. ASSUME NEW r \in Requests, NEW k \in Keys, NEW later \in SecondRead,
             \/ IpBudgetSpent(r, k, later)
             \/ StartUpstream(r, k, later)
             \/ \E writes \in 1 .. 3 : EvictWhileReserving(r, k, later, writes)
      PROVE  Honoured
  <2>1. /\ rl' = rl
        /\ granted' = [j \in Ips |-> PruneWindow(granted[j], now', RateWindow)]
    BY <1>7 DEF IpBudgetSpent, StartUpstream, EvictWhileReserving
  <2> QED
    BY <1>4, <2>1
<1>8. ASSUME Tick
      PROVE  Honoured
  <2>1. /\ rl' = rl
        /\ granted' = [j \in Ips |-> PruneWindow(granted[j], now', RateWindow)]
    BY <1>8 DEF Tick, stored
  <2> QED
    BY <1>4, <2>1
<1>9. \/ \E r \in Requests, j \in Ips : RateLimited(r, j)
      \/ \E r \in Requests : BadBody(r)
      \/ \E r \in Requests, k \in Keys : CacheHit(r, k) \/ JoinInFlight(r, k)
                                         \/ GlobalBudgetSpent(r, k)
      \/ \E k \in Keys : UpstreamOk(k) \/ UpstreamFailed(k)
      \/ Evict
      \/ UNCHANGED vars
      => UNCHANGED <<now, rl, granted>>
  BY DEF RateLimited, BadBody, CacheHit, JoinInFlight, GlobalBudgetSpent,
         UpstreamOk, UpstreamFailed, Evict, vars, stored, history
<1> HIDE DEF Honoured
<1> QED
  BY <1>3, <1>5, <1>6, <1>7, <1>8, <1>9 DEF Next, Decide, Honoured

-----------------------------------------------------------------------------
(* The cleanup alarm. *)

LEMMA AlarmStep == Inv /\ [Next]_vars => AlarmAccount'
<1> SUFFICES ASSUME Inv, [Next]_vars PROVE AlarmAccount'
  OBVIOUS
<1>1. /\ AlarmAccount
      /\ now \in Nat /\ now' \in Nat /\ now <= now'
      /\ alarm \in Nat \cup {Never}
      /\ CleanupInterval \in Nat \ {0}
  BY ClockNeverGoesBack, LimitsAssumption, HorizonAssumption DEF Inv, TypeOK, Ticks
<1>2. ASSUME now' = now, ScheduleCleanup \/ alarm' = now + CleanupInterval
      PROVE  AlarmAccount'
  BY <1>1, <1>2 DEF AlarmAccount, ScheduleCleanup, Never
<1>a. ASSUME alarm' = alarm PROVE alarm' <= now' + CleanupInterval
  <2>1. alarm \in Int /\ alarm <= now + CleanupInterval
    BY <1>1 DEF AlarmAccount, Never
  <2>2. now \in Int /\ now' \in Int /\ CleanupInterval \in Int /\ now <= now'
    BY <1>1
  <2>3. \A a, s, t, c \in Int : a <= s + c /\ s <= t => a <= t + c
    OBVIOUS
  <2>4. alarm <= now' + CleanupInterval
    BY <2>1, <2>2, <2>3
  <2> QED
    BY <1>a, <2>4
<1>3. ASSUME alarm' = alarm, alarm # Never
      PROVE  AlarmAccount'
  BY <1>3, <1>a DEF AlarmAccount
<1>4. ASSUME alarm' = alarm, UNCHANGED <<stored, req, inFlight>>
      PROVE  AlarmAccount'
  <2>1. UNCHANGED <<rl, ipBudget, cache, stats, req, inFlight>>
    BY <1>4 DEF stored
  <2> QED
    BY <1>1, <1>4, <1>a, <2>1, Zenon DEF AlarmAccount
<1>5. ASSUME NEW r \in Requests, NEW i \in Ips, RateSlot(r, i) \/ RateLimited(r, i)
      PROVE  AlarmAccount'
  BY <1>2, <1>5 DEF RateSlot, RateLimited
<1>6. ASSUME NEW r \in Requests, BadBody(r)
      PROVE  AlarmAccount'
  BY <1>1, <1>3, <1>6 DEF BadBody, AlarmAccount
<1>7. ASSUME NEW r \in Requests, NEW k \in Keys,
             \/ CacheHit(r, k) \/ JoinInFlight(r, k) \/ GlobalBudgetSpent(r, k)
             \/ \E later \in SecondRead :
                  \/ IpBudgetSpent(r, k, later) \/ StartUpstream(r, k, later)
                  \/ \E writes \in 1 .. 3 : EvictWhileReserving(r, k, later, writes)
      PROVE  AlarmAccount'
  <2>1. req[r].pc = "reading" /\ alarm' = alarm
    BY <1>7 DEF CacheHit, JoinInFlight, GlobalBudgetSpent, IpBudgetSpent,
                StartUpstream, EvictWhileReserving, CanReserve, Miss
  <2> QED
    BY <1>1, <1>3, <2>1 DEF AlarmAccount
<1>8. ASSUME NEW k \in Keys, UpstreamOk(k) \/ UpstreamFailed(k)
      PROVE  AlarmAccount'
  BY <1>1, <1>3, <1>8 DEF UpstreamOk, UpstreamFailed, AlarmAccount
<1>9. ASSUME NEW sweeps \in 0 .. 4, Cleanup(sweeps)
      PROVE  AlarmAccount'
  BY <1>2, <1>9 DEF Cleanup, Reschedule
<1>10. CASE Evict
  BY <1>1, <1>3, <1>10 DEF Evict, AlarmAccount
<1>11. CASE Tick
  BY <1>4, <1>11 DEF Tick
<1>12. CASE UNCHANGED vars
  BY <1>4, <1>12 DEF vars
<1> QED
  BY <1>5, <1>6, <1>7, <1>8, <1>9, <1>10, <1>11, <1>12 DEF Next, Decide

-----------------------------------------------------------------------------
(* The theorems. *)

THEOREM Invariance == Spec => []Inv
<1>1. Inv /\ [Next]_vars => Inv'
  BY TypeStep, ServingStep, PaidOnceStep, WorldStep, IpStep, RateStep, AlarmStep DEF Inv
<1> QED
  BY InitInv, <1>1, PTL DEF Spec

\* Every variable keeps its type, for every instance of the pipeline.
THEOREM TypeCorrect == Spec => []TypeOK
<1>1. Inv => TypeOK
  BY DEF Inv
<1> QED
  BY Invariance, <1>1, PTL

\* No date is ever charged beyond the world's limit or an address's share.
THEOREM BudgetsHold == Spec => []WithinDailyBudgets
<1>1. Inv => WithinDailyBudgets
  <2> SUFFICES ASSUME Inv, NEW d \in Days
               PROVE  /\ calls[d] <= DailyMax
                      /\ \A i \in Ips : ipCalls[i][d] <= DailyMaxPerIp
    BY DEF WithinDailyBudgets
  <2>1. /\ calls[d] \in Nat /\ lost[d] \in Nat
        /\ calls[d] + lost[d] <= DailyMax
    BY DEF Inv, TypeOK, WorldAccount
  <2>2. \A i \in Ips : ipCalls[i][d] <= DailyMaxPerIp
    BY DEF Inv, IpAccount, AccountAt
  <2> QED
    BY <2>1, <2>2, LimitsAssumption
<1> QED
  BY Invariance, <1>1, PTL

\* The world's record is an exact account of its date.
THEOREM RecordExact == Spec => []WorldRecordIsExact
<1>1. Inv => WorldRecordIsExact
  BY DEF Inv, WorldAccount
<1> QED
  BY Invariance, <1>1, PTL

\* No address is let through more often in any window than it may, whatever
\* of its list is pruned or swept.
THEOREM RatesHold == Spec => []RateHonoured
<1>1. Inv => RateHonoured
  BY DEF Inv, RateAccount, RateHonoured
<1> QED
  BY Invariance, <1>1, PTL

\* Whatever is stored, a cleanup is due within an interval or overdue.
THEOREM CleanupIsScheduled == Spec => []CleanupScheduled
<1>1. Inv => CleanupScheduled
  BY DEF Inv, AlarmAccount, CleanupScheduled
<1> QED
  BY Invariance, <1>1, PTL

\* A line that is asked for while its call is in the air joins that call: it is not
\* paid for twice.
THEOREM CallsShared == Spec => []PaidOnce
<1>1. Inv => PaidOnce
  BY DEF Inv
<1> QED
  BY Invariance, <1>1, PTL

\* Whoever joined waits for a call that is still in the air, so the one that ends it
\* answers them all.
THEOREM CallsAnswered == Spec => []NoOrphanedWaiter
<1>1. Inv => NoOrphanedWaiter
  BY DEF Inv
<1> QED
  BY Invariance, <1>1, PTL

-----------------------------------------------------------------------------
(* The pipeline implements the abstract daily budget. *)

LEMMA ChargeRefines ==
  ASSUME Inv, [Next]_vars,
         NEW r \in Requests, NEW k \in Keys, NEW later \in SecondRead,
         StartUpstream(r, k, later)
  PROVE  Budget!Charge(req[r].ip)
<1> DEFINE i == req[r].ip
<1>1. /\ i \in Ips
      /\ now' = later /\ now' \in Ticks
      /\ HasRoom(budget, now, DailyMax)
      /\ HasRoom(ipBudget[i], now', DailyMaxPerIp)
      /\ calls' = [calls EXCEPT ![DateOf(now)] = @ + 1]
      /\ ipCalls' = [ipCalls EXCEPT ![i][DateOf(now')] = @ + 1]
  BY ClockNeverGoesBack
     DEF StartUpstream, CanReserve, Miss, Inv, KnownAddress
<1>2. /\ now \in Ticks /\ budget \in BudgetRecord
      /\ ipBudget \in [Ips -> BudgetRecord]
      /\ calls \in [Days -> Nat] /\ lost \in [Days -> Nat]
      /\ ipCalls \in [Ips -> [Days -> Nat]]
  BY DEF Inv, TypeOK
<1>3. /\ DateOf(now) \in Days /\ DateOf(now') \in Days
      /\ DateOf(now) <= DateOf(now')
  BY <1>1, <1>2, DateOfTick, ClockNeverGoesBack
<1>4. calls[DateOf(now)] < DailyMax
  <2>1. /\ Today(budget, now).count < DailyMax
        /\ WorldAccount
    BY <1>1 DEF HasRoom, Inv
  <2>2. calls[DateOf(now)] + lost[DateOf(now)] <= Today(budget, now).count
    BY <1>2, <1>3, <2>1
       DEF Today, WorldAccount, WorldRecordIsExact, BudgetRecord, Days, Never
  <2>3. Today(budget, now).count \in Nat
    BY <1>2 DEF Today, BudgetRecord
  <2> QED
    BY <1>2, <1>3, <2>1, <2>2, <2>3, LimitsAssumption
<1>5. ipCalls[i][DateOf(now')] < DailyMaxPerIp
  <2>1. AccountAt(now', ipBudget[i], ipCalls[i], DailyMaxPerIp)
    <3>1. AccountAt(now, ipBudget[i], ipCalls[i], DailyMaxPerIp)
      BY <1>1 DEF Inv, IpAccount
    <3>2. now <= now'
      BY ClockNeverGoesBack
    <3> QED
      BY <1>1, <1>2, <3>1, <3>2, AccountLater, LimitsAssumption
  <2> QED
    BY <1>1, <1>2, <2>1, AccountHasRoom, LimitsAssumption
<1> HIDE DEF i
<1>6. Budget!Charge(i)
  BY <1>1, <1>3, <1>4, <1>5 DEF Budget!Charge
<1> QED
  BY <1>6 DEF i

\* Whatever the requests, the cleanup and the evictions do, the charges of the
\* pipeline are charges of the abstract budget.
THEOREM Refinement == Spec => ImplementsDailyBudget
<1>1. Init => Budget!Init
  BY DayLengthAssumption DEF Init, Budget!Init, DateOf
<1>2. Inv /\ [Next]_vars => [Budget!Next]_Budget!vars
  <2> SUFFICES ASSUME Inv, [Next]_vars PROVE [Budget!Next]_Budget!vars
    OBVIOUS
  <2>1. /\ DateOf(now') \in Days
        /\ DateOf(now') >= DateOf(now)
    BY ClockNeverGoesBack, DateOfTick, HorizonAssumption
       DEF Inv, TypeOK, Days, Ticks
  <2>2. ASSUME NEW r \in Requests, NEW k \in Keys, NEW later \in SecondRead,
               StartUpstream(r, k, later)
        PROVE  Budget!Next
    <3>1. req[r].ip \in Ips
      BY <2>2 DEF StartUpstream, CanReserve, Miss, Inv, KnownAddress
    <3> QED
      BY <2>1, <2>2, <3>1, ChargeRefines DEF Budget!Next
  <2>3. UNCHANGED <<calls, ipCalls>> => Budget!Next
    BY <2>1 DEF Budget!Next, Budget!NoCharge
  <2>4. \/ UNCHANGED <<calls, ipCalls>>
        \/ \E r \in Requests, k \in Keys, later \in SecondRead :
             StartUpstream(r, k, later)
    BY DEF Next, Decide, RateSlot, RateLimited, BadBody, CacheHit, JoinInFlight,
           GlobalBudgetSpent, IpBudgetSpent, UpstreamOk, UpstreamFailed,
           Cleanup, Evict, EvictWhileReserving, Tick, vars, stored, history
  <2> QED
    BY <2>2, <2>3, <2>4
<1> QED
  BY Invariance, <1>1, <1>2, PTL DEF Spec, ImplementsDailyBudget, Budget!Spec
=============================================================================
