--------------------------- MODULE ServicesProofs ---------------------------
(***************************************************************************)
(* Theorems about the other paid endpoints and the quota on new runs, for  *)
(* every number of addresses, pairs and requests and every limit.          *)
(*                                                                         *)
(* The argument is the meters': each list covers what was let through in   *)
(* its window and each record is the account of its payer, whatever the    *)
(* alarm sweeps and wherever an eviction cuts a reservation in two.        *)
(***************************************************************************)
EXTENDS Services, MeteringProofs

-----------------------------------------------------------------------------
(* The inductive invariant. *)

\* The variables the three promises are about hold values of their kind.
Typed ==
  /\ now \in Ticks
  /\ rl \in [Lists -> [Ips -> Stamps]]
  /\ budget \in [Services -> BudgetRecord]
  /\ ipBudget \in [Services -> [Ips -> BudgetRecord]]
  /\ quota \in [global : Stamps, perIp : [Ips -> Stamps]]
  /\ req \in [Requests -> [pc : {"idle", "reading", "waiting", "calling"},
                           service : Services \cup {None},
                           ip : Ips \cup {None}, pair : Pairs \cup {None}]]
  /\ granted \in [Lists -> [Ips -> Stamps]]
  /\ calls \in [Services -> [Days -> Nat]]
  /\ ipCalls \in [Services -> [Ips -> [Days -> Nat]]]
  /\ created \in [Ips -> Stamps]

\* A request that is still to be decided knows the address it came from.
KnownAddress == \A r \in Requests : req[r].pc = "reading" => req[r].ip \in Ips

\* Each service's records are accounts, the world's and every address's.
Accounts ==
  \A s \in Services :
    /\ AccountAt(now, budget[s], calls[s], DailyMax[s])
    /\ \A i \in Ips :
         AccountAt(now, ipBudget[s][i], ipCalls[s][i], DailyMaxPerIp[s])

\* Each list covers what it let through in its window, and no more than it may.
Rates ==
  \A l \in Lists, i \in Ips :
    /\ Covered(granted[l][i], rl[l][i], now, Window[l])
    /\ SumFunction(granted[l][i]) <= RateMax[l]

\* All the runs let through at a tick, whoever asked.
Everyone(runs) == [t \in Ticks |-> SumFunctionOnSet([i \in Ips |-> runs[i][t]], Ips)]

\* The quota's record covers every address's new runs, and its world's stamps
\* cover all of them together: this is why the alarm may delete the record on
\* the word of the world's stamps alone.
Quotas ==
  /\ \A i \in Ips :
       /\ Covered(created[i], quota.perIp[i], now, QuotaWindow)
       /\ SumFunction(created[i]) <= QuotaMaxPerIp
  /\ Covered(Everyone(created), quota.global, now, QuotaWindow)
  /\ SumFunction(Everyone(created)) <= QuotaMax

Inv ==
  /\ Typed
  /\ KnownAddress
  /\ Accounts
  /\ Rates
  /\ Quotas

LEMMA InitInv == Init => Inv
<1> SUFFICES ASSUME Init PROVE Inv
  OBVIOUS
<1> USE DEF Init
<1>1. 0 \in Ticks /\ NoStamps \in Stamps /\ NoRecord \in BudgetRecord
  BY HorizonAssumption, NoStampsSum DEF Ticks, NoRecord, BudgetRecord
<1>2. Typed
  BY <1>1 DEF Typed, NoQuota, Idle
<1>3. KnownAddress
  BY DEF KnownAddress, Idle
<1>4. Accounts
  BY <1>1, AccountOpened, LimitsAssumption DEF Accounts
<1>5. \A w : Covered(NoStamps, NoStamps, 0, w)
  BY DEF Covered, PruneWindow, NoStamps
<1>6. Rates
  BY <1>5, NoStampsSum, LimitsAssumption DEF Rates
<1>7. Everyone(created) = NoStamps
  <2>1. \A t \in Ticks : SumFunctionOnSet([i \in Ips |-> created[i][t]], Ips) = 0
    BY SumOfZeros, LimitsAssumption DEF NoStamps
  <2> QED
    BY <2>1 DEF Everyone, NoStamps
<1>8. Quotas
  BY <1>5, <1>7, NoStampsSum, LimitsAssumption DEF Quotas, NoQuota
<1> QED
  BY <1>2, <1>3, <1>4, <1>6, <1>8 DEF Inv

-----------------------------------------------------------------------------
(* What a step does to the state the promises are about. *)

\* The services, their lists and the numbers that go with them.
LEMMA Numbers ==
  /\ \A s \in Services : /\ DailyMax[s] \in Nat /\ DailyMaxPerIp[s] \in Nat
                         /\ ListOf(s) \in Lists
  /\ Single \subseteq Lists
  /\ \A l \in Lists : Window[l] \in Nat \ {0} /\ Window[l] \in Nat /\ RateMax[l] \in Nat
  /\ QuotaWindow \in Nat \ {0} /\ QuotaWindow \in Nat
  /\ QuotaMax \in Nat /\ QuotaMaxPerIp \in Nat
  BY WindowAssumption, LimitsAssumption
     DEF Lists, ListOf, Services, Shared, Single

LEMMA ClockStep ==
  Inv /\ [Next]_vars =>
    /\ now \in Ticks /\ now' \in Ticks /\ now <= now'
    /\ now' = now \/ Tick
<1> SUFFICES ASSUME Inv, [Next]_vars
             PROVE  /\ now \in Ticks /\ now' \in Ticks /\ now <= now'
                    /\ now' = now \/ Tick
  OBVIOUS
<1>1. now \in Ticks /\ now \in Int
  BY HorizonAssumption DEF Inv, Typed, Ticks
<1>2. now' = now \/ Tick
  BY DEF Next, Receive, Limited, BadBody, Refused, StartSingle, CacheHit,
         JoinInFlight, CannotPay, StartShared, SharedOk, SharedFailed, EndSingle,
         CreateRun, RefuseRun, Cleanup, Evict, EvictAfterSlot, EvictWhileCharging, vars
<1>3. Tick => now' \in Ticks /\ now <= now'
  BY <1>1, HorizonAssumption DEF Tick, Ticks
<1> QED
  BY <1>1, <1>2, <1>3

\* A slot of one list goes to one address, and nothing else of any list changes.
SlotTaken(l, i) ==
  /\ SlotFree(l, i)
  /\ GrantSlot(l, i)
  /\ now' = now

LEMMA RateEffect ==
  Inv /\ [Next]_vars =>
    \/ UNCHANGED <<now, rl, granted>>
    \/ \E l \in Lists, i \in Ips : SlotTaken(l, i)
    \/ \E sweeps \in Sweeps : Cleanup(sweeps)
    \/ Tick
<1> SUFFICES ASSUME Inv, Next
             PROVE  \/ UNCHANGED <<now, rl, granted>>
                    \/ \E l \in Lists, i \in Ips : SlotTaken(l, i)
                    \/ \E sweeps \in Sweeps : Cleanup(sweeps)
                    \/ Tick
  BY DEF vars, stored, history
<1>1. ASSUME NEW r \in Requests, NEW s \in Served, NEW i \in Ips, Receive(r, s, i)
      PROVE  UNCHANGED <<now, rl, granted>> \/ \E l \in Lists, j \in Ips : SlotTaken(l, j)
  <2>1. CASE s \in Shared /\ SlotFree(ListOf(s), i) /\ GrantSlot(ListOf(s), i)
    <3>1. ListOf(s) \in Lists
      BY Numbers, ServedAssumption
    <3>2. now' = now
      BY <1>1 DEF Receive
    <3>3. SlotTaken(ListOf(s), i)
      BY <2>1, <3>2 DEF SlotTaken
    <3> QED
      BY <3>1, <3>3
  <2>2. CASE s \in Single /\ UNCHANGED <<rl, granted>>
    BY <1>1, <2>2 DEF Receive
  <2> QED
    BY <1>1, <2>1, <2>2 DEF Receive
<1>2. ASSUME NEW r \in Requests, Admitted(r), GrantSlot(req[r].service, req[r].ip), now' = now
      PROVE  \E l \in Lists, i \in Ips : SlotTaken(l, i)
  <2>1. /\ req[r].service \in Lists
        /\ req[r].ip \in Ips
        /\ SlotFree(req[r].service, req[r].ip)
    BY <1>2, Numbers DEF Admitted, DecidingSingle, Inv, KnownAddress
  <2> QED
    BY <1>2, <2>1 DEF SlotTaken
<1>3. ASSUME NEW r \in Requests, StartSingle(r)
      PROVE  \E l \in Lists, i \in Ips : SlotTaken(l, i)
  BY <1>2, <1>3 DEF StartSingle
<1>4. ASSUME NEW r \in Requests, NEW both \in BOOLEAN, EvictWhileCharging(r, both)
      PROVE  UNCHANGED <<now, rl, granted>> \/ \E l \in Lists, i \in Ips : SlotTaken(l, i)
  <2>1. CASE req[r].service \in Single
    <3>1. ~ \E k \in Pairs : Miss(r, k)
      BY <2>1 DEF Miss, DecidingPair, Single, Shared
    <3> QED
      BY <1>2, <1>4, <2>1, <3>1 DEF EvictWhileCharging
  <2>2. CASE req[r].service \notin Single
    BY <1>4, <2>2 DEF EvictWhileCharging
  <2> QED
    BY <2>1, <2>2
<1>5. ASSUME NEW r \in Requests, EvictAfterSlot(r)
      PROVE  \E l \in Lists, i \in Ips : SlotTaken(l, i)
  BY <1>2, <1>5 DEF EvictAfterSlot
<1>6. \/ \E s \in Served, i \in Ips : Limited(s, i)
      \/ \E r \in Requests : BadBody(r) \/ Refused(r)
      \/ \E r \in Requests, k \in Pairs :
           CacheHit(r, k) \/ JoinInFlight(r, k) \/ CannotPay(r, k) \/ StartShared(r, k)
      \/ \E s \in Shared, k \in Pairs : SharedOk(s, k) \/ SharedFailed(s, k)
      \/ \E r \in Requests, outcome \in {"accepted", "rejected", "failed"} : EndSingle(r, outcome)
      \/ \E i \in Ips : CreateRun(i) \/ RefuseRun(i)
      \/ Evict
      => UNCHANGED <<now, rl, granted>>
  BY DEF Limited, BadBody, Refused, CacheHit, JoinInFlight, CannotPay, StartShared,
         SharedOk, SharedFailed, EndSingle, CreateRun, RefuseRun, Evict, stored, history
<1> QED
  BY <1>1, <1>3, <1>4, <1>5, <1>6 DEF Next

\* One more call is paid for by the world and by an address, or the world, and
\* perhaps the address, pays for one an eviction prevents.
Charging(s, i) ==
  /\ CanPay(s, i)
  /\ ChargeWorld(s)
  /\ ChargeIp(s, i) \/ UNCHANGED ipBudget
  /\ \/ UNCHANGED charged
     \/ ChargeIp(s, i) /\ CountCall(s, i)
  /\ now' = now

LEMMA MoneyEffect ==
  Inv /\ [Next]_vars =>
    \/ UNCHANGED <<now, budget, ipBudget, charged>>
    \/ \E s \in Services, i \in Ips : Charging(s, i)
    \/ \E sweeps \in Sweeps : Cleanup(sweeps)
    \/ Tick
<1> SUFFICES ASSUME Inv, Next
             PROVE  \/ UNCHANGED <<now, budget, ipBudget, charged>>
                    \/ \E s \in Services, i \in Ips : Charging(s, i)
                    \/ \E sweeps \in Sweeps : Cleanup(sweeps)
                    \/ Tick
  BY DEF vars, stored, history
<1>1. ASSUME NEW r \in Requests, Admitted(r) \/ \E k \in Pairs : Miss(r, k) /\ CanPay(req[r].service, req[r].ip)
      PROVE  /\ req[r].service \in Services
             /\ req[r].ip \in Ips
             /\ CanPay(req[r].service, req[r].ip)
  BY <1>1 DEF Admitted, DecidingSingle, Miss, DecidingPair, Services, Inv, KnownAddress
<1>2. ASSUME NEW r \in Requests, NEW k \in Pairs, StartShared(r, k)
      PROVE  \E s \in Services, i \in Ips : Charging(s, i)
  <2>1. Charging(req[r].service, req[r].ip)
    BY <1>2 DEF StartShared, Charging
  <2> QED
    BY <1>1, <1>2, <2>1 DEF StartShared
<1>3. ASSUME NEW r \in Requests, StartSingle(r)
      PROVE  \E s \in Services, i \in Ips : Charging(s, i)
  <2>1. Charging(req[r].service, req[r].ip)
    BY <1>1, <1>3 DEF StartSingle, Charging
  <2> QED
    BY <1>1, <1>3, <2>1 DEF StartSingle
<1>4. ASSUME NEW r \in Requests, NEW both \in BOOLEAN, EvictWhileCharging(r, both)
      PROVE  \E s \in Services, i \in Ips : Charging(s, i)
  <2>1. Charging(req[r].service, req[r].ip)
    BY <1>1, <1>4 DEF EvictWhileCharging, Charging, charged
  <2> QED
    BY <1>1, <1>4, <2>1 DEF EvictWhileCharging
<1>5. \/ \E r \in Requests, s \in Served, i \in Ips : Receive(r, s, i)
      \/ \E s \in Served, i \in Ips : Limited(s, i)
      \/ \E r \in Requests : BadBody(r) \/ Refused(r)
      \/ \E r \in Requests, k \in Pairs :
           CacheHit(r, k) \/ JoinInFlight(r, k) \/ CannotPay(r, k)
      \/ \E s \in Shared, k \in Pairs : SharedOk(s, k) \/ SharedFailed(s, k)
      \/ \E r \in Requests, outcome \in {"accepted", "rejected", "failed"} : EndSingle(r, outcome)
      \/ \E i \in Ips : CreateRun(i) \/ RefuseRun(i)
      \/ Evict
      \/ \E r \in Requests : EvictAfterSlot(r)
      => UNCHANGED <<now, budget, ipBudget, charged>>
  BY DEF Receive, Limited, BadBody, Refused, CacheHit, JoinInFlight, CannotPay,
         SharedOk, SharedFailed, EndSingle, CreateRun, RefuseRun, Evict, EvictAfterSlot,
         stored, history, charged
<1> QED
  BY <1>2, <1>3, <1>4, <1>5 DEF Next

LEMMA QuotaEffect ==
  [Next]_vars =>
    \/ UNCHANGED <<now, quota, created>>
    \/ \E i \in Ips : CreateRun(i)
    \/ \E sweeps \in Sweeps : Cleanup(sweeps)
    \/ Tick
  BY DEF Next, Receive, Limited, BadBody, Refused, StartSingle, CacheHit,
         JoinInFlight, CannotPay, StartShared, SharedOk, SharedFailed, EndSingle,
         RefuseRun, Evict, EvictAfterSlot, EvictWhileCharging, vars, stored, history

-----------------------------------------------------------------------------
(* The requests being served. *)

LEMMA RequestStep ==
  Inv /\ [Next]_vars =>
    /\ KnownAddress'
    /\ req' \in [Requests -> [pc : {"idle", "reading", "waiting", "calling"},
                              service : Services \cup {None},
                              ip : Ips \cup {None}, pair : Pairs \cup {None}]]
<1> DEFINE Reqs == [pc : {"idle", "reading", "waiting", "calling"},
                    service : Services \cup {None},
                    ip : Ips \cup {None}, pair : Pairs \cup {None}]
           Fine(requests) == /\ requests \in [Requests -> Reqs]
                             /\ \A r \in Requests : requests[r].pc = "reading"
                                                      => requests[r].ip \in Ips
<1> SUFFICES ASSUME Inv, [Next]_vars PROVE Fine(req')
  BY DEF KnownAddress
<1>1. Fine(req)
  BY DEF Inv, Typed, KnownAddress
<1>2. Idle \in Reqs /\ Idle.pc # "reading"
  BY DEF Idle
<1>3. ASSUME NEW R \in SUBSET Requests, req' = [r \in Requests |-> IF r \in R THEN Idle ELSE req[r]]
      PROVE  Fine(req')
  BY <1>1, <1>2, <1>3
<1>4. ASSUME NEW r \in Requests, Finish(r) PROVE Fine(req')
  BY <1>1, <1>2, <1>4 DEF Finish
<1>5. ASSUME NEW r \in Requests, NEW k \in Pairs,
             req' = [req EXCEPT ![r].pc = "waiting", ![r].pair = k]
      PROVE  Fine(req')
  BY <1>1, <1>5
<1>6. ForgetMemory => Fine(req')
  BY <1>2 DEF ForgetMemory
<1>7. ASSUME NEW s \in Shared, NEW k \in Pairs, AnswerAll(s, k) PROVE Fine(req')
  BY <1>1, <1>2, <1>7 DEF AnswerAll
<1>8. ASSUME NEW r \in Requests, NEW s \in Served, NEW i \in Ips, Reading(r, s, i)
      PROVE  Fine(req')
  BY <1>1, <1>8, ServedAssumption DEF Reading
<1>9. ASSUME NEW r \in Requests, StartSingle(r) PROVE Fine(req')
  BY <1>1, <1>9 DEF StartSingle
<1>10. req' = req => Fine(req')
  BY <1>1
<1> HIDE DEF Fine
<1> QED
  BY <1>4, <1>5, <1>6, <1>7, <1>8, <1>9, <1>10
     DEF Next, Receive, Limited, BadBody, Refused, CacheHit, JoinInFlight, CannotPay,
         StartShared, SharedOk, SharedFailed, EndSingle, CreateRun, RefuseRun,
         Cleanup, Evict, EvictAfterSlot, EvictWhileCharging, Tick, vars

-----------------------------------------------------------------------------
(* The rate lists. *)

LEMMA RateStep ==
  Inv /\ [Next]_vars =>
    /\ Rates'
    /\ rl' \in [Lists -> [Ips -> Stamps]]
    /\ granted' \in [Lists -> [Ips -> Stamps]]
<1> SUFFICES ASSUME Inv, [Next]_vars
             PROVE  /\ Rates'
                    /\ rl' \in [Lists -> [Ips -> Stamps]]
                    /\ granted' \in [Lists -> [Ips -> Stamps]]
  OBVIOUS
<1>1. /\ rl \in [Lists -> [Ips -> Stamps]]
      /\ granted \in [Lists -> [Ips -> Stamps]]
      /\ now \in Ticks /\ now' \in Ticks /\ now <= now' /\ now \in Int
      /\ Rates
  BY ClockStep, HorizonAssumption DEF Inv, Typed, Ticks
<1> DEFINE Good(let, stamps, l, t) ==
             /\ let \in Stamps /\ stamps \in Stamps
             /\ Covered(let, stamps, t, Window[l])
             /\ SumFunction(let) <= RateMax[l]
<1>2. \A l \in Lists, i \in Ips : Good(granted[l][i], rl[l][i], l, now)
  BY <1>1 DEF Rates
<1>3. CASE UNCHANGED <<now, rl, granted>>
  BY <1>1, <1>3 DEF Rates
<1>4. ASSUME NEW l \in Lists, NEW i \in Ips, SlotTaken(l, i)
      PROVE  /\ rl' \in [Lists -> [Ips -> Stamps]]
             /\ granted' \in [Lists -> [Ips -> Stamps]]
             /\ \A m \in Lists, j \in Ips : Good(granted'[m][j], rl'[m][j], m, now')
  <2> DEFINE slot == TakeSlot(rl[l][i], now, Window[l])
             let == [granted[l][i] EXCEPT ![now] = @ + 1]
  <2>1. /\ WindowOpen(rl[l][i], now, Window[l], RateMax[l])
        /\ rl' = [rl EXCEPT ![l][i] = slot]
        /\ granted' = [granted EXCEPT ![l][i][now] = @ + 1]
        /\ now' = now
    BY <1>4 DEF SlotTaken, SlotFree, GrantSlot
  <2>2. granted' = [granted EXCEPT ![l][i] = let]
    BY <1>1, <2>1
  <2>3. slot \in Stamps
    BY <1>1, Numbers, TakeSlotType
  <2>4. Good(let, slot, l, now)
    <3>1. /\ granted[l][i] \in Stamps /\ rl[l][i] \in Stamps
          /\ Window[l] \in Nat \ {0} /\ RateMax[l] \in Nat
          /\ Covered(granted[l][i], rl[l][i], now, Window[l])
      BY <1>1, <1>2, Numbers
    <3>2. /\ let \in Stamps
          /\ Covered(let, slot, now, Window[l])
          /\ SumFunction(let) <= RateMax[l]
      BY <1>1, <2>1, <3>1, CoveredWhenTaken
    <3> QED
      BY <2>3, <3>2
  <2> HIDE DEF slot, let
  <2>5. let \in Stamps
    BY <2>4
  <2>6. /\ rl' \in [Lists -> [Ips -> Stamps]]
        /\ granted' \in [Lists -> [Ips -> Stamps]]
    <3>1. \A f \in [Lists -> [Ips -> Stamps]], g \in Stamps :
            [f EXCEPT ![l][i] = g] \in [Lists -> [Ips -> Stamps]]
      OBVIOUS
    <3>2. [rl EXCEPT ![l][i] = slot] \in [Lists -> [Ips -> Stamps]]
      BY <1>1, <2>3, <3>1
    <3>3. [granted EXCEPT ![l][i] = let] \in [Lists -> [Ips -> Stamps]]
      BY <1>1, <2>5, <3>1
    <3> QED
      BY <2>1, <2>2, <3>2, <3>3, Zenon
  <2>7. ASSUME NEW m \in Lists, NEW j \in Ips
        PROVE  Good(granted'[m][j], rl'[m][j], m, now')
    <3>1. CASE m = l /\ j = i
      <4>1. granted'[m][j] = let /\ rl'[m][j] = slot
        BY <1>1, <2>1, <2>2, <3>1
      <4> HIDE DEF Good
      <4> QED
        BY <2>1, <2>4, <3>1, <4>1
    <3>2. CASE ~ (m = l /\ j = i)
      <4>1. granted'[m][j] = granted[m][j] /\ rl'[m][j] = rl[m][j]
        BY <1>1, <2>1, <2>2, <3>2
      <4> HIDE DEF Good
      <4> QED
        BY <1>2, <2>1, <4>1
    <3> QED
      BY <3>1, <3>2
  <2> QED
    BY <2>6, <2>7
<1>5. ASSUME NEW sweeps \in Sweeps, Cleanup(sweeps)
      PROVE  /\ rl' \in [Lists -> [Ips -> Stamps]]
             /\ granted' \in [Lists -> [Ips -> Stamps]]
             /\ \A m \in Lists, j \in Ips : Good(granted'[m][j], rl'[m][j], m, now')
  <2>1. /\ granted' = granted /\ now' = now
        /\ SweepRates(sweeps)
    BY <1>5 DEF Cleanup
  <2>2. ASSUME NEW m \in Lists, NEW j \in Ips
        PROVE  \/ rl'[m][j] = rl[m][j]
               \/ rl'[m][j] = NoStamps /\ StaleStamps(rl[m][j], now, Window[m])
               \/ /\ rl'[m][j] = NoStamps /\ StaleStamps(rl[m][j], now, NarratorWindow)
                  /\ m \in Single
    BY <2>1 DEF SweepRates, FirstSwept, Lists
  <2>3. DOMAIN rl' = Lists /\ \A m \in Lists : DOMAIN rl'[m] = Ips
    BY <2>1 DEF SweepRates
  <2>4. NoStamps \in Stamps
    BY NoStampsSum
  <2>5. rl' \in [Lists -> [Ips -> Stamps]]
    <3>1. rl' = [m \in Lists |-> [j \in Ips |-> rl'[m][j]]]
      BY <2>1 DEF SweepRates
    <3>2. \A m \in Lists, j \in Ips : rl'[m][j] \in Stamps
      BY <1>1, <2>2, <2>4
    <3> QED
      BY <3>1, <3>2
  <2>6. ASSUME NEW m \in Lists, NEW j \in Ips
        PROVE  Good(granted'[m][j], rl'[m][j], m, now')
    <3>1. /\ Good(granted[m][j], rl[m][j], m, now)
          /\ Window[m] \in Nat
          /\ NarratorWindow \in Nat
          /\ m \in Single => Window[m] <= NarratorWindow
          /\ Window[m] <= Window[m]
      BY <1>2, Numbers, WindowAssumption
    <3>2. CASE rl'[m][j] = rl[m][j]
      BY <2>1, <3>1, <3>2
    <3>3. CASE rl'[m][j] = NoStamps /\ StaleStamps(rl[m][j], now, Window[m])
      <4>1. Covered(granted[m][j], NoStamps, now, Window[m])
        BY <1>1, <3>1, <3>3, CoveredWhenSwept
      <4> QED
        BY <2>1, <2>4, <3>1, <3>3, <4>1
    <3>4. CASE /\ rl'[m][j] = NoStamps /\ StaleStamps(rl[m][j], now, NarratorWindow)
               /\ m \in Single
      <4>1. Covered(granted[m][j], NoStamps, now, Window[m])
        BY <1>1, <3>1, <3>4, CoveredWhenSwept
      <4> QED
        BY <2>1, <2>4, <3>1, <3>4, <4>1
    <3> QED
      BY <2>2, <3>2, <3>3, <3>4
  <2> QED
    BY <1>1, <2>1, <2>5, <2>6
<1>6. ASSUME Tick
      PROVE  /\ rl' \in [Lists -> [Ips -> Stamps]]
             /\ granted' \in [Lists -> [Ips -> Stamps]]
             /\ \A m \in Lists, j \in Ips : Good(granted'[m][j], rl'[m][j], m, now')
  <2>1. /\ rl' = rl /\ now' = now + 1
        /\ granted' = [l \in Lists |-> [i \in Ips |-> PruneWindow(granted[l][i], now', Window[l])]]
    BY <1>6 DEF Tick, stored, InWindow
  <2>2. ASSUME NEW m \in Lists, NEW j \in Ips
        PROVE  Good(granted'[m][j], rl'[m][j], m, now')
    <3> DEFINE before == granted[m][j]
               after == PruneWindow(granted[m][j], now', Window[m])
    <3>1. granted'[m][j] = after /\ rl'[m][j] = rl[m][j]
      BY <2>1
    <3>2. /\ before \in Stamps /\ rl[m][j] \in Stamps
          /\ Covered(before, rl[m][j], now, Window[m])
          /\ SumFunction(before) <= RateMax[m]
          /\ Window[m] \in Nat /\ RateMax[m] \in Nat
      BY <1>2, Numbers
    <3>3. /\ after \in Stamps
          /\ Covered(after, rl[m][j], now', Window[m])
          /\ SumFunction(after) <= SumFunction(before)
      BY <1>1, <3>2, CoveredLater
    <3>4. SumFunction(after) \in Nat /\ SumFunction(before) \in Nat
      BY <3>2, <3>3, StampsSum
    <3> HIDE DEF before, after
    <3>5. SumFunction(after) <= RateMax[m]
      BY <3>2, <3>3, <3>4
    <3> QED
      BY <3>1, <3>2, <3>3, <3>5
  <2>3. granted' \in [Lists -> [Ips -> Stamps]]
    <3>1. \A m \in Lists, j \in Ips : granted'[m][j] \in Stamps
      BY <2>2
    <3> QED
      BY <2>1, <3>1
  <2> QED
    BY <1>1, <2>1, <2>2, <2>3
<1> QED
  BY <1>3, <1>4, <1>5, <1>6, <1>1, RateEffect DEF Rates

-----------------------------------------------------------------------------
(* The daily budgets. *)

LEMMA AccountStep ==
  Inv /\ [Next]_vars =>
    /\ Accounts'
    /\ budget' \in [Services -> BudgetRecord]
    /\ ipBudget' \in [Services -> [Ips -> BudgetRecord]]
    /\ calls' \in [Services -> [Days -> Nat]]
    /\ ipCalls' \in [Services -> [Ips -> [Days -> Nat]]]
<1> DEFINE WorldFine(s, t, record, paid) ==
             /\ record \in BudgetRecord /\ paid \in [Days -> Nat]
             /\ AccountAt(t, record, paid, DailyMax[s])
           IpFine(s, t, record, paid) ==
             /\ record \in BudgetRecord /\ paid \in [Days -> Nat]
             /\ AccountAt(t, record, paid, DailyMaxPerIp[s])
           Shaped == /\ DOMAIN budget' = Services /\ DOMAIN calls' = Services
                     /\ budget' = [s \in Services |-> budget'[s]]
                     /\ calls' = [s \in Services |-> calls'[s]]
                     /\ ipBudget' = [s \in Services |-> [i \in Ips |-> ipBudget'[s][i]]]
                     /\ ipCalls' = [s \in Services |-> [i \in Ips |-> ipCalls'[s][i]]]
           Fine == \A s \in Services :
                     /\ WorldFine(s, now', budget'[s], calls'[s])
                     /\ \A i \in Ips : IpFine(s, now', ipBudget'[s][i], ipCalls'[s][i])
<1> SUFFICES ASSUME Inv, [Next]_vars PROVE Shaped /\ Fine
  <2>1. ASSUME Shaped, Fine
        PROVE  /\ Accounts'
               /\ budget' \in [Services -> BudgetRecord]
               /\ ipBudget' \in [Services -> [Ips -> BudgetRecord]]
               /\ calls' \in [Services -> [Days -> Nat]]
               /\ ipCalls' \in [Services -> [Ips -> [Days -> Nat]]]
    <3>1. /\ \A s \in Services : budget'[s] \in BudgetRecord /\ calls'[s] \in [Days -> Nat]
          /\ \A s \in Services, i \in Ips : /\ ipBudget'[s][i] \in BudgetRecord
                                            /\ ipCalls'[s][i] \in [Days -> Nat]
      BY <2>1
    <3>2. Accounts'
      BY <2>1 DEF Accounts
    <3>3. budget' \in [Services -> BudgetRecord] /\ calls' \in [Services -> [Days -> Nat]]
      BY <2>1, <3>1
    <3>4. ipBudget' \in [Services -> [Ips -> BudgetRecord]]
      BY <2>1, <3>1
    <3>5. ipCalls' \in [Services -> [Ips -> [Days -> Nat]]]
      BY <2>1, <3>1
    <3> QED
      BY <3>2, <3>3, <3>4, <3>5
  <2> QED
    BY <2>1
<1>1. /\ budget \in [Services -> BudgetRecord]
      /\ ipBudget \in [Services -> [Ips -> BudgetRecord]]
      /\ calls \in [Services -> [Days -> Nat]]
      /\ ipCalls \in [Services -> [Ips -> [Days -> Nat]]]
      /\ now \in Ticks /\ now' \in Ticks /\ now <= now'
      /\ Accounts
  BY ClockStep DEF Inv, Typed
<1>2. ASSUME NEW s \in Services
      PROVE  /\ WorldFine(s, now', budget[s], calls[s])
             /\ \A i \in Ips : IpFine(s, now', ipBudget[s][i], ipCalls[s][i])
  <2>1. DailyMax[s] \in Nat /\ DailyMaxPerIp[s] \in Nat
    BY Numbers
  <2>2. WorldFine(s, now', budget[s], calls[s])
    <3>1. AccountAt(now, budget[s], calls[s], DailyMax[s])
      BY <1>1 DEF Accounts
    <3> QED
      BY <1>1, <2>1, <3>1, AccountLater
  <2>3. ASSUME NEW i \in Ips PROVE IpFine(s, now', ipBudget[s][i], ipCalls[s][i])
    <3>1. AccountAt(now, ipBudget[s][i], ipCalls[s][i], DailyMaxPerIp[s])
      BY <1>1 DEF Accounts
    <3> QED
      BY <1>1, <2>1, <3>1, AccountLater
  <2> QED
    BY <2>2, <2>3
<1>3. CASE UNCHANGED <<budget, ipBudget, charged>>
  <2>1. budget' = budget /\ ipBudget' = ipBudget /\ calls' = calls /\ ipCalls' = ipCalls
    BY <1>3 DEF charged
  <2>2. Shaped
    BY <1>1, <2>1
  <2>3. Fine
    <3> HIDE DEF WorldFine, IpFine
    <3> QED
      BY <1>2, <2>1
  <2> QED
    BY <2>2, <2>3
<1>4. ASSUME NEW sweeps \in Sweeps, Cleanup(sweeps)
      PROVE  Shaped /\ Fine
  <2>1. /\ budget' = budget /\ calls' = calls /\ ipCalls' = ipCalls /\ now' = now
        /\ SweepIpBudgets(sweeps)
    BY <1>4 DEF Cleanup
  <2>2. Shaped
    <3>1. ipBudget' = [s \in Services |-> [i \in Ips |-> ipBudget'[s][i]]]
      BY <2>1 DEF SweepIpBudgets
    <3> QED
      BY <1>1, <2>1, <3>1
  <2>3. ASSUME NEW s \in Services, NEW i \in Ips
        PROVE  IpFine(s, now', ipBudget'[s][i], ipCalls'[s][i])
    <3>1. \/ ipBudget'[s][i] = ipBudget[s][i]
          \/ ipBudget'[s][i] = NoRecord /\ StaleDate(ipBudget[s][i], now)
      BY <2>1 DEF SweepIpBudgets
    <3>2. CASE ipBudget'[s][i] = ipBudget[s][i]
      BY <1>2, <2>1, <3>2
    <3>3. CASE ipBudget'[s][i] = NoRecord /\ StaleDate(ipBudget[s][i], now)
      <4>1. /\ AccountAt(now, ipBudget[s][i], ipCalls[s][i], DailyMaxPerIp[s])
            /\ DailyMaxPerIp[s] \in Nat
            /\ ipBudget[s][i] \in BudgetRecord /\ ipCalls[s][i] \in [Days -> Nat]
            /\ now <= now
        BY <1>1, <2>1, Numbers DEF Accounts
      <4>2. AccountAt(now, NoRecord, ipCalls[s][i], DailyMaxPerIp[s])
        BY <1>1, <3>3, <4>1, AccountLater
      <4>3. NoRecord \in BudgetRecord
        BY DEF NoRecord, BudgetRecord
      <4> QED
        BY <2>1, <3>3, <4>1, <4>2, <4>3
    <3> QED
      BY <3>1, <3>2, <3>3
  <2>4. Fine
    <3> HIDE DEF WorldFine, IpFine
    <3> QED
      BY <1>2, <2>1, <2>3
  <2> QED
    BY <2>2, <2>4
<1>5. ASSUME NEW s \in Services, NEW i \in Ips, Charging(s, i)
      PROVE  Shaped /\ Fine
  <2> DEFINE record == Reserved(budget[s], now)
             ipRecord == Reserved(ipBudget[s][i], now)
             paid == [calls[s] EXCEPT ![DateOf(now)] = @ + 1]
             ipPaid == [ipCalls[s][i] EXCEPT ![DateOf(now)] = @ + 1]
  <2>1. /\ HasRoom(budget[s], now, DailyMax[s])
        /\ HasRoom(ipBudget[s][i], now, DailyMaxPerIp[s])
        /\ now' = now
        /\ budget' = [budget EXCEPT ![s] = record]
        /\ \/ ipBudget' = ipBudget /\ ipCalls' = ipCalls
           \/ /\ ipBudget' = [ipBudget EXCEPT ![s][i] = ipRecord]
              /\ ipCalls' = ipCalls \/ ipCalls' = [ipCalls EXCEPT ![s][i][DateOf(now)] = @ + 1]
        /\ calls' = calls \/ calls' = [calls EXCEPT ![s][DateOf(now)] = @ + 1]
    <3>1. (ChargeIp(s, i) \/ UNCHANGED ipBudget) /\ (UNCHANGED charged \/ (ChargeIp(s, i) /\ CountCall(s, i)))
      BY <1>5 DEF Charging
    <3>2. \/ ipBudget' = ipBudget /\ ipCalls' = ipCalls
          \/ /\ ipBudget' = [ipBudget EXCEPT ![s][i] = ipRecord]
             /\ ipCalls' = ipCalls \/ ipCalls' = [ipCalls EXCEPT ![s][i][DateOf(now)] = @ + 1]
      BY <3>1 DEF ChargeIp, CountCall, charged
    <3>3. calls' = calls \/ calls' = [calls EXCEPT ![s][DateOf(now)] = @ + 1]
      BY <3>1 DEF CountCall, charged
    <3> QED
      BY <1>5, <3>2, <3>3 DEF Charging, CanPay, WorldHasRoom, IpHasRoom, ChargeWorld
  <2>2. /\ ipCalls' = ipCalls \/ ipCalls' = [ipCalls EXCEPT ![s][i] = ipPaid]
        /\ calls' = calls \/ calls' = [calls EXCEPT ![s] = paid]
    BY <1>1, <2>1
  <2>3. /\ DailyMax[s] \in Nat /\ DailyMaxPerIp[s] \in Nat
        /\ DateOf(now) \in Days
        /\ WorldFine(s, now, budget[s], calls[s])
        /\ IpFine(s, now, ipBudget[s][i], ipCalls[s][i])
    BY <1>1, <1>2, <2>1, Numbers, DateOfTick
  <2>4. WorldFine(s, now, record, calls[s]) /\ WorldFine(s, now, record, paid)
    <3>1. record \in BudgetRecord /\ paid \in [Days -> Nat]
      BY <1>1, <2>3, ReservedRecord
    <3> QED
      BY <1>1, <2>1, <2>3, <3>1, AccountCharged
  <2>5. IpFine(s, now, ipRecord, ipCalls[s][i]) /\ IpFine(s, now, ipRecord, ipPaid)
    <3>1. ipRecord \in BudgetRecord /\ ipPaid \in [Days -> Nat]
      BY <1>1, <2>3, ReservedRecord
    <3> QED
      BY <1>1, <2>1, <2>3, <3>1, AccountCharged
  <2> HIDE DEF record, ipRecord, paid, ipPaid
  <2>6. Shaped
    <3>1. budget' = [q \in Services |-> budget'[q]] /\ DOMAIN budget' = Services
      BY <1>1, <2>1
    <3>2. calls' = [q \in Services |-> calls'[q]] /\ DOMAIN calls' = Services
      BY <1>1, <2>2
    <3>3. ipBudget' = [q \in Services |-> [j \in Ips |-> ipBudget'[q][j]]]
      <4>1. CASE ipBudget' = ipBudget
        BY <1>1, <4>1
      <4>2. CASE ipBudget' = [ipBudget EXCEPT ![s][i] = ipRecord]
        BY <1>1, <4>2
      <4> QED
        BY <2>1, <4>1, <4>2
    <3>4. ipCalls' = [q \in Services |-> [j \in Ips |-> ipCalls'[q][j]]]
      BY <1>1, <2>2
    <3> QED
      BY <3>1, <3>2, <3>3, <3>4
  <2>7. ASSUME NEW q \in Services
        PROVE  WorldFine(q, now', budget'[q], calls'[q])
    <3>1. CASE q = s
      <4>1. budget'[q] = record /\ calls'[q] \in {calls[s], paid}
        BY <1>1, <2>1, <2>2, <3>1
      <4> HIDE DEF WorldFine
      <4> QED
        BY <2>1, <2>4, <3>1, <4>1
    <3>2. CASE q # s
      <4>1. budget'[q] = budget[q] /\ calls'[q] = calls[q]
        BY <1>1, <2>1, <2>2, <3>2
      <4> HIDE DEF WorldFine
      <4> QED
        BY <1>2, <4>1
    <3> QED
      BY <3>1, <3>2
  <2>8. ASSUME NEW q \in Services, NEW j \in Ips
        PROVE  IpFine(q, now', ipBudget'[q][j], ipCalls'[q][j])
    <3>1. CASE q = s /\ j = i
      <4>1. \/ ipBudget'[q][j] = ipBudget[q][j] /\ ipCalls'[q][j] = ipCalls[q][j]
            \/ ipBudget'[q][j] = ipRecord /\ ipCalls'[q][j] \in {ipCalls[s][i], ipPaid}
        BY <1>1, <2>1, <2>2, <3>1
      <4> HIDE DEF IpFine
      <4> QED
        BY <1>2, <2>1, <2>5, <3>1, <4>1
    <3>2. CASE ~ (q = s /\ j = i)
      <4>1. ipBudget'[q][j] = ipBudget[q][j] /\ ipCalls'[q][j] = ipCalls[q][j]
        BY <1>1, <2>1, <2>2, <3>2
      <4> HIDE DEF IpFine
      <4> QED
        BY <1>2, <4>1
    <3> QED
      BY <3>1, <3>2
  <2> QED
    BY <2>6, <2>7, <2>8
<1>6. Tick => UNCHANGED <<budget, ipBudget, charged>>
  BY DEF Tick, stored
<1> HIDE DEF Fine, Shaped
<1> QED
  BY <1>3, <1>4, <1>5, <1>6, MoneyEffect

-----------------------------------------------------------------------------
(* The quota on new runs. *)

\* What everyone was let through, taken together, is a list of stamps.
LEMMA EveryoneType ==
  ASSUME NEW runs \in [Ips -> Stamps]
  PROVE  Everyone(runs) \in Stamps
<1>1. ASSUME NEW t \in Ticks
      PROVE  SumFunctionOnSet([i \in Ips |-> runs[i][t]], Ips) \in Nat
  <2>1. \A i \in Ips : [j \in Ips |-> runs[j][t]][i] \in Nat
    BY DEF Stamps
  <2> QED
    BY <2>1, SumType, LimitsAssumption
<1> QED
  BY <1>1 DEF Everyone, Stamps

\* A run of one address is a run of everyone.
LEMMA EveryoneCreates ==
  ASSUME NEW runs \in [Ips -> Stamps], NEW i \in Ips, NEW t \in Ticks
  PROVE  Everyone([runs EXCEPT ![i][t] = @ + 1]) = [Everyone(runs) EXCEPT ![t] = @ + 1]
<1> DEFINE after == [runs EXCEPT ![i][t] = @ + 1]
           column(c, s) == [j \in Ips |-> c[j][s]]
<1>1. ASSUME NEW s \in Ticks
      PROVE  SumFunctionOnSet(column(after, s), Ips)
               = SumFunctionOnSet(column(runs, s), Ips) + (IF s = t THEN 1 ELSE 0)
  <2>1. \A j \in Ips : /\ column(runs, s)[j] \in Nat
                       /\ column(after, s)[j] = column(runs, s)[j]
                            + (IF s = t /\ j = i THEN 1 ELSE 0)
    BY DEF Stamps
  <2> HIDE DEF column, after
  <2>2. CASE s = t
    BY <2>1, <2>2, SumRaised, LimitsAssumption
  <2>3. CASE s # t
    <3>1. \A j \in Ips : column(runs, s)[j] \in Nat /\ column(after, s)[j] = column(runs, s)[j]
      BY <2>1, <2>3
    <3>2. SumFunctionOnSet(column(after, s), Ips) = SumFunctionOnSet(column(runs, s), Ips)
      BY <3>1, SumEqual, LimitsAssumption
    <3>3. SumFunctionOnSet(column(runs, s), Ips) \in Nat
      BY <3>1, SumType, LimitsAssumption
    <3> QED
      BY <2>3, <3>2, <3>3
  <2> QED
    BY <2>2, <2>3
<1>2. /\ Everyone(after) = [s \in Ticks |-> SumFunctionOnSet(column(after, s), Ips)]
      /\ Everyone(runs) = [s \in Ticks |-> SumFunctionOnSet(column(runs, s), Ips)]
      /\ \A s \in Ticks : Everyone(runs)[s] \in Nat
  BY EveryoneType DEF Everyone, Stamps
<1> HIDE DEF column, after
<1>3. Everyone(after) = [s \in Ticks |-> Everyone(runs)[s] + (IF s = t THEN 1 ELSE 0)]
  BY <1>1, <1>2
<1>4. [Everyone(runs) EXCEPT ![t] = @ + 1]
        = [s \in Ticks |-> Everyone(runs)[s] + (IF s = t THEN 1 ELSE 0)]
  BY <1>2
<1> QED
  BY <1>3, <1>4 DEF after

\* What is out of an address's window is out of everyone's.
LEMMA EveryonePruned ==
  ASSUME NEW runs \in [Ips -> Stamps], NEW t \in Ticks, NEW w \in Nat
  PROVE  Everyone([i \in Ips |-> PruneWindow(runs[i], t, w)]) = PruneWindow(Everyone(runs), t, w)
<1> DEFINE after == [i \in Ips |-> PruneWindow(runs[i], t, w)]
           column(c, s) == [j \in Ips |-> c[j][s]]
<1>1. ASSUME NEW s \in Ticks
      PROVE  SumFunctionOnSet(column(after, s), Ips)
               = IF t - s < w THEN SumFunctionOnSet(column(runs, s), Ips) ELSE 0
  <2>1. \A j \in Ips : /\ column(runs, s)[j] \in Nat
                       /\ column(after, s)[j] = IF t - s < w THEN column(runs, s)[j] ELSE 0
    BY DEF PruneWindow, Stamps
  <2> HIDE DEF column, after
  <2>2. CASE t - s < w
    BY <2>1, <2>2, SumEqual, LimitsAssumption
  <2>3. CASE ~ (t - s < w)
    BY <2>1, <2>3, SumOfZeros, LimitsAssumption
  <2> QED
    BY <2>2, <2>3
<1>2. /\ Everyone(after) = [s \in Ticks |-> SumFunctionOnSet(column(after, s), Ips)]
      /\ Everyone(runs) = [s \in Ticks |-> SumFunctionOnSet(column(runs, s), Ips)]
  BY DEF Everyone
<1> HIDE DEF column, after
<1>3. Everyone(after) = PruneWindow(Everyone(runs), t, w)
  BY <1>1, <1>2 DEF PruneWindow
<1> QED
  BY <1>3 DEF after

\* The addresses' shares, summed, are everyone's.
LEMMA EveryoneSum ==
  ASSUME NEW runs \in [Ips -> Stamps]
  PROVE  SumFunction([i \in Ips |-> SumFunction(runs[i])]) = SumFunction(Everyone(runs))
<1>1. [i \in Ips |-> SumFunction(runs[i])] = [i \in Ips |-> SumFunctionOnSet(runs[i], Ticks)]
  BY StampsSum
<1>2. SumFunction([i \in Ips |-> SumFunctionOnSet(runs[i], Ticks)])
        = SumFunctionOnSet([i \in Ips |-> SumFunctionOnSet(runs[i], Ticks)], Ips)
  BY DEF SumFunction
<1>3. SumFunction(Everyone(runs)) = SumFunctionOnSet(Everyone(runs), Ticks)
  BY EveryoneType, StampsSum
<1>4. runs \in [Ips -> [Ticks -> Nat]]
  BY DEF Stamps
<1>5. SumFunctionOnSet([i \in Ips |-> SumFunctionOnSet(runs[i], Ticks)], Ips)
        = SumFunctionOnSet(Everyone(runs), Ticks)
  BY <1>4, SumExchanged, TicksFinite, LimitsAssumption DEF Everyone
<1> QED
  BY <1>1, <1>2, <1>3, <1>5

\* An address has run at most as often as everyone.
LEMMA EveryoneCovers ==
  ASSUME NEW runs \in [Ips -> Stamps], NEW i \in Ips, NEW t \in Ticks
  PROVE  runs[i][t] <= Everyone(runs)[t]
<1> DEFINE column == [j \in Ips |-> runs[j][t]]
<1>1. \A j \in Ips : column[j] \in Nat
  BY DEF Stamps
<1>2. column[i] = runs[i][t] /\ Everyone(runs)[t] = SumFunctionOnSet(column, Ips)
  BY DEF Everyone
<1> HIDE DEF column
<1> QED
  BY <1>1, <1>2, SumCovers, LimitsAssumption

LEMMA QuotaStep ==
  Inv /\ [Next]_vars =>
    /\ Quotas'
    /\ quota' \in [global : Stamps, perIp : [Ips -> Stamps]]
    /\ created' \in [Ips -> Stamps]
<1> DEFINE W == QuotaWindow
           Good(t, all, own, runs) ==
             /\ all \in Stamps /\ own \in [Ips -> Stamps] /\ runs \in [Ips -> Stamps]
             /\ \A i \in Ips : /\ Covered(runs[i], own[i], t, W)
                               /\ SumFunction(runs[i]) <= QuotaMaxPerIp
             /\ Covered(Everyone(runs), all, t, W)
             /\ SumFunction(Everyone(runs)) <= QuotaMax
<1> SUFFICES ASSUME Inv, [Next]_vars
             PROVE  \E all, own : /\ quota' = [global |-> all, perIp |-> own]
                                  /\ Good(now', all, own, created')
  BY DEF Quotas
<1>1. /\ now \in Ticks /\ now' \in Ticks /\ now <= now' /\ now \in Int
      /\ W \in Nat \ {0} /\ W \in Nat /\ QuotaMax \in Nat /\ QuotaMaxPerIp \in Nat
  BY ClockStep, Numbers, HorizonAssumption DEF Ticks
<1>2. /\ quota = [global |-> quota.global, perIp |-> quota.perIp]
      /\ Good(now, quota.global, quota.perIp, created)
  BY DEF Inv, Typed, Quotas
<1> DEFINE all == quota.global
           own == quota.perIp
<1>3. CASE UNCHANGED <<now, quota, created>>
  BY <1>2, <1>3
<1>4. ASSUME NEW i \in Ips, CreateRun(i)
      PROVE  \E a, o : quota' = [global |-> a, perIp |-> o] /\ Good(now', a, o, created')
  <2> DEFINE newAll == TakeSlot(all, now, W)
             slot == TakeSlot(own[i], now, W)
             newOwn == [own EXCEPT ![i] = slot]
             let == [created[i] EXCEPT ![now] = @ + 1]
  <2>1. /\ SumFunction(PruneWindow(own[i], now, W)) < QuotaMaxPerIp
        /\ SumFunction(PruneWindow(all, now, W)) < QuotaMax
        /\ quota' = [global |-> newAll, perIp |-> newOwn]
        /\ created' = [created EXCEPT ![i][now] = @ + 1]
        /\ now' = now
    BY <1>4 DEF CreateRun, QuotaOpen, Quota
  <2>2. WindowOpen(own[i], now, W, QuotaMaxPerIp) /\ WindowOpen(all, now, W, QuotaMax)
    BY <2>1 DEF WindowOpen
  <2>3. /\ let \in Stamps
        /\ slot \in Stamps
        /\ Covered(let, slot, now, W)
        /\ SumFunction(let) <= QuotaMaxPerIp
    <3>1. /\ created[i] \in Stamps /\ own[i] \in Stamps
          /\ Covered(created[i], own[i], now, W)
      BY <1>2
    <3> HIDE DEF own, W
    <3>2. slot \in Stamps
      BY <1>1, <3>1, TakeSlotType
    <3> QED
      BY <1>1, <2>2, <3>1, <3>2, CoveredWhenTaken
  <2>4. /\ Everyone(created') = [Everyone(created) EXCEPT ![now] = @ + 1]
        /\ Everyone(created) \in Stamps
    BY <1>1, <1>2, <2>1, EveryoneCreates, EveryoneType
  <2>5. /\ newAll \in Stamps
        /\ Covered(Everyone(created'), newAll, now, W)
        /\ SumFunction(Everyone(created')) <= QuotaMax
    <3>1. all \in Stamps /\ Covered(Everyone(created), all, now, W)
      BY <1>2
    <3> HIDE DEF all, W
    <3>2. newAll \in Stamps
      BY <1>1, <3>1, TakeSlotType
    <3> DEFINE more == [Everyone(created) EXCEPT ![now] = @ + 1]
    <3>3. Covered(more, newAll, now, W) /\ SumFunction(more) <= QuotaMax
      BY <1>1, <2>2, <2>4, <3>1, CoveredWhenTaken
    <3> QED
      BY <2>4, <3>2, <3>3
  <2>6. created' = [created EXCEPT ![i] = let]
    BY <1>2, <2>1
  <2> HIDE DEF let, slot, newAll
  <2>7. created' \in [Ips -> Stamps] /\ newOwn \in [Ips -> Stamps]
    BY <1>2, <2>3, <2>6
  <2>8. \A j \in Ips : /\ Covered(created'[j], newOwn[j], now, W)
                       /\ SumFunction(created'[j]) <= QuotaMaxPerIp
    BY <1>2, <2>3, <2>6
  <2>9. Good(now', newAll, newOwn, created')
    BY <2>1, <2>5, <2>7, <2>8
  <2> QED
    BY <2>1, <2>9
<1>5. ASSUME NEW sweeps \in Sweeps, Cleanup(sweeps)
      PROVE  \E a, o : quota' = [global |-> a, perIp |-> o] /\ Good(now', a, o, created')
  <2>1. /\ now' = now /\ created' = created
        /\ quota' = quota \/ quota' = SweepQuota
    BY <1>5 DEF Cleanup
  <2>2. CASE quota' = quota
    BY <1>2, <2>1, <2>2
  <2>3. CASE quota' = NoQuota /\ QuotaIsOld
    <3> DEFINE none == [i \in Ips |-> NoStamps]
    <3>1. StaleStamps(all, now, W)
      BY <2>3 DEF QuotaIsOld
    <3>2. Covered(Everyone(created), NoStamps, now, W)
      <4>1. W <= W
        BY <1>1
      <4>2. all \in Stamps /\ Everyone(created) \in Stamps /\ Covered(Everyone(created), all, now, W)
        BY <1>2, EveryoneType
      <4> HIDE DEF all, W
      <4> QED
        BY <1>1, <3>1, <4>1, <4>2, CoveredWhenSwept
    <3>3. ASSUME NEW i \in Ips
          PROVE  Covered(created[i], none[i], now, W)
      <4>1. \A t \in Ticks : Everyone(created)[t] <= 0 /\ Everyone(created)[t] \in Nat
        <5>1. \A t \in Ticks : PruneWindow(NoStamps, now, W)[t] = 0
          BY DEF PruneWindow, NoStamps
        <5>2. Everyone(created) \in Stamps
          BY <1>2, EveryoneType
        <5> QED
          BY <3>2, <5>1, <5>2 DEF Covered, Stamps
      <4>2. \A t \in Ticks : created[i][t] <= Everyone(created)[t] /\ created[i][t] \in Nat
        BY <1>2, EveryoneCovers DEF Stamps
      <4>3. \A t \in Ticks : created[i][t] = 0
        BY <4>1, <4>2
      <4> QED
        BY <4>3 DEF Covered, PruneWindow, NoStamps
    <3>4. NoStamps \in Stamps /\ none \in [Ips -> Stamps]
      BY NoStampsSum
    <3> HIDE DEF none
    <3>5. Good(now', NoStamps, none, created')
      BY <1>2, <2>1, <3>2, <3>3, <3>4
    <3>6. quota' = [global |-> NoStamps, perIp |-> none]
      BY <2>3 DEF NoQuota, none
    <3> QED
      BY <3>5, <3>6
  <2>4. CASE quota' = [global |-> Quota(quota.global),
                       perIp |-> [i \in Ips |-> Quota(quota.perIp[i])]]
    <3> DEFINE newAll == PruneWindow(all, now, W)
               newOwn == [i \in Ips |-> PruneWindow(own[i], now, W)]
    <3>1. /\ newAll \in Stamps
          /\ Covered(Everyone(created), newAll, now, W)
      <4>1. all \in Stamps /\ Everyone(created) \in Stamps /\ Covered(Everyone(created), all, now, W)
        BY <1>2, EveryoneType
      <4> HIDE DEF all, W
      <4> QED
        BY <1>1, <4>1, CoveredWhenPruned, PruneType
    <3>2. ASSUME NEW i \in Ips
          PROVE  newOwn[i] \in Stamps /\ Covered(created[i], newOwn[i], now, W)
      <4>1. own[i] \in Stamps /\ created[i] \in Stamps /\ Covered(created[i], own[i], now, W)
        BY <1>2
      <4> HIDE DEF own, W
      <4> QED
        BY <1>1, <4>1, CoveredWhenPruned, PruneType
    <3>3. newOwn \in [Ips -> Stamps]
      BY <3>2
    <3>4. quota' = [global |-> newAll, perIp |-> newOwn]
      BY <2>4 DEF Quota
    <3> HIDE DEF newAll, newOwn
    <3>5. Good(now', newAll, newOwn, created')
      BY <1>2, <2>1, <3>1, <3>2, <3>3
    <3> QED
      BY <3>4, <3>5
  <2> QED
    BY <2>1, <2>2, <2>3, <2>4 DEF SweepQuota
<1>6. ASSUME Tick
      PROVE  \E a, o : quota' = [global |-> a, perIp |-> o] /\ Good(now', a, o, created')
  <2>1. /\ quota' = quota /\ now' = now + 1
        /\ created' = [i \in Ips |-> PruneWindow(created[i], now', W)]
    BY <1>6 DEF Tick, stored, InWindow
  <2>2. ASSUME NEW i \in Ips
        PROVE  /\ created'[i] \in Stamps
               /\ Covered(created'[i], own[i], now', W)
               /\ SumFunction(created'[i]) <= QuotaMaxPerIp
    <3>1. /\ created[i] \in Stamps /\ own[i] \in Stamps
          /\ Covered(created[i], own[i], now, W)
          /\ SumFunction(created[i]) <= QuotaMaxPerIp
      BY <1>2
    <3>2. created'[i] = PruneWindow(created[i], now', W)
      BY <2>1
    <3> HIDE DEF own, W
    <3>3. /\ created'[i] \in Stamps
          /\ Covered(created'[i], own[i], now', W)
          /\ SumFunction(created'[i]) <= SumFunction(created[i])
      BY <1>1, <3>1, <3>2, CoveredLater
    <3>4. SumFunction(created'[i]) \in Nat /\ SumFunction(created[i]) \in Nat
      BY <3>1, <3>3, StampsSum
    <3>5. SumFunction(created'[i]) <= QuotaMaxPerIp
      BY <1>1, <3>1, <3>3, <3>4
    <3> QED
      BY <3>3, <3>5
  <2>3. created' \in [Ips -> Stamps]
    BY <2>1, <2>2
  <2>4. /\ Covered(Everyone(created'), all, now', W)
        /\ SumFunction(Everyone(created')) <= QuotaMax
    <3>1. /\ Everyone(created) \in Stamps /\ all \in Stamps
          /\ Covered(Everyone(created), all, now, W)
          /\ SumFunction(Everyone(created)) <= QuotaMax
      BY <1>2, EveryoneType
    <3>2. Everyone(created') = PruneWindow(Everyone(created), now', W)
      BY <1>1, <1>2, <2>1, EveryonePruned
    <3> HIDE DEF all, W
    <3>3. /\ Everyone(created') \in Stamps
          /\ Covered(Everyone(created'), all, now', W)
          /\ SumFunction(Everyone(created')) <= SumFunction(Everyone(created))
      BY <1>1, <3>1, <3>2, CoveredLater
    <3>4. SumFunction(Everyone(created')) \in Nat /\ SumFunction(Everyone(created)) \in Nat
      BY <3>1, <3>3, StampsSum
    <3>5. SumFunction(Everyone(created')) <= QuotaMax
      BY <1>1, <3>1, <3>3, <3>4
    <3> QED
      BY <3>3, <3>5
  <2>5. Good(now', all, own, created')
    BY <1>2, <2>2, <2>3, <2>4
  <2> QED
    BY <1>2, <2>1, <2>5
<1> HIDE DEF Good
<1> QED
  BY <1>3, <1>4, <1>5, <1>6, QuotaEffect

-----------------------------------------------------------------------------
(* The theorems. *)

THEOREM Invariance == Spec => []Inv
<1>1. Inv /\ [Next]_vars => Inv'
  <2> SUFFICES ASSUME Inv, [Next]_vars PROVE Inv'
    OBVIOUS
  <2>1. now' \in Ticks
    BY ClockStep
  <2>2. Typed'
    BY <2>1, RequestStep, RateStep, AccountStep, QuotaStep DEF Typed
  <2> QED
    BY <2>2, RequestStep, RateStep, AccountStep, QuotaStep DEF Inv
<1> QED
  BY InitInv, <1>1, PTL DEF Spec

\* No list lets an address through more often in any of its windows than it
\* may, though endpoints share lists and the alarm sweeps with other windows.
THEOREM RatesHold == Spec => []ServiceRatesHonoured
<1>1. Inv => ServiceRatesHonoured
  BY DEF Inv, Rates, ServiceRatesHonoured
<1> QED
  BY Invariance, <1>1, PTL

\* Within any hour neither an address nor all of them together start more runs
\* than they may, though the alarm rewrites and deletes the record.
THEOREM QuotaHolds == Spec => []CreationsWithinQuota
<1>1. Inv => CreationsWithinQuota
  <2> SUFFICES ASSUME Inv PROVE CreationsWithinQuota
    OBVIOUS
  <2>1. created \in [Ips -> Stamps] /\ Quotas
    BY DEF Inv, Typed
  <2>2. SumFunction([i \in Ips |-> SumFunction(created[i])]) = SumFunction(Everyone(created))
    BY <2>1, EveryoneSum
  <2> QED
    BY <2>1, <2>2 DEF Quotas, CreationsWithinQuota
<1> QED
  BY Invariance, <1>1, PTL

-----------------------------------------------------------------------------
(* Each endpoint implements the abstract daily budget. *)

LEMMA DateStep ==
  Inv /\ [Next]_vars => DateOf(now') \in {d \in Days : d >= DateOf(now)}
  BY ClockStep, DateOfTick, DateOfMonotone DEF Days

\* A step charges a service nothing, or one call within both limits.
ChargesTo(s, i) ==
  /\ calls[s][DateOf(now)] < DailyMax[s]
  /\ ipCalls[s][i][DateOf(now')] < DailyMaxPerIp[s]
  /\ calls'[s] = [calls[s] EXCEPT ![DateOf(now)] = @ + 1]
  /\ ipCalls'[s] = [ipCalls[s] EXCEPT ![i][DateOf(now')] = @ + 1]

LEMMA ChargesOf ==
  Inv /\ [Next]_vars =>
    \A s \in Services : \/ UNCHANGED <<calls[s], ipCalls[s]>>
                        \/ \E i \in Ips : ChargesTo(s, i)
<1> SUFFICES ASSUME Inv, [Next]_vars, NEW s \in Services
             PROVE  \/ UNCHANGED <<calls[s], ipCalls[s]>>
                    \/ \E i \in Ips : ChargesTo(s, i)
  OBVIOUS
<1>1. /\ budget \in [Services -> BudgetRecord]
      /\ ipBudget \in [Services -> [Ips -> BudgetRecord]]
      /\ calls \in [Services -> [Days -> Nat]]
      /\ ipCalls \in [Services -> [Ips -> [Days -> Nat]]]
      /\ now \in Ticks
      /\ Accounts
  BY DEF Inv, Typed
<1>2. UNCHANGED charged => UNCHANGED <<calls[s], ipCalls[s]>>
  BY DEF charged
<1>3. ASSUME NEW q \in Services, NEW i \in Ips, Charging(q, i), CountCall(q, i)
      PROVE  \/ UNCHANGED <<calls[s], ipCalls[s]>>
             \/ ChargesTo(s, i)
  <2>1. /\ calls' = [calls EXCEPT ![q][DateOf(now)] = @ + 1]
        /\ ipCalls' = [ipCalls EXCEPT ![q][i][DateOf(now)] = @ + 1]
        /\ HasRoom(budget[q], now, DailyMax[q])
        /\ HasRoom(ipBudget[q][i], now, DailyMaxPerIp[q])
        /\ now' = now
    BY <1>3 DEF CountCall, Charging, CanPay, WorldHasRoom, IpHasRoom
  <2>2. CASE s # q
    BY <1>1, <2>1, <2>2
  <2>3. CASE s = q
    <3>1. calls[s][DateOf(now)] < DailyMax[s]
      <4>1. /\ AccountAt(now, budget[s], calls[s], DailyMax[s])
            /\ DailyMax[s] \in Nat
            /\ budget[s] \in BudgetRecord /\ calls[s] \in [Days -> Nat]
        BY <1>1, Numbers DEF Accounts
      <4> QED
        BY <1>1, <2>1, <2>3, <4>1, AccountHasRoom
    <3>2. ipCalls[s][i][DateOf(now)] < DailyMaxPerIp[s]
      <4>1. /\ AccountAt(now, ipBudget[s][i], ipCalls[s][i], DailyMaxPerIp[s])
            /\ DailyMaxPerIp[s] \in Nat
            /\ ipBudget[s][i] \in BudgetRecord /\ ipCalls[s][i] \in [Days -> Nat]
        BY <1>1, Numbers DEF Accounts
      <4> QED
        BY <1>1, <2>1, <2>3, <4>1, AccountHasRoom
    <3>3. /\ calls'[s] = [calls[s] EXCEPT ![DateOf(now)] = @ + 1]
          /\ ipCalls'[s] = [ipCalls[s] EXCEPT ![i][DateOf(now)] = @ + 1]
      BY <1>1, <2>1, <2>3
    <3> QED
      BY <2>1, <3>1, <3>2, <3>3 DEF ChargesTo
  <2> QED
    BY <2>2, <2>3
<1>4. (\E sweeps \in Sweeps : Cleanup(sweeps)) \/ Tick => UNCHANGED charged
  BY DEF Cleanup, Tick, charged
<1> QED
  BY <1>2, <1>3, <1>4, MoneyEffect DEF Charging

\* Whatever evictions and the alarm do between the writes, what each of the
\* four endpoints charges are charges of the abstract daily budget.
THEOREM Refinement == Spec => ImplementsDailyBudgets
<1>1. /\ Init => Inventions!Init
      /\ Inv /\ [Next]_vars => [Inventions!Next]_Inventions!vars
  <2>1. "improvise" \in Services
    BY DEF Services, Shared, Single
  <2>2. Init => Inventions!Init
    BY <2>1, DayLengthAssumption DEF Init, Inventions!Init, DateOf
  <2>3. ASSUME Inv, [Next]_vars PROVE Inventions!Next
    BY <2>1, <2>3, DateStep, ChargesOf DEF Inventions!Next, Inventions!NoCharge, Inventions!Charge, ChargesTo
  <2> QED
    BY <2>2, <2>3
<1>2. /\ Init => Proposals!Init
      /\ Inv /\ [Next]_vars => [Proposals!Next]_Proposals!vars
  <2>1. "generated" \in Services
    BY DEF Services, Shared, Single
  <2>2. Init => Proposals!Init
    BY <2>1, DayLengthAssumption DEF Init, Proposals!Init, DateOf
  <2>3. ASSUME Inv, [Next]_vars PROVE Proposals!Next
    BY <2>1, <2>3, DateStep, ChargesOf DEF Proposals!Next, Proposals!NoCharge, Proposals!Charge, ChargesTo
  <2> QED
    BY <2>2, <2>3
<1>3. /\ Init => Commentaries!Init
      /\ Inv /\ [Next]_vars => [Commentaries!Next]_Commentaries!vars
  <2>1. "commentary" \in Services
    BY DEF Services, Shared, Single
  <2>2. Init => Commentaries!Init
    BY <2>1, DayLengthAssumption DEF Init, Commentaries!Init, DateOf
  <2>3. ASSUME Inv, [Next]_vars PROVE Commentaries!Next
    BY <2>1, <2>3, DateStep, ChargesOf DEF Commentaries!Next, Commentaries!NoCharge, Commentaries!Charge, ChargesTo
  <2> QED
    BY <2>2, <2>3
<1>4. /\ Init => Speech!Init
      /\ Inv /\ [Next]_vars => [Speech!Next]_Speech!vars
  <2>1. "tts" \in Services
    BY DEF Services, Shared, Single
  <2>2. Init => Speech!Init
    BY <2>1, DayLengthAssumption DEF Init, Speech!Init, DateOf
  <2>3. ASSUME Inv, [Next]_vars PROVE Speech!Next
    BY <2>1, <2>3, DateStep, ChargesOf DEF Speech!Next, Speech!NoCharge, Speech!Charge, ChargesTo
  <2> QED
    BY <2>2, <2>3
<1>5. Spec => Inventions!Spec
  BY Invariance, <1>1, PTL DEF Spec, Inventions!Spec
<1>6. Spec => Proposals!Spec
  BY Invariance, <1>2, PTL DEF Spec, Proposals!Spec
<1>7. Spec => Commentaries!Spec
  BY Invariance, <1>3, PTL DEF Spec, Commentaries!Spec
<1>8. Spec => Speech!Spec
  BY Invariance, <1>4, PTL DEF Spec, Speech!Spec
<1> QED
  BY <1>5, <1>6, <1>7, <1>8 DEF ImplementsDailyBudgets
=============================================================================
