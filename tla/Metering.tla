------------------------------ MODULE Metering ------------------------------
(***************************************************************************)
(* The pure meters every paid endpoint of the worker is built from: the    *)
(* UTC-day budget (worker/src/budget.ts), the rolling rate window          *)
(* (worker/src/limiter.ts) and the staleness tests of the cleanup          *)
(* (worker/src/cleanup.ts).                                                *)
(*                                                                         *)
(* Time is a number of ticks; a UTC day is DayLength ticks long.  A        *)
(* storage key that is absent is a distinguished value: NoRecord for a     *)
(* budget record, NoStamps for a list of timestamps, Never for a creation  *)
(* time.  A list of timestamps is kept as a bag: how many stamps carry     *)
(* each tick.  The code only ever appends the current time and filters by  *)
(* age, so the order inside the list carries nothing else.                 *)
(***************************************************************************)
EXTENDS Integers, Functions

CONSTANTS
  DayLength,   \* ticks in one UTC day
  Horizon      \* last tick a behaviour reaches: bounds the clock

ASSUME DayLengthAssumption == DayLength \in Nat \ {0}
ASSUME HorizonAssumption == Horizon \in Nat

Ticks == 0 .. Horizon

Never == -1

-----------------------------------------------------------------------------
(* budget.ts *)

\* The UTC date of an instant.
DateOf(now) == now \div DayLength

Days == 0 .. Horizon      \* every date up to the horizon is among these

NoRecord == [date |-> Never, count |-> 0]

BudgetRecord == [date : Days \cup {Never}, count : Nat]

\* The stored record if it is dated today, a fresh one otherwise.
Today(record, now) ==
  IF record.date = DateOf(now)
    THEN record
    ELSE [date |-> DateOf(now), count |-> 0]

\* Mutant: one call too many.
HasRoomInclusive(record, now, max) == Today(record, now).count <= max

HasRoom(record, now, max) == Today(record, now).count < max

\* The record reserveBudget hands back when there is room.
Reserved(record, now) ==
  [date |-> DateOf(now), count |-> Today(record, now).count + 1]

-----------------------------------------------------------------------------
(* limiter.ts *)

Stamps == [Ticks -> Nat]

NoStamps == [t \in Ticks |-> 0]

PruneWindow(stamps, now, window) ==
  [t \in Ticks |-> IF now - t < window THEN stamps[t] ELSE 0]

\* Whether checkRollingWindow admits one more call.
WindowOpen(stamps, now, window, max) ==
  SumFunction(PruneWindow(stamps, now, window)) < max

\* The list it hands back for storage when it does.
TakeSlot(stamps, now, window) ==
  [PruneWindow(stamps, now, window) EXCEPT ![now] = @ + 1]

-----------------------------------------------------------------------------
(* cleanup.ts and findStaleStatsKeys of stats.ts *)

\* Mutant: one old stamp is enough to drop the list.
AnyStampStale(stamps, now, window) ==
  \E t \in Ticks : stamps[t] > 0 /\ now - t >= window

\* No stamp of the list is inside the window any more.
StaleStamps(stamps, now, window) ==
  \A t \in Ticks : stamps[t] > 0 => now - t >= window

\* Older than maxAge; the age runs from creation (cache) or last use (stats).
Expired(since, now, maxAge) == since # Never /\ now - since > maxAge

\* Mutant: only yesterday's records are spared.
StaleUnlessYesterday(record, now) == record.date # DateOf(now) - 1

\* Dated neither today nor yesterday.
StaleDate(record, now) ==
  record.date \notin {DateOf(now), DateOf(now) - 1}
=============================================================================
