---------------------------- MODULE DailyBudget ----------------------------
(***************************************************************************)
(* What every paid endpoint of the worker promises about money, with no    *)
(* storage, no requests and no failures: a date passes, or one more call   *)
(* is charged to the world and to one address, each on the current date    *)
(* and each only while its limit for that date is not used up.             *)
(***************************************************************************)
EXTENDS Integers

CONSTANTS
  Dates,         \* UTC dates, as numbers
  Payers,        \* addresses
  Limit,         \* calls a day for everyone
  LimitPerPayer  \* calls a day for one address

VARIABLES
  today,    \* the current date
  spent,    \* calls charged to the world, by date
  spentBy   \* calls charged to an address, by date

vars == <<today, spent, spentBy>>

Init ==
  /\ today = 0
  /\ spent = [d \in Dates |-> 0]
  /\ spentBy = [p \in Payers |-> [d \in Dates |-> 0]]

\* The world pays on the date the charge begins, the address on the date it
\* ends: one charge may straddle midnight.
Charge(p) ==
  /\ spent[today] < Limit
  /\ spentBy[p][today'] < LimitPerPayer
  /\ spent' = [spent EXCEPT ![today] = @ + 1]
  /\ spentBy' = [spentBy EXCEPT ![p][today'] = @ + 1]

\* Time passes with nothing charged.
NoCharge == UNCHANGED <<spent, spentBy>>

Next ==
  /\ today' \in {d \in Dates : d >= today}
  /\ NoCharge \/ \E p \in Payers : Charge(p)

Spec == Init /\ [][Next]_vars
=============================================================================
