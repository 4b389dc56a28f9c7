----------------------------- MODULE OnlineLife -----------------------------
(***************************************************************************)
(* What a life played online promises, however many tabs play it over      *)
(* whatever network: it begins once, goes on one turn at a time, each of   *)
(* an attempt of its own, takes no turn back, is over for good, and once   *)
(* gone never returns.                                                     *)
(***************************************************************************)
EXTENDS Naturals, Sequences

CONSTANTS Attempts, TurnLimit

VARIABLES
  stage,   \* "unborn", "lived" or "gone"
  turns,   \* the attempts played, none of a life that is gone
  over

Init == stage = "unborn" /\ turns = <<>> /\ over = FALSE

Begin ==
  /\ stage = "unborn"
  /\ stage' = "lived"
  /\ UNCHANGED <<turns, over>>

\* The last summer always ends the life.
Play(id) ==
  /\ stage = "lived"
  /\ ~ over
  /\ \A i \in DOMAIN turns : turns[i] # id
  /\ turns' = Append(turns, id)
  /\ over' \in {Len(turns) + 1 >= TurnLimit, TRUE}
  /\ UNCHANGED stage

Vanish ==
  /\ stage = "lived"
  /\ stage' = "gone"
  /\ turns' = <<>>
  /\ over' = FALSE

Next == Begin \/ (\E id \in Attempts : Play(id)) \/ Vanish

Spec == Init /\ [][Next]_<<stage, turns, over>>
=============================================================================
