------------------------------ MODULE Lifespan ------------------------------
(***************************************************************************)
(* What a life promises its player, whatever is combined in it: every      *)
(* attempt costs at least one summer, a life goes on until it is over and  *)
(* not a turn longer, and old age is one of the ways it is over.           *)
(***************************************************************************)
EXTENDS Naturals

CONSTANT TurnLimit

VARIABLES summers, over

Init == summers = 0 /\ over = FALSE

\* A life that has no summers left is over in the same turn.
Live ==
  /\ ~ over
  /\ \E cost \in 1 .. TurnLimit :
       /\ summers' = summers + cost
       /\ over' \in {summers + cost >= TurnLimit, TRUE}

Spec == Init /\ [][Live]_<<summers, over>>
=============================================================================
