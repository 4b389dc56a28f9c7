----------------------------- MODULE MCNarrator -----------------------------
(***************************************************************************)
(* A small narrator pipeline: two addresses, a day of two ticks, and       *)
(* limits low enough that every one of them is reached.                    *)
(***************************************************************************)
EXTENDS Narrator, TLC

Symmetric ==
  Permutations(Ips) \cup Permutations(Keys) \cup Permutations(Requests)
=============================================================================
