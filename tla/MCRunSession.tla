---------------------------- MODULE MCRunSession ----------------------------
(***************************************************************************)
(* A life of two summers, played in two tabs.                              *)
(***************************************************************************)
EXTENDS RunSession, TLC

Symmetric == Permutations(Tabs) \cup Permutations(Attempts)
=============================================================================
