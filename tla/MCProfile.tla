------------------------------ MODULE MCProfile ------------------------------
(***************************************************************************)
(* Both builds of the page: three lives of two turns offline, two runs and *)
(* two lives of one turn online.                                           *)
(***************************************************************************)
EXTENDS ProfileArchive

PerBuild(off, on) == [b \in Builds |-> IF b THEN on ELSE off]

MCMaxGames == PerBuild(3, 2)
MCMaxLives == PerBuild(3, 2)
MCMaxTurns == PerBuild(2, 1)
=============================================================================
