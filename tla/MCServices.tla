----------------------------- MODULE MCServices -----------------------------
(***************************************************************************)
(* Two addresses and one pair.  The inventions' window is longer than the   *)
(* narrator's; an address has one call a day, and of commentaries so has   *)
(* the world.                                                              *)
(***************************************************************************)
EXTENDS Services, TLC

MCWindow == [l \in Lists |-> IF l = "improvise" THEN 2 ELSE 1]
MCRateMax == [l \in Lists |-> 1]
MCDailyMax == [s \in Services |-> IF s = "commentary" THEN 1 ELSE 2]
MCDailyMaxPerIp == [s \in Services |-> 1]

Alike == Permutations(Ips) \cup Permutations(Requests)
=============================================================================
