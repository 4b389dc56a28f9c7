------------------------------ MODULE MCEngine ------------------------------
(***************************************************************************)
(* A world small enough to be lived out in every way: three things to wake *)
(* up among, a tool, a fate, an age to reach and two threats.  The things  *)
(* and their tags are those of content/elements.json.                      *)
(***************************************************************************)
EXTENDS Engine

CONSTANTS stone, stick, grass, axe, war, bronze, ore

Thing(id, act, base, kind, stuff, traits, words) ==
  [id |-> id, origin |-> "canon", parents |-> {}, act |-> act, base |-> base, depth |-> 0,
   kind |-> kind, stuff |-> stuff, traits |-> traits, scale |-> "hand",
   name |-> Name("canon", {id}, words, FALSE)]

MCCanon ==
  (stone :> Thing(stone, 1, TRUE, "material", "stone", {"hard", "heavy"}, 1))
  @@ (stick :> Thing(stick, 1, TRUE, "material", "wood", {"dry", "light"}, 1))
  @@ (grass :> Thing(grass, 1, TRUE, "material", "plant", {"dry", "light", "insulating"}, 2))
  @@ (axe :> Thing(axe, 1, FALSE, "tool", "stone", {"sharp", "hard", "weapon"}, 2))
  @@ (war :> Thing(war, 1, FALSE, "abstract", "none", {"loud"}, 1))
  @@ (bronze :> Thing(bronze, 1, FALSE, "material", "metal", {"hard", "heavy"}, 1))
  @@ (ore :> Thing(ore, 2, TRUE, "material", "stone", {"hard"}, 1))

Recipe(pair, result) ==
  [pair |-> pair, result |-> result, requires |-> {}, blockedBy |-> {}, sets |-> {},
   cost |-> 1, solves |-> None, ageUp |-> FALSE, ending |-> None]

MCRecipes ==
  <<[Recipe({stone, stick}, axe) EXCEPT !.sets = {"armed"}],
    [Recipe({axe}, war) EXCEPT !.ending = "general"],
    [Recipe({axe, stone}, bronze) EXCEPT !.cost = 2, !.ageUp = TRUE],
    [Recipe({stick}, axe) EXCEPT !.requires = {"armed"}]>>

MCActs == <<[problems |-> <<"cold", "tool">>], [problems |-> <<>>]>>

MCPredicates ==
  [cold |-> [all |-> {[Free EXCEPT !.crafted = TRUE]},
             any |-> {[Free EXCEPT !.traits = {"insulating"}], [Free EXCEPT !.traits = {"hot"}]},
             not |-> {}],
   tool |-> [all |-> {[Free EXCEPT !.kind = {"tool"}, !.traits = {"sharp"}]}, any |-> {}, not |-> {}],
   wolves |-> [all |-> {[Free EXCEPT !.traits = {"weapon"}]}, any |-> {},
               not |-> {[Free EXCEPT !.traits = {"insulating"}]}],
   drought |-> [all |-> {[Free EXCEPT !.stuff = {"water"}]}, any |-> {}, not |-> {}]]

Threat(turns, minPage, repeatable, cooldown, failEnding, also) ==
  [turns |-> turns, minPage |-> minPage, repeatable |-> repeatable, cooldown |-> cooldown,
   failEnding |-> failEnding, alsoSolvedBy |-> also]

MCChallenges ==
  [wolves |-> Threat(2, 1, TRUE, 2, "eaten", {}),
   drought |-> Threat(2, 2, FALSE, 2, "parched", {bronze})]

MCRules == {[predicate |-> "cold", branch |-> "keeper", ending |-> "saint"]}

MCBranches ==
  [warrior |-> {{<<"ending", "general">>}},
   survivor |-> {{<<"solvedNeed", "cold">>, <<"challengeSolved", "wolves">>},
                 {<<"ending", "age">>, <<"flag", "armed">>}},
   keeper |-> {{<<"challengeFailed", "drought">>, <<"discovery", axe>>}}]
=============================================================================
