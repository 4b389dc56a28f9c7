------------------------------ MODULE MCVoice -------------------------------
(***************************************************************************)
(* A first age with two problems and a second one without a story, told by *)
(* a narrator with a few lines of every sort.  The thresholds are smaller  *)
(* than the code's, in the same order.                                     *)
(***************************************************************************)
EXTENDS Voice

CONSTANTS stone, stick, axe, fire, war, bronze, ash

Thing(id, act, base, kind, stuff, traits) ==
  [id |-> id, origin |-> "canon", parents |-> {}, act |-> act, base |-> base, depth |-> 0,
   kind |-> kind, stuff |-> stuff, traits |-> traits, scale |-> "hand",
   name |-> Name("canon", {id}, 1, FALSE)]

MCCanon ==
  (stone :> Thing(stone, 1, TRUE, "material", "stone", {"hard"}))
  @@ (stick :> Thing(stick, 1, TRUE, "material", "wood", {"dry"}))
  @@ (axe :> Thing(axe, 1, FALSE, "tool", "stone", {"sharp"}))
  @@ (fire :> Thing(fire, 1, FALSE, "phenomenon", "fire", {"hot"}))
  @@ (war :> Thing(war, 1, FALSE, "abstract", "none", {"loud"}))
  @@ (bronze :> Thing(bronze, 1, FALSE, "material", "metal", {"hard"}))
  @@ (ash :> Thing(ash, 1, FALSE, "material", "none", {"light"}))

Recipe(pair, result) ==
  [pair |-> pair, result |-> result, requires |-> {}, blockedBy |-> {}, sets |-> {},
   cost |-> 1, solves |-> None, ageUp |-> FALSE, ending |-> None, line |-> None, comic |-> FALSE]

MCRecipes ==
  <<Recipe({stone, stick}, axe),
    [Recipe({axe}, war) EXCEPT !.comic = TRUE, !.sets = {"armed"}],
    [Recipe({stick}, ash) EXCEPT !.requires = {"armed"}],
    [Recipe({axe, stick}, fire) EXCEPT !.line = "story-fire"],
    [Recipe({axe, stone}, bronze) EXCEPT !.ageUp = TRUE]>>

Act(problems, introLine, gateLine, ageUpLine) ==
  [problems |-> problems, introLine |-> introLine, gateLine |-> gateLine, ageUpLine |-> ageUpLine]

MCActs == <<Act(<<"cold", "meaning">>, "intro-1", {"gate"}, {"age-up"}),
            Act(<<>>, "intro-2", {}, {})>>

MCPredicates ==
  [cold |-> [all |-> {[Free EXCEPT !.traits = {"hot"}]}, any |-> {}, not |-> {}],
   wolves |-> [all |-> {[Free EXCEPT !.traits = {"loud"}]}, any |-> {}, not |-> {}],
   meaning |-> [all |-> {[Free EXCEPT !.minDepth = 1]}, any |-> {}, not |-> {}]]

MCProblems ==
  [cold |-> [pull |-> "pull-cold", hints |-> <<"hint-cold-1", "hint-cold-2">>],
   meaning |-> [pull |-> "pull-meaning", hints |-> <<"hint-meaning-1">>]]

NoBehavior ==
  [aging |-> <<>>, slow |-> {}, spam |-> <<>>, repeatCombo |-> <<>>, elementSweep |-> <<>>,
   failStreak |-> <<>>, fast |-> <<>>]

NoImprovisation ==
  [absurdSolved |-> {}, challengeSolved |-> {}, problemSolved |-> {}, reused |-> {},
   rejected |-> {}, useless |-> {}]

Untold ==
  [spamElement |-> bronze, behavior |-> NoBehavior, flagMemory |-> <<>>, generic |-> {"gf-3", "gf-4"},
   discoveryFallback |-> {}, obeyedFailure |-> {}, grammar |-> [v \in {} |-> {}],
   defiance |-> <<>>, defianceComic |-> {}, deflected |-> {}, warning |-> {},
   bridge |-> [first |-> {}, continued |-> {}, needs |-> {}],
   improvisation |-> NoImprovisation, resumeLine |-> "resume-2"]

MCScript ==
  <<[Untold EXCEPT
       !.spamElement = stone,
       !.behavior = [NoBehavior EXCEPT !.aging = 2 :> "aging-2", !.slow = {"slow-1"},
                                       !.repeatCombo = 3 :> "repeat-3"],
       !.flagMemory = <<"mem-armed">>,
       !.discoveryFallback = {"found"},
       !.obeyedFailure = {"obeyed"},
       !.grammar = [locked |-> {"locked-1", "locked-2", "locked-3"}],
       !.warning = {"warning"},
       !.improvisation =
         [absurdSolved |-> {"absurd-solved"}, challengeSolved |-> {"challenge-solved"},
          problemSolved |-> {"problem-solved"}, reused |-> {"reused"},
          rejected |-> {"rejected"}, useless |-> {"useless"}],
       !.defiance = <<"defiance-1", "defiance-2", "defiance-3">>,
       !.defianceComic = {"defiance-comic"},
       !.bridge = [first |-> {"bridge-1"}, continued |-> {"bridge-2"}, needs |-> {"cold"}],
       !.resumeLine = "resume-1"],
    Untold>>

MCNeeds == "mem-armed" :> [requires |-> {"armed"}, blockedBy |-> {}]

MCSuggests == "hint-cold-2" :> <<{stick}>>

MCBaked == <<{stone}, "self">> :> "baked"

MCEndings == [age |-> "end-age", eaten |-> "end-eaten"]

MCBranches == [b \in {} |-> {}]

MCChallenges ==
  [wolves |-> [turns |-> 2, minPage |-> 4, repeatable |-> FALSE, cooldown |-> 9,
               failEnding |-> "eaten", alsoSolvedBy |-> {fire},
               line |-> "wolves", successLine |-> "wolves-gone"]]
=============================================================================
