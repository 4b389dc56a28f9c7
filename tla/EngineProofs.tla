---------------------------- MODULE EngineProofs ----------------------------
(***************************************************************************)
(* Theorems about one life of Karl, for every content that the assumptions *)
(* of Engine describe, and for every way of attempting.                    *)
(*                                                                         *)
(* A turn is followed through its three parts: what the attempt makes, how *)
(* the challenge clock goes, and what completeTurn() records.  For each    *)
(* part a lemma says what it may do to the game; the invariant follows     *)
(* from the three.                                                         *)
(*                                                                         *)
(* Then the narrator: for each of its rules a lemma says whether what it   *)
(* says is a step of a ladder, and what it remembers of that.              *)
(***************************************************************************)
EXTENDS Voice, FiniteSetTheorems, WellFoundedInduction, TLAPS

-----------------------------------------------------------------------------
(* The shape of a game and of what is in it. *)

Fields ==
  {"act", "discovered", "flags", "solvedProblems", "attempts", "ended", "active", "turnsLeft",
   "seen", "completedBranches", "solvedChallenges", "failedChallenges", "improvised", "credited"}

ElementFields ==
  {"id", "origin", "parents", "act", "base", "depth", "kind", "stuff", "scale", "traits", "name"}

\* Everything but the name.
SameTags(e, f) ==
  /\ e.id = f.id /\ e.parents = f.parents
  /\ e.base = f.base /\ e.depth = f.depth /\ e.kind = f.kind /\ e.stuff = f.stuff
  /\ e.scale = f.scale /\ e.traits = f.traits

\* The inventions of a game, each under its id.
Elements(g) ==
  \A id \in DOMAIN g.improvised : DOMAIN g.improvised[id] = ElementFields /\ g.improvised[id].id = id

Registry(g) ==
  /\ g.discovered \ DOMAIN Canon = DOMAIN g.improvised
  /\ \A id \in DOMAIN g.improvised : g.improvised[id].parents \subseteq g.discovered

\* What an element answers does not depend on its name.
LEMMA NamelessAnswers ==
  ASSUME NEW e, NEW f, SameTags(e, f)
  PROVE  /\ \A need : Solves(e, need) <=> Solves(f, need)
         /\ \A c : Answers(e, c) <=> Answers(f, c)
<1>1. \A clause : Meets(e, clause) <=> Meets(f, clause)
  BY DEF SameTags, Meets
<1>2. \A need : Solves(e, need) <=> Solves(f, need)
  BY <1>1 DEF Solves, Satisfies
<1> QED
  BY <1>2 DEF Answers, SameTags

LEMMA RenamedTags ==
  ASSUME NEW e, DOMAIN e = ElementFields, NEW name
  PROVE  /\ DOMAIN Renamed(e, name) = ElementFields
         /\ SameTags(Renamed(e, name), e)
  BY DEF Renamed, ElementFields, SameTags

LEMMA FallbackShape ==
  ASSUME NEW a, NEW b
  PROVE  /\ DOMAIN Fallback(a, b) = ElementFields
         /\ Fallback(a, b).id = {a.id, b.id} /\ Fallback(a, b).parents = {a.id, b.id}
<1> DEFINE tags == DerivedTags(Deed(a, b), a, b)
           name == FallbackName(Deed(a, b), a, b)
<1>1. Fallback(a, b) = Child(a, b, tags, name)
  BY DEF Fallback, FallbackOf
<1> HIDE DEF tags, name
<1> QED
  BY <1>1 DEF Child, ElementFields, ImprovisedId

\* A thing at hand goes by its id.
LEMMA ElementsById ==
  ASSUME NEW g, Elements(g), Registry(g), NEW id \in g.discovered
  PROVE  /\ Element(g, id).id = id
         /\ id \notin DOMAIN Canon => id \in DOMAIN g.improvised /\ Element(g, id) = g.improvised[id]
  BY RecipesAssumption DEF Elements, Registry, Element

-----------------------------------------------------------------------------
(* First of equals. *)

LEMMA SmallestNumber ==
  ASSUME NEW S \in SUBSET Nat, S # {}
  PROVE  \E x \in S : \A y \in S : x <= y
<1>1. IsWellFoundedOn(OpToRel(<, Nat), Nat)
  BY NatLessThanWellFounded
<1>2. PICK x \in S : \A y \in S : <<y, x>> \notin OpToRel(<, Nat)
  BY <1>1, WFMin
<1>3. ASSUME NEW y \in S PROVE x <= y
  <2>1. <<y, x>> \in Nat \X Nat /\ <<y, x>>[1] = y /\ <<y, x>>[2] = x
    OBVIOUS
  <2>2. ~ (y < x)
    BY <1>2, <2>1, Zenon DEF OpToRel
  <2> QED
    BY <2>2
<1> QED
  BY <1>3

LEMMA MinOfNumbers ==
  ASSUME NEW S \in SUBSET Nat, S # {}
  PROVE  Min(S) \in S
  BY SmallestNumber DEF Min

\* A recipe that matches is one of the book.
LEMMA MatchingRecipe ==
  ASSUME NEW g, NEW a, NEW b, Matching(g, a, b) # None
  PROVE  \E i \in DOMAIN Recipes : Matching(g, a, b) = Recipes[i]
<1> DEFINE open == {i \in RecipesFor(a, b) : Open(g, Recipes[i])}
           demands(i) == Cardinality(Recipes[i].requires)
           most == {i \in open : \A j \in open : demands(i) >= demands(j)}
<1>1. Matching(g, a, b) = IF most = {} THEN None ELSE Recipes[Min(most)]
  BY DEF Matching
<1>2. most \in SUBSET DOMAIN Recipes /\ DOMAIN Recipes \subseteq Nat
  BY RecipesAssumption DEF RecipesFor
<1> HIDE DEF most
<1>3. most # {} => Min(most) \in DOMAIN Recipes
  BY <1>2, MinOfNumbers
<1> QED
  BY <1>1, <1>3

\* A problem that is met is one the element solves.
LEMMA ProblemIsMet ==
  ASSUME NEW g, NEW e, g.act \in 1 .. 1 + Cardinality(AgeUps), ProblemMet(g, e) # None
  PROVE  Solves(e, ProblemMet(g, e))
<1> DEFINE problems == ProblemsOf(g)
           met == {i \in DOMAIN problems :
                     problems[i] \notin g.solvedProblems /\ Solves(e, problems[i])}
<1>1. ProblemMet(g, e) = IF met = {} THEN None ELSE problems[Min(met)]
  BY DEF ProblemMet
<1>2. DOMAIN problems \subseteq Nat
  BY ActsAssumption DEF ProblemsOf
<1>3. met # {} => Min(met) \in met
  <2>1. met \in SUBSET Nat
    BY <1>2
  <2> HIDE DEF met
  <2> QED
    BY <2>1, MinOfNumbers
<1> QED
  BY <1>1, <1>3

-----------------------------------------------------------------------------
(* What an attempt makes of a game. *)

\* There was an act for every age that was reached, and none was entered over an
\* unsolved required problem.
Ages(g) ==
  /\ g.act \in Nat \ {0}
  /\ g.act <= 1 + Cardinality(AgeUps \cap g.discovered)
  /\ \A n \in 1 .. g.act - 1 : Required \cap Range(Acts[n].problems) \subseteq g.solvedProblems

\* What holds of a game in the middle of a turn as well.
Lawful(g) ==
  /\ DOMAIN g = Fields
  /\ g.attempts \in Nat
  /\ IsFiniteSet(g.discovered)
  /\ Elements(g)
  /\ Registry(g)
  /\ Ages(g)

\* What the rules give an invention.
Gifts == {r.branch : r \in Rules}

\* An attempt adds to the game g: nothing is lost, the clock does not go, and only
\* the rules complete a branch or end the life.
Adds(g, h) ==
  /\ DOMAIN h = Fields
  /\ h.active = g.active /\ h.credited = g.credited
  /\ h.solvedChallenges = g.solvedChallenges /\ h.failedChallenges = g.failedChallenges
  /\ g.discovered \subseteq h.discovered
  /\ g.flags \subseteq h.flags
  /\ g.solvedProblems \subseteq h.solvedProblems
  /\ \E cost \in 1 .. TurnLimit : h.attempts = g.attempts + cost - 1
  /\ \A id \in DOMAIN g.improvised :
       id \in DOMAIN h.improvised /\ SameTags(h.improvised[id], g.improvised[id])
  /\ g.completedBranches \subseteq h.completedBranches
  /\ h.completedBranches \ g.completedBranches \subseteq Gifts
  /\ \/ h.ended = g.ended
     \/ g.ended = None /\ h.ended # None /\ EndingsUnlocked(h)

\* An outcome that credits an invention names one that met the need.
Credible(h, o) ==
  o.kind \in {"improvised", "reused"} /\ o.solved # None =>
    /\ o.element.id \in DOMAIN h.improvised
    /\ o.solved \in h.solvedProblems
    /\ Solves(h.improvised[o.element.id], o.solved)

LEMMA AgeUpsFinite == IsFiniteSet(AgeUps)
<1>1. IsFiniteSet({j \in DOMAIN Recipes : Recipes[j].ageUp})
  <2>1. IsFiniteSet(1 .. Len(Recipes))
    BY RecipesAssumption, FS_Interval
  <2> QED
    BY <2>1, RecipesAssumption, FS_Subset
<1>2. AgeUps = {Recipes[i].result : i \in {j \in DOMAIN Recipes : Recipes[j].ageUp}}
  BY DEF AgeUps
<1> DEFINE I == {j \in DOMAIN Recipes : Recipes[j].ageUp}
           f == [i \in I |-> Recipes[i].result]
<1>3. f \in Surjection(I, AgeUps)
  BY <1>2 DEF Surjection
<1> HIDE DEF f
<1> QED
  BY <1>1, <1>3, FS_Surjection

LEMMA ActInBook ==
  ASSUME NEW g, Ages(g)
  PROVE  g.act \in 1 .. 1 + Cardinality(AgeUps)
<1>1. /\ IsFiniteSet(AgeUps \cap g.discovered)
      /\ Cardinality(AgeUps \cap g.discovered) <= Cardinality(AgeUps)
  BY AgeUpsFinite, FS_Subset
<1>2. Cardinality(AgeUps) \in Nat /\ Cardinality(AgeUps \cap g.discovered) \in Nat
  BY <1>1, AgeUpsFinite, FS_CardinalityType
<1> QED
  BY <1>1, <1>2 DEF Ages

LEMMA AddsNothing ==
  ASSUME NEW g, DOMAIN g = Fields, g.attempts \in Nat
  PROVE  Adds(g, g)
  BY ContentAssumption DEF Adds, SameTags

\* A discovery: its recipe is of the book and what it makes was not known.
LEMMA DiscoveryEffect ==
  ASSUME NEW g, Lawful(g), NEW i \in DOMAIN Recipes,
         Recipes[i].result \notin g.discovered, ~ Gated(g, Recipes[i])
  PROVE  LET h == Discovered(g, Recipes[i]).game IN Adds(g, h) /\ Lawful(h)
<1> DEFINE recipe == Recipes[i]
           h == Discovered(g, recipe).game
           new == {recipe.result} \cup (IF recipe.ageUp THEN BaseOf(h.act) ELSE {})
<1>1. /\ DOMAIN h = Fields
      /\ h.active = g.active /\ h.credited = g.credited
      /\ h.solvedChallenges = g.solvedChallenges /\ h.failedChallenges = g.failedChallenges
      /\ g.flags \subseteq h.flags /\ g.solvedProblems \subseteq h.solvedProblems
      /\ h.attempts = g.attempts + recipe.cost - 1
      /\ h.improvised = g.improvised /\ h.completedBranches = g.completedBranches
      /\ h.ended = g.ended
      /\ h.act = IF recipe.ageUp THEN g.act + 1 ELSE g.act
      /\ h.discovered = g.discovered \cup new
  BY DEF Lawful, Fields, Discovered
<1>2. new \subseteq DOMAIN Canon /\ recipe.result \in new
  BY RecipesAssumption DEF BaseOf
<1> HIDE DEF h
<1>3. Adds(g, h)
  <2>1. recipe.cost \in 1 .. TurnLimit
    BY RecipesAssumption
  <2> QED
    BY <1>1, <2>1 DEF Adds, SameTags
<1>4. h.attempts \in Nat
  BY <1>1, RecipesAssumption DEF Lawful
<1>5. IsFiniteSet(h.discovered)
  <2>1. IsFiniteSet(new)
    BY <1>2, RecipesAssumption, FS_Subset
  <2>2. IsFiniteSet(g.discovered) /\ h.discovered = g.discovered \cup new
    BY <1>1 DEF Lawful
  <2> HIDE DEF new
  <2> QED
    BY <2>1, <2>2, FS_Union
<1>6. Elements(h) /\ Registry(h)
  BY <1>1, <1>2 DEF Lawful, Elements, Registry
<1>7. Ages(h)
  <2> DEFINE before == AgeUps \cap g.discovered
             after == AgeUps \cap h.discovered
  <2>1. /\ g.act \in Nat \ {0} /\ g.act <= 1 + Cardinality(before)
        /\ \A n \in 1 .. g.act - 1 : Required \cap Range(Acts[n].problems) \subseteq g.solvedProblems
    BY DEF Lawful, Ages
  <2>2. /\ IsFiniteSet(before) /\ IsFiniteSet(after) /\ before \subseteq after
        /\ Cardinality(before) \in Nat /\ Cardinality(after) \in Nat
        /\ Cardinality(before) <= Cardinality(after)
    <3>1. IsFiniteSet(before) /\ IsFiniteSet(after) /\ before \subseteq after
      BY <1>1, AgeUpsFinite, FS_Subset
    <3> QED
      BY <3>1, FS_Subset, FS_CardinalityType
  <2>3. CASE ~ recipe.ageUp
    BY <1>1, <2>1, <2>2, <2>3 DEF Ages
  <2>4. CASE recipe.ageUp
    <3>1. recipe.result \in after \ before
      BY <1>1, <1>2, <2>4 DEF AgeUps
    <3>2. Cardinality(before \cup {recipe.result}) = Cardinality(before) + 1
      BY <2>2, <3>1, FS_AddElement
    <3>3. Cardinality(before \cup {recipe.result}) <= Cardinality(after)
      BY <2>2, <3>1, FS_Subset
    <3>4. h.act \in Nat \ {0} /\ h.act <= 1 + Cardinality(after)
      BY <1>1, <2>1, <2>2, <2>4, <3>2, <3>3
    <3>5. Required \cap Range(Acts[g.act].problems) \subseteq g.solvedProblems
      BY <2>4 DEF Gated, ProblemsOf
    <3>6. \A n \in 1 .. h.act - 1 : n = g.act \/ n \in 1 .. g.act - 1
      BY <1>1, <2>1, <2>4
    <3> QED
      BY <1>1, <2>1, <3>4, <3>5, <3>6 DEF Ages
  <2> QED
    BY <2>3, <2>4
<1> QED
  BY <1>1, <1>3, <1>4, <1>5, <1>6, <1>7 DEF Lawful, h

LEMMA ResolveEffect ==
  ASSUME NEW g, Lawful(g), NEW a, NEW b
  PROVE  LET r == Resolve(g, a, b) IN Adds(g, r.game) /\ Lawful(r.game) /\ Credible(r.game, r.outcome)
<1> DEFINE recipe == Matching(g, a, b)
           r == Resolve(g, a, b)
<1>0. Adds(g, g)
  BY AddsNothing DEF Lawful
<1>1. CASE recipe = None \/ recipe.result \in g.discovered \/ Gated(g, recipe)
  <2>1. r.game = g /\ r.outcome.kind \in {"nofuse", "known", "gated"}
    BY <1>1 DEF Resolve, Outcome
  <2> QED
    BY <1>0, <2>1 DEF Credible
<1>2. CASE ~ (recipe = None \/ recipe.result \in g.discovered \/ Gated(g, recipe))
  <2>1. PICK i \in DOMAIN Recipes : recipe = Recipes[i]
    BY <1>2, MatchingRecipe
  <2>2. r = Discovered(g, Recipes[i])
    BY <1>2, <2>1 DEF Resolve
  <2>3. r.outcome.kind = "discovery"
    BY <2>2 DEF Discovered, Outcome
  <2>4. Adds(g, r.game) /\ Lawful(r.game)
    <3> HIDE DEF r, recipe
    <3> QED
      BY <1>2, <2>1, <2>2, DiscoveryEffect
  <2> QED
    BY <2>3, <2>4 DEF Credible
<1> QED
  BY <1>1, <1>2

\* What Made() is given: a new child of two things at hand, or an invention that
\* was known, perhaps by another name.
Fresh(g, e, known, named) ==
  /\ DOMAIN e = ElementFields
  /\ e.id \notin DOMAIN Canon
  /\ e.parents \subseteq g.discovered
  /\ known <=> e.id \in DOMAIN g.improvised
  /\ known => SameTags(e, g.improvised[e.id])
  /\ known /\ ~ named => e = g.improvised[e.id]

LEMMA RegisteredEffect ==
  ASSUME NEW g, Lawful(g), NEW e, NEW known, NEW named \in BOOLEAN, Fresh(g, e, known, named)
  PROVE  LET h == Registered(g, e, named) IN
         /\ DOMAIN h = Fields
         /\ h.active = g.active /\ h.credited = g.credited /\ h.ended = g.ended
         /\ h.solvedChallenges = g.solvedChallenges /\ h.failedChallenges = g.failedChallenges
         /\ h.flags = g.flags /\ h.solvedProblems = g.solvedProblems
         /\ h.attempts = g.attempts /\ h.completedBranches = g.completedBranches
         /\ h.act = g.act
         /\ h.discovered = g.discovered \cup {e.id}
         /\ DOMAIN h.improvised = DOMAIN g.improvised \cup {e.id}
         /\ h.improvised[e.id] = e
         /\ \A id \in DOMAIN g.improvised : SameTags(h.improvised[id], g.improvised[id])
         /\ Elements(h) /\ Registry(h)
<1> DEFINE h == Registered(g, e, named)
<1>1. CASE e.id \in DOMAIN g.improvised /\ ~ named
  <2>1. h = g
    BY <1>1 DEF Registered
  <2>2. e.id \in g.discovered /\ e = g.improvised[e.id]
    BY <1>1 DEF Lawful, Registry, Fresh
  <2> QED
    BY <1>1, <2>1, <2>2 DEF Lawful, SameTags
<1>2. CASE ~ (e.id \in DOMAIN g.improvised /\ ~ named)
  <2>1. h = [g EXCEPT !.improvised = Put(@, e.id, e), !.discovered = @ \cup {e.id}]
    BY <1>2, Zenon DEF Registered
  <2>2. /\ DOMAIN h = Fields
        /\ h.active = g.active /\ h.credited = g.credited /\ h.ended = g.ended
        /\ h.solvedChallenges = g.solvedChallenges /\ h.failedChallenges = g.failedChallenges
        /\ h.flags = g.flags /\ h.solvedProblems = g.solvedProblems
        /\ h.attempts = g.attempts /\ h.completedBranches = g.completedBranches
        /\ h.act = g.act
        /\ h.discovered = g.discovered \cup {e.id}
        /\ h.improvised = Put(g.improvised, e.id, e)
    <3> HIDE DEF h
    <3> QED
      BY <2>1 DEF Lawful, Fields
  <2> HIDE DEF h
  <2>3. /\ DOMAIN h.improvised = DOMAIN g.improvised \cup {e.id}
        /\ h.improvised[e.id] = e
        /\ \A id \in DOMAIN g.improvised : id # e.id => h.improvised[id] = g.improvised[id]
    <3> DEFINE f == g.improvised
               x == e.id
               p == Put(f, x, e)
    <3>1. h.improvised = p
      BY <2>2
    <3>2. /\ DOMAIN p = DOMAIN f \cup {x}
          /\ p[x] = e
          /\ \A id \in DOMAIN f : id # x => p[id] = f[id]
      <4> HIDE DEF f, x
      <4> QED
        BY DEF Put
    <3> HIDE DEF p
    <3> QED
      BY <3>1, <3>2
  <2>4. \A id \in DOMAIN g.improvised : SameTags(h.improvised[id], g.improvised[id])
    BY <2>3 DEF Fresh, SameTags
  <2>5. Elements(h)
    BY <2>3 DEF Lawful, Elements, Fresh
  <2>6. Registry(h)
    BY <2>2, <2>3 DEF Lawful, Registry, Fresh
  <2> QED
    BY <2>2, <2>3, <2>4, <2>5, <2>6 DEF h
<1> QED
  BY <1>1, <1>2

LEMMA EffectsOfRules ==
  ASSUME NEW g, DOMAIN g = Fields, NEW e
  PROVE  LET h == WithEffects(g, e) IN
         /\ DOMAIN h = Fields
         /\ h.active = g.active /\ h.credited = g.credited
         /\ h.solvedChallenges = g.solvedChallenges /\ h.failedChallenges = g.failedChallenges
         /\ h.flags = g.flags /\ h.solvedProblems = g.solvedProblems
         /\ h.attempts = g.attempts /\ h.act = g.act
         /\ h.discovered = g.discovered /\ h.improvised = g.improvised
         /\ g.completedBranches \subseteq h.completedBranches
         /\ h.completedBranches \ g.completedBranches \subseteq Gifts
         /\ \/ h.ended = g.ended
            \/ g.ended = None /\ h.ended # None /\ EndingsUnlocked(h)
<1> DEFINE branches == Unlocked(e, "branch")
           endings == Unlocked(e, "ending")
           k == IF branches = {}
                  THEN g
                  ELSE [g EXCEPT !.completedBranches = @ \cup {CHOOSE b \in branches : TRUE}]
           h == WithEffects(g, e)
<1>1. branches \subseteq Gifts /\ None \notin endings
  BY DEF Unlocked, Gifts
<1>2. h = IF endings # {} /\ EndingsUnlocked(g) /\ g.ended = None
            THEN [k EXCEPT !.ended = CHOOSE x \in endings : TRUE] ELSE k
  BY DEF WithEffects
<1> HIDE DEF branches, endings, h
<1>3. /\ DOMAIN k = Fields
      /\ k.active = g.active /\ k.credited = g.credited /\ k.ended = g.ended
      /\ k.solvedChallenges = g.solvedChallenges /\ k.failedChallenges = g.failedChallenges
      /\ k.flags = g.flags /\ k.solvedProblems = g.solvedProblems
      /\ k.attempts = g.attempts /\ k.act = g.act
      /\ k.discovered = g.discovered /\ k.improvised = g.improvised
      /\ g.completedBranches \subseteq k.completedBranches
      /\ k.completedBranches \ g.completedBranches \subseteq Gifts
  BY <1>1 DEF Fields
<1> HIDE DEF k
<1>4. CASE ~ (endings # {} /\ EndingsUnlocked(g) /\ g.ended = None)
  BY <1>2, <1>3, <1>4 DEF h
<1>5. CASE endings # {} /\ EndingsUnlocked(g) /\ g.ended = None
  <2>1. (CHOOSE x \in endings : TRUE) # None
    BY <1>1, <1>5
  <2>2. h = [k EXCEPT !.ended = CHOOSE x \in endings : TRUE]
    BY <1>2, <1>5
  <2>3. /\ DOMAIN h = Fields
        /\ h.active = k.active /\ h.credited = k.credited
        /\ h.solvedChallenges = k.solvedChallenges /\ h.failedChallenges = k.failedChallenges
        /\ h.flags = k.flags /\ h.solvedProblems = k.solvedProblems
        /\ h.attempts = k.attempts /\ h.act = k.act
        /\ h.discovered = k.discovered /\ h.improvised = k.improvised
        /\ h.completedBranches = k.completedBranches
        /\ h.ended # None
    BY <1>3, <2>1, <2>2 DEF Fields
  <2>4. EndingsUnlocked(h)
    BY <1>3, <1>5, <2>3 DEF EndingsUnlocked, Inventions
  <2> QED
    BY <1>3, <1>5, <2>3, <2>4 DEF h
<1> QED
  BY <1>4, <1>5

LEMMA MadeEffect ==
  ASSUME NEW g, Lawful(g), NEW e, NEW known, NEW named \in BOOLEAN, NEW generated \in BOOLEAN,
         Fresh(g, e, known, named)
  PROVE  LET r == Made(g, e, known, named, generated) IN
         Adds(g, r.game) /\ Lawful(r.game) /\ Credible(r.game, r.outcome)
<1> DEFINE solved == ProblemMet(g, e)
           k == Registered(g, e, named)
           h == [k EXCEPT !.solvedProblems = @ \cup ({solved} \ {None})]
           r == Made(g, e, known, named, generated)
<1>1. /\ DOMAIN k = Fields
      /\ k.active = g.active /\ k.credited = g.credited /\ k.ended = g.ended
      /\ k.solvedChallenges = g.solvedChallenges /\ k.failedChallenges = g.failedChallenges
      /\ k.flags = g.flags /\ k.solvedProblems = g.solvedProblems
      /\ k.attempts = g.attempts /\ k.completedBranches = g.completedBranches
      /\ k.act = g.act
      /\ k.discovered = g.discovered \cup {e.id}
      /\ DOMAIN k.improvised = DOMAIN g.improvised \cup {e.id}
      /\ k.improvised[e.id] = e
      /\ \A id \in DOMAIN g.improvised : SameTags(k.improvised[id], g.improvised[id])
      /\ Elements(k) /\ Registry(k)
  BY RegisteredEffect
<1>2. /\ r.game = IF generated THEN WithEffects(h, e) ELSE h
      /\ r.outcome.element = e /\ r.outcome.solved = solved
  BY DEF Made, Outcome
<1> HIDE DEF k, r, solved
<1>3. /\ DOMAIN h = Fields
      /\ h.active = k.active /\ h.credited = k.credited /\ h.ended = k.ended
      /\ h.solvedChallenges = k.solvedChallenges /\ h.failedChallenges = k.failedChallenges
      /\ h.flags = k.flags /\ h.attempts = k.attempts /\ h.act = k.act
      /\ h.solvedProblems = k.solvedProblems \cup ({solved} \ {None})
      /\ h.completedBranches = k.completedBranches
      /\ h.discovered = k.discovered /\ h.improvised = k.improvised
  BY <1>1 DEF Fields
<1> HIDE DEF h
<1>4. /\ DOMAIN r.game = Fields
      /\ r.game.active = g.active /\ r.game.credited = g.credited
      /\ r.game.solvedChallenges = g.solvedChallenges
      /\ r.game.failedChallenges = g.failedChallenges
      /\ r.game.flags = g.flags /\ r.game.attempts = g.attempts /\ r.game.act = g.act
      /\ r.game.solvedProblems = g.solvedProblems \cup ({solved} \ {None})
      /\ r.game.discovered = k.discovered /\ r.game.improvised = k.improvised
      /\ g.completedBranches \subseteq r.game.completedBranches
      /\ r.game.completedBranches \ g.completedBranches \subseteq Gifts
      /\ \/ r.game.ended = g.ended
         \/ g.ended = None /\ r.game.ended # None /\ EndingsUnlocked(r.game)
  <2>1. CASE generated
    BY <1>1, <1>2, <1>3, <2>1, EffectsOfRules
  <2>2. CASE ~ generated
    BY <1>1, <1>2, <1>3, <2>2
  <2> QED
    BY <2>1, <2>2
<1>5. Adds(g, r.game)
  <2>1. 1 \in 1 .. TurnLimit /\ g.attempts + 1 - 1 = g.attempts
    BY ContentAssumption DEF Lawful
  <2> QED
    BY <1>1, <1>4, <2>1 DEF Adds
<1>6. IsFiniteSet(r.game.discovered)
  <2>1. IsFiniteSet(g.discovered)
    BY DEF Lawful
  <2> QED
    BY <1>1, <1>4, <2>1, FS_AddElement
<1>7. Elements(r.game) /\ Registry(r.game)
  BY <1>1, <1>4 DEF Elements, Registry
<1>8. Ages(r.game)
  <2>1. /\ IsFiniteSet(AgeUps \cap g.discovered) /\ IsFiniteSet(AgeUps \cap r.game.discovered)
        /\ AgeUps \cap g.discovered \subseteq AgeUps \cap r.game.discovered
    BY <1>1, <1>4, AgeUpsFinite, FS_Subset
  <2>2. /\ Cardinality(AgeUps \cap g.discovered) \in Nat
        /\ Cardinality(AgeUps \cap r.game.discovered) \in Nat
        /\ Cardinality(AgeUps \cap g.discovered) <= Cardinality(AgeUps \cap r.game.discovered)
    BY <2>1, FS_Subset, FS_CardinalityType
  <2>3. Ages(g)
    BY DEF Lawful
  <2> QED
    BY <1>4, <2>2, <2>3 DEF Ages
<1>9. Credible(r.game, r.outcome)
  <2>1. solved # None => Solves(e, solved)
    BY ActInBook, ProblemIsMet DEF Lawful, solved
  <2> QED
    BY <1>1, <1>2, <1>4, <2>1 DEF Credible
<1> QED
  BY <1>4, <1>5, <1>6, <1>7, <1>8, <1>9 DEF Lawful, r

LEMMA ImproviseEffect ==
  ASSUME NEW g, Lawful(g), NEW a \in g.discovered, NEW b \in g.discovered, NEW name,
         NEW generated \in BOOLEAN
  PROVE  LET r == Improvise(g, a, b, name, generated) IN
         Adds(g, r.game) /\ Lawful(r.game) /\ Credible(r.game, r.outcome)
<1> DEFINE first == Element(g, a)
           second == Element(g, b)
           id == ImprovisedId(first, second)
           known == id \in DOMAIN g.improvised
           newName == IF known /\ generated THEN None ELSE name
           named == newName # None
           e == Renamed(IF known THEN g.improvised[id] ELSE Fallback(first, second), newName)
           r == Improvise(g, a, b, name, generated)
<1>0. Adds(g, g)
  BY AddsNothing DEF Lawful
<1>1. id = {a, b} /\ first.id = a /\ second.id = b
  BY ElementsById DEF Lawful, ImprovisedId
<1>2. \/ r = Rejected(g)
      \/ id \notin DOMAIN Canon /\ r = Made(g, e, known, named, generated)
  BY DEF Improvise, ImproviseOf
<1>3. CASE r = Rejected(g)
  <2>1. r.game = g /\ r.outcome.kind = "improvise-rejected"
    BY <1>3 DEF Rejected, Outcome
  <2> QED
    BY <1>0, <2>1 DEF Credible
<1>4. CASE id \notin DOMAIN Canon /\ r = Made(g, e, known, named, generated)
  <2>1. ASSUME known PROVE Fresh(g, e, known, named)
    <3>1. /\ DOMAIN g.improvised[id] = ElementFields /\ g.improvised[id].id = id
          /\ g.improvised[id].parents \subseteq g.discovered
      BY <2>1 DEF Lawful, Elements, Registry
    <3>2. e = Renamed(g.improvised[id], newName)
      BY <2>1
    <3>3. ~ named => e = g.improvised[id]
      BY <3>2 DEF Renamed
    <3>4. DOMAIN e = ElementFields /\ SameTags(e, g.improvised[id])
      <4> HIDE DEF e, id, newName
      <4> QED
        BY <3>1, <3>2, RenamedTags
    <3> HIDE DEF e, id, named
    <3> QED
      BY <1>4, <2>1, <3>1, <3>3, <3>4 DEF Fresh, SameTags
  <2>2. ASSUME ~ known PROVE Fresh(g, e, known, named)
    <3> DEFINE f == Fallback(first, second)
    <3>1. DOMAIN f = ElementFields /\ f.id = id /\ f.parents = {a, b}
      BY <1>1, FallbackShape DEF ImprovisedId
    <3>2. e = Renamed(f, newName)
      BY <2>2
    <3> HIDE DEF f, newName, first, second
    <3>3. DOMAIN e = ElementFields /\ e.id = id /\ e.parents = {a, b}
      <4> HIDE DEF e, id
      <4> QED
        BY <3>1, <3>2, RenamedTags DEF SameTags
    <3> HIDE DEF e, id, named
    <3> QED
      BY <1>4, <2>2, <3>3 DEF Fresh
  <2>3. Fresh(g, e, known, named)
    BY <2>1, <2>2
  <2>4. known \in BOOLEAN /\ named \in BOOLEAN
    OBVIOUS
  <2> HIDE DEF e, known, named, r
  <2> QED
    BY <1>4, <2>3, <2>4, MadeEffect DEF r
<1> QED
  BY <1>2, <1>3, <1>4

-----------------------------------------------------------------------------
(* The challenge clock. *)

Threatened(g) == g.active = None \/ g.active \in DOMAIN Challenges

FailEndings == {Challenges[c].failEnding : c \in DOMAIN Challenges}

\* A threat that is told of is one of the book.
Announced(event) == event.kind \in {"spawned", "solved"} => event.challenge \in DOMAIN Challenges

LEMMA TickEffect ==
  ASSUME NEW g, DOMAIN g = Fields, Threatened(g), NEW o, NEW t \in Ticks(g, o)
  PROVE  LET h == t.game IN
         /\ DOMAIN h = Fields /\ Threatened(h)
         /\ h.act = g.act /\ h.attempts = g.attempts
         /\ h.discovered = g.discovered /\ h.improvised = g.improvised
         /\ h.flags = g.flags /\ h.solvedProblems = g.solvedProblems
         /\ h.solvedChallenges = g.solvedChallenges /\ h.failedChallenges = g.failedChallenges
         /\ h.completedBranches = g.completedBranches /\ h.credited = g.credited
         /\ h.ended = g.ended \/ (h.ended \in FailEndings /\ t.event.kind = "failed")
         /\ t.event.kind = "failed" =>
              /\ h.ended \in FailEndings
              /\ \A e \in Available(g) : ~ Answers(e, t.event.challenge)
         /\ t.event.kind = "solved" =>
              t.event.by \in Available(g) /\ Answers(t.event.by, t.event.challenge)
         /\ Announced(t.event)
<1> DEFINE answers == AnswersAtHand(g, o)
           failed == [Calm(g) EXCEPT !.ended = Challenges[g.active].failEnding]
           later == [g EXCEPT !.turnsLeft = @ - 1]
           threat(c) == [g EXCEPT !.active = c, !.turnsLeft = Challenges[c].turns,
                                  !.seen = Put(@, c, g.attempts)]
<1>1. \A h \in {Calm(g), later, g} :
        /\ DOMAIN h = Fields /\ Threatened(h)
        /\ h.act = g.act /\ h.attempts = g.attempts
        /\ h.discovered = g.discovered /\ h.improvised = g.improvised
        /\ h.flags = g.flags /\ h.solvedProblems = g.solvedProblems
        /\ h.solvedChallenges = g.solvedChallenges /\ h.failedChallenges = g.failedChallenges
        /\ h.completedBranches = g.completedBranches /\ h.credited = g.credited
        /\ h.ended = g.ended
  BY DEF Calm, Fields, Threatened
<1>2. CASE g.active # None /\ answers # {}
  <2>1. PICK e \in answers : t = [game |-> Calm(g), event |-> Event("solved", g.active, e)]
    BY <1>2 DEF Ticks
  <2>2. e \in Available(g) /\ Answers(e, g.active)
    BY <2>1 DEF AnswersAtHand, FreshAnswers
  <2>3. t.game = Calm(g) /\ t.event.kind = "solved" /\ t.event.challenge = g.active /\ t.event.by = e
    BY <2>1 DEF Event
  <2> HIDE DEF answers
  <2> QED
    BY <1>1, <1>2, <2>2, <2>3 DEF Announced, Threatened
<1>3. CASE g.active # None /\ answers = {} /\ g.turnsLeft <= 1
  <2>1. t = [game |-> failed, event |-> Event("failed", g.active, None)]
    BY <1>3 DEF Ticks
  <2>2. t.game = failed /\ t.event.kind = "failed" /\ t.event.challenge = g.active
    BY <2>1 DEF Event
  <2>3. \A e \in Available(g) : ~ Answers(e, g.active)
    BY <1>3 DEF AnswersAtHand
  <2>4. DOMAIN Calm(g) = Fields
    BY <1>1
  <2>5. /\ DOMAIN failed = Fields /\ failed.active = None
        /\ failed.act = g.act /\ failed.attempts = g.attempts
        /\ failed.discovered = g.discovered /\ failed.improvised = g.improvised
        /\ failed.flags = g.flags /\ failed.solvedProblems = g.solvedProblems
        /\ failed.solvedChallenges = g.solvedChallenges
        /\ failed.failedChallenges = g.failedChallenges
        /\ failed.completedBranches = g.completedBranches /\ failed.credited = g.credited
        /\ failed.ended = Challenges[g.active].failEnding
    BY <2>4 DEF Calm, Fields
  <2>6. failed.ended \in FailEndings
    BY <1>3, <2>5 DEF FailEndings, Threatened
  <2> HIDE DEF failed
  <2> QED
    BY <2>2, <2>3, <2>5, <2>6 DEF Threatened, Announced
<1>4. CASE g.active # None /\ answers = {} /\ ~ (g.turnsLeft <= 1)
  <2>1. t = [game |-> later, event |-> Event("ticking", g.active, None)]
    BY <1>4 DEF Ticks
  <2>2. t.game = later /\ t.event.kind = "ticking"
    BY <2>1 DEF Event
  <2> HIDE DEF later
  <2> QED
    BY <1>1, <2>2 DEF Announced
<1>5. CASE g.active = None
  <2>1. \/ t = [game |-> g, event |-> Event("none", None, None)]
        \/ \E c \in Pool(g) : t = [game |-> threat(c), event |-> Event("spawned", c, None)]
    BY <1>5 DEF Ticks
  <2>2. CASE t = [game |-> g, event |-> Event("none", None, None)]
    <3>1. t.game = g /\ t.event.kind = "none"
      BY <2>2 DEF Event
    <3> QED
      BY <1>1, <3>1 DEF Announced
  <2>3. ASSUME NEW c \in Pool(g), t = [game |-> threat(c), event |-> Event("spawned", c, None)]
        PROVE  /\ t.event.kind = "spawned" /\ DOMAIN t.game = Fields /\ Threatened(t.game)
               /\ t.game.act = g.act /\ t.game.attempts = g.attempts
               /\ t.game.discovered = g.discovered /\ t.game.improvised = g.improvised
               /\ t.game.flags = g.flags /\ t.game.solvedProblems = g.solvedProblems
               /\ t.game.solvedChallenges = g.solvedChallenges
               /\ t.game.failedChallenges = g.failedChallenges
               /\ t.game.completedBranches = g.completedBranches /\ t.game.credited = g.credited
               /\ t.game.ended = g.ended
               /\ Announced(t.event)
    <3>1. t.game = threat(c) /\ t.event.kind = "spawned" /\ t.event.challenge = c
      BY <2>3 DEF Event
    <3>2. c \in DOMAIN Challenges
      BY ContentAssumption DEF Pool
    <3> QED
      BY <3>1, <3>2 DEF Fields, Threatened, Announced
  <2> QED
    BY <2>1, <2>2, <2>3
<1> QED
  BY <1>2, <1>3, <1>4, <1>5

-----------------------------------------------------------------------------
(* The end of a turn. *)

\* What an invention has to its credit.
Earned(g, id) ==
  /\ id \in DOMAIN g.improvised
  /\ \/ \E p \in g.solvedProblems : Solves(g.improvised[id], p)
     \/ \E c \in g.solvedChallenges : Answers(g.improvised[id], c)

\* The branches are decided by what their facts are about.
LEMMA TriggeredStays ==
  ASSUME NEW g, NEW h, g.flags \subseteq h.flags,
         g.discovered \cap DOMAIN Canon \subseteq h.discovered,
         g.solvedProblems \subseteq h.solvedProblems,
         g.solvedChallenges \subseteq h.solvedChallenges,
         g.failedChallenges \subseteq h.failedChallenges,
         g.ended = None \/ h.ended = g.ended
  PROVE  \A b \in DOMAIN Branches : Triggered(g, b) => Triggered(h, b)
<1>1. ASSUME NEW b \in DOMAIN Branches, NEW facts \in Branches[b], NEW f \in facts, Holds(g, f)
      PROVE  Holds(h, f)
  <2>1. /\ f[1] \in Facts
        /\ f[1] = "discovery" => f[2] \in DOMAIN Canon
        /\ f[1] = "ending" => f[2] # None
    BY FactsAssumption
  <2> QED
    BY <1>1, <2>1 DEF Holds, Facts
<1> QED
  BY <1>1 DEF Triggered

LEMMA CompletedEffect ==
  ASSUME NEW tick, DOMAIN tick.game = Fields, NEW o
  PROVE  LET g == tick.game
             event == tick.event
             c == Completed(tick, o) IN
         /\ DOMAIN c = Fields
         /\ c.act = g.act /\ c.attempts = g.attempts /\ c.active = g.active
         /\ c.discovered = g.discovered /\ c.improvised = g.improvised
         /\ c.flags = g.flags /\ c.solvedProblems = g.solvedProblems
         /\ c.solvedChallenges =
              g.solvedChallenges \cup (IF event.kind = "solved" THEN {event.challenge} ELSE {})
         /\ c.failedChallenges =
              g.failedChallenges \cup (IF event.kind = "failed" THEN {event.challenge} ELSE {})
         /\ c.credited = g.credited
              \cup (IF o.kind \in {"improvised", "reused"} /\ o.solved # None
                       THEN {o.element.id} ELSE {})
              \cup (IF event.kind = "solved" /\ event.by.origin = "improvised"
                       THEN {event.by.id} ELSE {})
         /\ c.completedBranches = g.completedBranches \cup {b \in OwnBranches : Triggered(c, b)}
         /\ g.ended # None => c.ended = g.ended
         /\ c.ended # g.ended => c.ended # None /\ (c.ended = OldAge \/ EndingsUnlocked(c))
         /\ c.attempts >= TurnLimit => c.ended # None
<1> DEFINE g == tick.game
           event == tick.event
           r == Recorded(g, o, event)
           f == Fated(r, o)
           a == Aged(f)
           c == Completed(tick, o)
           solved == IF event.kind = "solved" THEN {event.challenge} ELSE {}
           lost == IF event.kind = "failed" THEN {event.challenge} ELSE {}
           met == IF o.kind \in {"improvised", "reused"} /\ o.solved # None
                    THEN {o.element.id} ELSE {}
           beaten == IF event.kind = "solved" /\ event.by.origin = "improvised"
                       THEN {event.by.id} ELSE {}
<1>1. c = Branched(a)
  BY DEF Completed
<1>2. /\ DOMAIN r = Fields
      /\ r.act = g.act /\ r.attempts = g.attempts /\ r.active = g.active
      /\ r.discovered = g.discovered /\ r.improvised = g.improvised
      /\ r.flags = g.flags /\ r.solvedProblems = g.solvedProblems
      /\ r.solvedChallenges = g.solvedChallenges \cup solved
      /\ r.failedChallenges = g.failedChallenges \cup lost
      /\ r.credited = g.credited \cup met \cup beaten
      /\ r.completedBranches = g.completedBranches
      /\ r.ended = g.ended
  BY DEF Recorded, Fields
<1> HIDE DEF r, c, solved, lost, met, beaten
<1>3. /\ DOMAIN f = Fields
      /\ f.act = r.act /\ f.attempts = r.attempts /\ f.active = r.active
      /\ f.discovered = r.discovered /\ f.improvised = r.improvised
      /\ f.flags = r.flags /\ f.solvedProblems = r.solvedProblems
      /\ f.solvedChallenges = r.solvedChallenges /\ f.failedChallenges = r.failedChallenges
      /\ f.credited = r.credited /\ f.completedBranches = r.completedBranches
      /\ r.ended # None => f.ended = r.ended
      /\ f.ended # r.ended => f.ended # None /\ EndingsUnlocked(r)
  BY <1>2 DEF Fated, Fields
<1> HIDE DEF f
<1>4. /\ DOMAIN a = Fields
      /\ a.act = f.act /\ a.attempts = f.attempts /\ a.active = f.active
      /\ a.discovered = f.discovered /\ a.improvised = f.improvised
      /\ a.flags = f.flags /\ a.solvedProblems = f.solvedProblems
      /\ a.solvedChallenges = f.solvedChallenges /\ a.failedChallenges = f.failedChallenges
      /\ a.credited = f.credited /\ a.completedBranches = f.completedBranches
      /\ f.ended # None => a.ended = f.ended
      /\ a.ended # f.ended => a.ended # None /\ a.ended = OldAge
      /\ a.attempts >= TurnLimit => a.ended # None
  <2>1. OldAge # None
    BY EndingsAssumption
  <2> QED
    BY <1>3, <2>1 DEF Aged, Fields
<1> HIDE DEF a
<1>5. /\ DOMAIN c = Fields
      /\ c.act = a.act /\ c.attempts = a.attempts /\ c.active = a.active
      /\ c.discovered = a.discovered /\ c.improvised = a.improvised
      /\ c.flags = a.flags /\ c.solvedProblems = a.solvedProblems
      /\ c.solvedChallenges = a.solvedChallenges /\ c.failedChallenges = a.failedChallenges
      /\ c.credited = a.credited /\ c.ended = a.ended
      /\ c.completedBranches = a.completedBranches \cup {b \in OwnBranches : Triggered(a, b)}
  BY <1>1, <1>4 DEF Branched, Fields
<1>6. \A b : Triggered(a, b) <=> Triggered(c, b)
  BY <1>5 DEF Triggered, Holds
<1>7. EndingsUnlocked(r) => EndingsUnlocked(c)
  BY <1>3, <1>4, <1>5 DEF EndingsUnlocked, Inventions
<1> QED
  BY <1>2, <1>3, <1>4, <1>5, <1>6, <1>7 DEF c, solved, lost, met, beaten

\* Credit only makes for more inventions.
LEMMA InventionsGrow ==
  ASSUME NEW g, NEW h, IsFiniteSet(g.discovered), h.discovered = g.discovered,
         g.credited \subseteq h.credited, IsFiniteSet(DOMAIN Canon), EndingsUnlocked(g)
  PROVE  EndingsUnlocked(h)
<1> DEFINE canon == Cardinality({id \in g.discovered \cap DOMAIN Canon : ~ Canon[id].base})
           before == g.credited \cap g.discovered
           after == h.credited \cap g.discovered
<1>1. IsFiniteSet(after) /\ IsFiniteSet(before) /\ before \subseteq after
  BY FS_Subset
<1>2. /\ Cardinality(before) <= Cardinality(after)
      /\ Cardinality(before) \in Nat /\ Cardinality(after) \in Nat
  BY <1>1, FS_Subset, FS_CardinalityType
<1>3. IsFiniteSet({id \in g.discovered \cap DOMAIN Canon : ~ Canon[id].base})
  BY FS_Subset
<1>4. canon \in Nat
  BY <1>3, FS_CardinalityType
<1>5. Inventions(g) = canon + Cardinality(before) /\ Inventions(h) = canon + Cardinality(after)
  BY DEF Inventions
<1> HIDE DEF canon, before, after
<1> QED
  BY <1>2, <1>4, <1>5, ContentAssumption DEF EndingsUnlocked

\* From the game g in which its summer is paid, a turn leads to c.
Leads(g, c) ==
  /\ Lawful(c) /\ Threatened(c)
  /\ \E cost \in 1 .. TurnLimit : c.attempts = g.attempts + cost - 1
  /\ c.attempts >= TurnLimit => c.ended # None
  /\ g.discovered \subseteq c.discovered
  /\ g.flags \subseteq c.flags /\ g.solvedProblems \subseteq c.solvedProblems
  /\ g.solvedChallenges \subseteq c.solvedChallenges
  /\ g.failedChallenges \subseteq c.failedChallenges
  /\ \A id \in DOMAIN g.improvised :
       id \in DOMAIN c.improvised /\ SameTags(c.improvised[id], g.improvised[id])
  /\ \A lost \in c.failedChallenges \ g.failedChallenges :
       c.ended # None /\ \A e \in Available(c) : ~ Answers(e, lost)
  /\ \A b \in OwnBranches : Triggered(c, b) => b \in c.completedBranches
  /\ \A b \in c.completedBranches \ g.completedBranches :
       b \in Gifts \/ (b \in OwnBranches /\ Triggered(c, b))
  /\ \A id \in c.credited \ g.credited : Earned(c, id)
  /\ c.ended \in {None, OldAge} \cup FailEndings \/ EndingsUnlocked(c)

LEMMA TurnEffect ==
  ASSUME NEW g, DOMAIN g = Fields, Threatened(g), g.ended = None,
         NEW r, Adds(g, r.game), Lawful(r.game), Credible(r.game, r.outcome),
         NEW t \in Turns(r)
  PROVE  Leads(g, t.game)
<1> DEFINE o == r.outcome
           m == r.game
<1>1. PICK tick \in Ticks(m, o) : t.game = Completed(tick, o)
  BY DEF Turns
<1> DEFINE h == tick.game
           event == tick.event
           c == Completed(tick, o)
<1>2. DOMAIN m = Fields /\ Threatened(m)
  BY DEF Lawful, Adds, Threatened
<1>3. /\ DOMAIN h = Fields /\ Threatened(h)
      /\ h.act = m.act /\ h.attempts = m.attempts
      /\ h.discovered = m.discovered /\ h.improvised = m.improvised
      /\ h.flags = m.flags /\ h.solvedProblems = m.solvedProblems
      /\ h.solvedChallenges = m.solvedChallenges /\ h.failedChallenges = m.failedChallenges
      /\ h.completedBranches = m.completedBranches /\ h.credited = m.credited
      /\ h.ended = m.ended \/ (h.ended \in FailEndings /\ event.kind = "failed")
      /\ event.kind = "failed" =>
           /\ h.ended \in FailEndings
           /\ \A e \in Available(m) : ~ Answers(e, event.challenge)
      /\ event.kind = "solved" =>
           event.by \in Available(m) /\ Answers(event.by, event.challenge)
  <2> HIDE DEF m, o
  <2> QED
    BY <1>2, TickEffect
<1>4. /\ DOMAIN c = Fields
      /\ c.act = h.act /\ c.attempts = h.attempts /\ c.active = h.active
      /\ c.discovered = h.discovered /\ c.improvised = h.improvised
      /\ c.flags = h.flags /\ c.solvedProblems = h.solvedProblems
      /\ c.solvedChallenges =
           h.solvedChallenges \cup (IF event.kind = "solved" THEN {event.challenge} ELSE {})
      /\ c.failedChallenges =
           h.failedChallenges \cup (IF event.kind = "failed" THEN {event.challenge} ELSE {})
      /\ c.credited = h.credited
           \cup (IF o.kind \in {"improvised", "reused"} /\ o.solved # None
                    THEN {o.element.id} ELSE {})
           \cup (IF event.kind = "solved" /\ event.by.origin = "improvised"
                    THEN {event.by.id} ELSE {})
      /\ c.completedBranches = h.completedBranches \cup {b \in OwnBranches : Triggered(c, b)}
      /\ h.ended # None => c.ended = h.ended
      /\ c.ended # h.ended => c.ended # None /\ (c.ended = OldAge \/ EndingsUnlocked(c))
      /\ c.attempts >= TurnLimit => c.ended # None
  BY <1>3, CompletedEffect
<1> HIDE DEF m, h, event, c, o
<1>5. Lawful(m) /\ Adds(g, m) /\ Credible(m, o)
  BY DEF m, o
<1>6. Lawful(c) /\ Threatened(c)
  BY <1>3, <1>4, <1>5 DEF Lawful, Elements, Registry, Ages, Threatened
<1>7. /\ \E cost \in 1 .. TurnLimit : c.attempts = g.attempts + cost - 1
      /\ g.discovered \subseteq c.discovered
      /\ g.flags \subseteq c.flags /\ g.solvedProblems \subseteq c.solvedProblems
      /\ g.solvedChallenges \subseteq c.solvedChallenges
      /\ g.failedChallenges \subseteq c.failedChallenges
      /\ \A id \in DOMAIN g.improvised :
           id \in DOMAIN c.improvised /\ SameTags(c.improvised[id], g.improvised[id])
  BY <1>3, <1>4, <1>5 DEF Adds
<1>8. Available(c) = Available(m)
  BY <1>3, <1>4 DEF Available, Element
<1>9. \A lost \in c.failedChallenges \ g.failedChallenges :
        c.ended # None /\ \A e \in Available(c) : ~ Answers(e, lost)
  <2>1. None \notin FailEndings
    BY EndingsAssumption DEF FailEndings
  <2>2. m.failedChallenges = g.failedChallenges
    BY <1>5 DEF Adds
  <2>3. ASSUME NEW lost \in c.failedChallenges \ g.failedChallenges
        PROVE  event.kind = "failed" /\ lost = event.challenge
    BY <1>3, <1>4, <2>2
  <2> QED
    BY <1>3, <1>4, <1>8, <2>1, <2>3
<1>10. \A b \in OwnBranches : Triggered(c, b) => b \in c.completedBranches
  BY <1>4
<1>11. \A b \in c.completedBranches \ g.completedBranches :
         b \in Gifts \/ (b \in OwnBranches /\ Triggered(c, b))
  BY <1>3, <1>4, <1>5 DEF Adds
<1>12. ASSUME NEW id \in c.credited \ g.credited PROVE Earned(c, id)
  <2>1. m.credited = g.credited
    BY <1>5 DEF Adds
  <2>2. \/ o.kind \in {"improvised", "reused"} /\ o.solved # None /\ id = o.element.id
        \/ event.kind = "solved" /\ event.by.origin = "improvised" /\ id = event.by.id
    BY <1>3, <1>4, <1>12, <2>1
  <2>3. CASE o.kind \in {"improvised", "reused"} /\ o.solved # None /\ id = o.element.id
    <3>1. /\ id \in DOMAIN m.improvised /\ o.solved \in m.solvedProblems
          /\ Solves(m.improvised[id], o.solved)
      BY <1>5, <2>3 DEF Credible
    <3> QED
      BY <1>3, <1>4, <3>1 DEF Earned
  <2>4. CASE event.kind = "solved" /\ event.by.origin = "improvised" /\ id = event.by.id
    <3>1. PICK x \in m.discovered : event.by = Element(m, x)
      BY <1>3, <2>4 DEF Available
    <3>2. x \notin DOMAIN Canon
      BY <2>4, <3>1, RecipesAssumption DEF Element
    <3>3. x \in DOMAIN m.improvised /\ event.by = m.improvised[x] /\ x = id
      BY <1>5, <2>4, <3>1, <3>2, ElementsById DEF Lawful
    <3>4. event.challenge \in c.solvedChallenges /\ Answers(c.improvised[id], event.challenge)
      BY <1>3, <1>4, <2>4, <3>3
    <3> QED
      BY <1>3, <1>4, <3>3, <3>4 DEF Earned
  <2> QED
    BY <2>2, <2>3, <2>4
<1>13. c.ended \in {None, OldAge} \cup FailEndings \/ EndingsUnlocked(c)
  <2>1. EndingsUnlocked(m) => EndingsUnlocked(c)
    <3>1. /\ IsFiniteSet(m.discovered) /\ c.discovered = m.discovered
          /\ m.credited \subseteq c.credited
      BY <1>3, <1>4, <1>5 DEF Lawful
    <3> QED
      BY <3>1, InventionsGrow, RecipesAssumption
  <2>2. m.ended = None \/ EndingsUnlocked(m)
    BY <1>5 DEF Adds
  <2> QED
    BY <1>3, <1>4, <2>1, <2>2
<1> QED
  BY <1>1, <1>4, <1>6, <1>7, <1>9, <1>10, <1>11, <1>12, <1>13 DEF Leads, c

-----------------------------------------------------------------------------
(* Reading a life back. *)

\* The children of the registry that look right and whose parents are kept.
Grown(g, kept) ==
  {id \in DOMAIN g.improvised \cap g.discovered :
     /\ g.improvised[id].parents \subseteq DOMAIN Canon \cup kept
     /\ LooksRight(g, g.improvised[id])}

Generations(g, n, f) ==
  f = [d \in 0 .. n |-> IF d = 0 THEN {} ELSE f[d - 1] \cup Grown(g, f[d - 1])]

LEMMA GenerationsExist ==
  ASSUME NEW g, NEW n \in Nat
  PROVE  \E f : Generations(g, n, f)
<1> DEFINE P == {m \in Nat : ~ \E f : Generations(g, m, f)}
<1> SUFFICES ASSUME P # {} PROVE FALSE
  OBVIOUS
<1>1. PICK m \in P : \A k \in P : m <= k
  <2>1. P \in SUBSET Nat
    OBVIOUS
  <2> HIDE DEF P
  <2> QED
    BY <2>1, SmallestNumber
<1>2. m \in Nat /\ ~ \E f : Generations(g, m, f)
  OBVIOUS
<1>3. CASE m = 0
  <2> DEFINE f == [d \in 0 .. 0 |-> {}]
  <2>1. f = [d \in 0 .. 0 |-> IF d = 0 THEN {} ELSE f[d - 1] \cup Grown(g, f[d - 1])]
    OBVIOUS
  <2>2. Generations(g, m, f)
    <3> HIDE DEF f
    <3> QED
      BY <1>3, <2>1 DEF Generations
  <2> QED
    BY <1>2, <2>2
<1>4. CASE m # 0
  <2>1. m - 1 \in Nat /\ m - 1 \notin P
    BY <1>1, <1>2, <1>4
  <2>2. PICK e : Generations(g, m - 1, e)
    BY <2>1
  <2> DEFINE f == [d \in 0 .. m |-> IF d < m THEN e[d] ELSE e[m - 1] \cup Grown(g, e[m - 1])]
             next(d) == IF d = 0 THEN {} ELSE f[d - 1] \cup Grown(g, f[d - 1])
  <2>3. ASSUME NEW d \in 0 .. m PROVE f[d] = next(d)
    <3>1. CASE d < m
      <4>1. d \in 0 .. m - 1 /\ f[d] = e[d]
        BY <1>2, <3>1
      <4>2. e[d] = IF d = 0 THEN {} ELSE e[d - 1] \cup Grown(g, e[d - 1])
        BY <2>2, <4>1 DEF Generations
      <4>3. d # 0 => f[d - 1] = e[d - 1]
        BY <1>2, <3>1
      <4> HIDE DEF f
      <4> QED
        BY <4>1, <4>2, <4>3
    <3>2. CASE ~ (d < m)
      <4>1. d = m /\ f[m] = e[m - 1] \cup Grown(g, e[m - 1]) /\ f[m - 1] = e[m - 1]
        BY <1>2, <1>4, <3>2
      <4> HIDE DEF f
      <4> QED
        BY <1>4, <4>1
    <3> QED
      BY <3>1, <3>2
  <2>4. f = [d \in 0 .. m |-> f[d]]
    OBVIOUS
  <2> HIDE DEF f
  <2>5. Generations(g, m, f)
    BY <2>3, <2>4, Zenon DEF Generations
  <2> QED
    BY <1>2, <2>5
<1> QED
  BY <1>3, <1>4

LEMMA GenerationsClosed ==
  ASSUME NEW g, NEW n \in Nat, NEW f, Generations(g, n, f)
  PROVE  \A d \in 0 .. n :
           /\ f[d] \subseteq DOMAIN g.improvised \cap g.discovered
           /\ \A id \in f[d] : g.improvised[id].parents \subseteq DOMAIN Canon \cup f[d]
<1> DEFINE Closed(S) ==
             /\ S \subseteq DOMAIN g.improvised \cap g.discovered
             /\ \A id \in S : g.improvised[id].parents \subseteq DOMAIN Canon \cup S
           P == {d \in 0 .. n : ~ Closed(f[d])}
<1> SUFFICES ASSUME P # {} PROVE FALSE
  OBVIOUS
<1>1. PICK d \in P : \A k \in P : d <= k
  <2>1. P \in SUBSET Nat
    OBVIOUS
  <2> HIDE DEF P
  <2> QED
    BY <2>1, SmallestNumber
<1>2. d \in 0 .. n /\ ~ Closed(f[d])
  OBVIOUS
<1>3. f[d] = IF d = 0 THEN {} ELSE f[d - 1] \cup Grown(g, f[d - 1])
  BY <1>2 DEF Generations
<1>4. d # 0
  BY <1>2, <1>3
<1>5. d - 1 \in 0 .. n /\ d - 1 \notin P
  BY <1>1, <1>2, <1>4
<1>6. Closed(f[d - 1])
  BY <1>5
<1>7. Closed(f[d - 1] \cup Grown(g, f[d - 1]))
  BY <1>6 DEF Grown
<1> QED
  BY <1>2, <1>3, <1>4, <1>7

\* What is accepted is at hand, and so are its parents.
LEMMA AcceptedClosed ==
  ASSUME NEW g
  PROVE  /\ Accepted(g) \subseteq DOMAIN g.improvised \cap g.discovered
         /\ \A id \in Accepted(g) :
              g.improvised[id].parents \subseteq DOMAIN Canon \cup Accepted(g)
<1> DEFINE f == CHOOSE f : Generations(g, MaxDepth, f)
<1>1. Accepted(g) = f[MaxDepth]
  BY DEF Accepted, Generations, Grown
<1>2. MaxDepth \in Nat
  BY DepthAssumption
<1>3. Generations(g, MaxDepth, f)
  BY <1>2, GenerationsExist
<1>4. MaxDepth \in 0 .. MaxDepth
  BY <1>2
<1> HIDE DEF f
<1> QED
  BY <1>1, <1>2, <1>3, <1>4, GenerationsClosed

-----------------------------------------------------------------------------
(* The invariant of a life. *)

\* Nothing at hand answers what killed Karl, and who was beaten is dead.
EmptyHanded(g) ==
  /\ g.failedChallenges # {} => g.ended # None
  /\ \A c \in g.failedChallenges : \A e \in Available(g) : ~ Answers(e, c)

\* The branches are those whose facts hold, and what the rules gave.
Branching(g) ==
  /\ \A b \in OwnBranches : Triggered(g, b) => b \in g.completedBranches
  /\ \A b \in g.completedBranches : b \in Gifts \/ (b \in OwnBranches /\ Triggered(g, b))

Inv(g) ==
  /\ Lawful(g)
  /\ Threatened(g)
  /\ g.attempts >= TurnLimit => g.ended # None
  /\ EmptyHanded(g)
  /\ Branching(g)
  /\ \A id \in g.credited : Earned(g, id)

LEMMA InvInitially == Inv(NewLife)
<1> DEFINE g == NewLife
<1>1. /\ DOMAIN g = Fields
      /\ g.act = 1 /\ g.discovered = Opening /\ g.attempts = 0 /\ g.ended = None
      /\ g.active = None /\ g.completedBranches = {} /\ g.failedChallenges = {}
      /\ DOMAIN g.improvised = {} /\ g.credited = {}
  BY DEF NewLife, Fields
<1> HIDE DEF g
<1>2. Opening \subseteq DOMAIN Canon /\ TurnLimit \in Nat \ {0}
  BY ContentAssumption
<1>3. IsFiniteSet(Opening)
  BY <1>2, RecipesAssumption, FS_Subset
<1>4. Ages(g)
  <2>1. IsFiniteSet(AgeUps \cap g.discovered)
    BY AgeUpsFinite, FS_Subset
  <2>2. Cardinality(AgeUps \cap g.discovered) \in Nat
    BY <2>1, FS_CardinalityType
  <2> QED
    BY <1>1, <2>2 DEF Ages
<1>5. Lawful(g)
  BY <1>1, <1>2, <1>3, <1>4 DEF Lawful, Elements, Registry
<1>6. Branching(g)
  BY <1>1, BranchesAssumption DEF Branching, g
<1>7. ~ (g.attempts >= TurnLimit)
  BY <1>1, <1>2
<1> QED
  BY <1>1, <1>5, <1>6, <1>7 DEF Inv, EmptyHanded, Threatened, g

\* What is told of an attempt: a discovery by a recipe of the book.
Tellable(o) == o.kind = "discovery" => \E i \in DOMAIN Recipes : o.recipe = Recipes[i]

LEMMA OutcomesTellable ==
  /\ \A g, a, b : Tellable(Resolve(g, a, b).outcome)
  /\ \A g, a, b, name, generated : Tellable(Improvise(g, a, b, name, generated).outcome)
  /\ \A g : Tellable(Rejected(g).outcome)
<1>1. ASSUME NEW g, NEW a, NEW b PROVE Tellable(Resolve(g, a, b).outcome)
  <2> DEFINE recipe == Matching(g, a, b)
  <2>1. CASE recipe = None \/ recipe.result \in g.discovered \/ Gated(g, recipe)
    <3>1. Resolve(g, a, b).outcome.kind \in {"nofuse", "known", "gated"}
      BY <2>1 DEF Resolve, Outcome
    <3> QED
      BY <3>1 DEF Tellable
  <2>2. CASE ~ (recipe = None \/ recipe.result \in g.discovered \/ Gated(g, recipe))
    <3>1. Resolve(g, a, b).outcome.recipe = recipe
      BY <2>2 DEF Resolve, Discovered, Outcome
    <3>2. \E i \in DOMAIN Recipes : recipe = Recipes[i]
      BY <2>2, MatchingRecipe
    <3> QED
      BY <3>1, <3>2 DEF Tellable
  <2> QED
    BY <2>1, <2>2
<1>2. \A g : Rejected(g).outcome.kind = "improvise-rejected"
  BY DEF Rejected, Outcome
<1>3. \A g, e, known, named, generated :
        Made(g, e, known, named, generated).outcome.kind \in {"reused", "improvised"}
  BY DEF Made, Outcome
<1>4. ASSUME NEW g, NEW a, NEW b, NEW name, NEW generated
      PROVE  Tellable(Improvise(g, a, b, name, generated).outcome)
  BY <1>2, <1>3 DEF Improvise, ImproviseOf, Tellable
<1> QED
  BY <1>1, <1>2, <1>4 DEF Tellable

\* A turn is made of an attempt and the way the clock goes after it.
LEMMA AttemptParts ==
  ASSUME Inv(life), life.ended = None, NEW a \in life.discovered, NEW b \in life.discovered,
         NEW t \in TurnsOf(a, b) \cup CombineTurns(a, b)
  PROVE  \E r : /\ Adds(Paid(life), r.game) /\ Lawful(r.game)
                /\ Credible(r.game, r.outcome) /\ Tellable(r.outcome)
                /\ t \in Turns(r)
<1> DEFINE g == Paid(life)
           Fair(r) == /\ Adds(g, r.game) /\ Lawful(r.game)
                      /\ Credible(r.game, r.outcome) /\ Tellable(r.outcome)
<1>1. /\ DOMAIN g = Fields /\ g.attempts = life.attempts + 1
      /\ g.discovered = life.discovered /\ g.improvised = life.improvised /\ g.act = life.act
      /\ g.solvedProblems = life.solvedProblems
  BY DEF Inv, Lawful, Fields, Paid
<1> HIDE DEF g
<1>2. Lawful(g)
  BY <1>1 DEF Inv, Lawful, Elements, Registry, Ages
<1>3. Fair(Resolve(g, a, b))
  BY <1>2, ResolveEffect, OutcomesTellable
<1>4. \A name : \A generated \in BOOLEAN : Fair(Improvise(g, a, b, name, generated))
  BY <1>1, <1>2, ImproviseEffect, OutcomesTellable
<1>5. Fair(Rejected(g))
  <2>1. Rejected(g).game = g /\ Rejected(g).outcome.kind = "improvise-rejected"
    BY DEF Rejected, Outcome
  <2> QED
    BY <1>2, <2>1, AddsNothing DEF Lawful, Credible, Tellable
<1>6. \/ t \in Turns(Resolve(g, a, b))
      \/ t \in Turns(Rejected(g))
      \/ \E name : \E generated \in BOOLEAN : t \in Turns(Improvise(g, a, b, name, generated))
  <2>1. ASSUME t \in CombineTurns(a, b) PROVE t \in Turns(Resolve(g, a, b))
    BY <2>1 DEF CombineTurns, g
  <2>2. ASSUME t \in ImproviseTurns(a, b)
        PROVE  t \in Turns(Rejected(g)) \/ t \in Turns(Improvise(g, a, b, None, FALSE))
    BY <2>2 DEF ImproviseTurns, g
  <2>3. ASSUME NEW name, t \in AttemptTurns(a, b, name)
        PROVE  t \in CombineTurns(a, b) \/ t \in Turns(Improvise(g, a, b, name, FALSE))
    BY <2>3 DEF AttemptTurns, g
  <2>4. ASSUME t \in GeneratedTurns(a, b)
        PROVE  t \in CombineTurns(a, b) \/ \E name : t \in Turns(Improvise(g, a, b, name, TRUE))
    BY <2>4 DEF GeneratedTurns, g
  <2>5. \/ t \in CombineTurns(a, b) \/ t \in ImproviseTurns(a, b) \/ t \in GeneratedTurns(a, b)
        \/ \E name : t \in AttemptTurns(a, b, name)
    BY DEF TurnsOf
  <2> QED
    BY <2>1, <2>2, <2>3, <2>4, <2>5
<1> HIDE DEF Fair
<1>7. \E r : Fair(r) /\ t \in Turns(r)
  BY <1>3, <1>4, <1>5, <1>6
<1> QED
  BY <1>7 DEF g, Fair

\* What a turn does to a life that goes on: the lemmas put together.
LEMMA AttemptEffect ==
  ASSUME Inv(life), life.ended = None, NEW a \in life.discovered, NEW b \in life.discovered,
         NEW t \in TurnsOf(a, b) \cup CombineTurns(a, b)
  PROVE  Leads(Paid(life), t.game)
<1> DEFINE g == Paid(life)
<1>1. DOMAIN g = Fields /\ Threatened(g) /\ g.ended = None
  BY DEF Inv, Lawful, Fields, Paid, Threatened
<1>2. PICK r : /\ Adds(g, r.game) /\ Lawful(r.game) /\ Credible(r.game, r.outcome)
               /\ t \in Turns(r)
  BY AttemptParts
<1> HIDE DEF g
<1>3. Leads(g, t.game)
  BY <1>1, <1>2, TurnEffect
<1> QED
  BY <1>3 DEF g

LEMMA TurnKeepsInv ==
  ASSUME Inv(life), life.ended = None, NEW c, Leads(Paid(life), c)
  PROVE  Inv(c)
<1> DEFINE g == Paid(life)
<1>1. /\ g.discovered = life.discovered /\ g.improvised = life.improvised
      /\ g.flags = life.flags
      /\ g.solvedProblems = life.solvedProblems /\ g.solvedChallenges = life.solvedChallenges
      /\ g.failedChallenges = life.failedChallenges /\ g.credited = life.credited
      /\ g.completedBranches = life.completedBranches
  BY DEF Inv, Lawful, Fields, Paid
<1> HIDE DEF g
<1>2. Leads(g, c)
  BY DEF g
<1>3. life.failedChallenges = {}
  BY DEF Inv, EmptyHanded
<1>4. EmptyHanded(c)
  BY <1>1, <1>2, <1>3 DEF Leads, EmptyHanded
<1>5. Branching(c)
  <2>1. \A b \in DOMAIN Branches : Triggered(life, b) => Triggered(c, b)
    BY <1>1, <1>2, TriggeredStays DEF Leads
  <2>2. OwnBranches \subseteq DOMAIN Branches
    BY DEF OwnBranches
  <2> QED
    BY <1>1, <1>2, <2>1, <2>2 DEF Leads, Branching, Inv
<1>6. ASSUME NEW id \in c.credited PROVE Earned(c, id)
  <2>1. CASE id \in g.credited
    <3>1. Earned(life, id)
      BY <1>1, <2>1 DEF Inv
    <3>2. id \in DOMAIN c.improvised /\ SameTags(c.improvised[id], life.improvised[id])
      BY <1>1, <1>2, <3>1 DEF Leads, Earned
    <3>3. /\ \A need : Solves(c.improvised[id], need) <=> Solves(life.improvised[id], need)
          /\ \A d : Answers(c.improvised[id], d) <=> Answers(life.improvised[id], d)
      BY <3>2, NamelessAnswers
    <3> QED
      BY <1>1, <1>2, <3>1, <3>2, <3>3 DEF Leads, Earned
  <2>2. CASE id \notin g.credited
    BY <1>2, <1>6, <2>2 DEF Leads
  <2> QED
    BY <2>1, <2>2
<1> QED
  BY <1>2, <1>4, <1>5, <1>6 DEF Inv, Leads

LEMMA RenameKeepsInv ==
  ASSUME NEW g, Inv(g), NEW id \in DOMAIN g.improvised, NEW name
  PROVE  LET h == [g EXCEPT !.improvised[id].name = name] IN
         Inv(h) /\ h.attempts = g.attempts /\ h.ended = g.ended
<1> DEFINE h == [g EXCEPT !.improvised[id].name = name]
           e == [g.improvised[id] EXCEPT !.name = name]
<1>1. DOMAIN g.improvised[id] = ElementFields
  BY DEF Inv, Lawful, Elements
<1>2. DOMAIN e = ElementFields /\ SameTags(e, g.improvised[id])
  BY <1>1 DEF ElementFields, SameTags
<1>3. /\ DOMAIN h = Fields
      /\ h.act = g.act /\ h.attempts = g.attempts /\ h.active = g.active /\ h.ended = g.ended
      /\ h.discovered = g.discovered /\ h.flags = g.flags
      /\ h.solvedProblems = g.solvedProblems
      /\ h.solvedChallenges = g.solvedChallenges /\ h.failedChallenges = g.failedChallenges
      /\ h.completedBranches = g.completedBranches /\ h.credited = g.credited
      /\ h.improvised = [g.improvised EXCEPT ![id] = e]
  BY DEF Inv, Lawful, Fields
<1> HIDE DEF h, e
<1>4. /\ DOMAIN h.improvised = DOMAIN g.improvised
      /\ \A x \in DOMAIN g.improvised :
           SameTags(h.improvised[x], g.improvised[x]) /\ DOMAIN h.improvised[x] = ElementFields
  <2>1. \A x \in DOMAIN g.improvised : x # id => h.improvised[x] = g.improvised[x]
    BY <1>3
  <2>2. h.improvised[id] = e
    BY <1>3
  <2>3. \A x \in DOMAIN g.improvised : DOMAIN g.improvised[x] = ElementFields
    BY DEF Inv, Lawful, Elements
  <2>4. \A x \in DOMAIN g.improvised : SameTags(g.improvised[x], g.improvised[x])
    BY DEF SameTags
  <2>5. DOMAIN h.improvised = DOMAIN g.improvised
    BY <1>3
  <2> QED
    BY <1>2, <2>1, <2>2, <2>3, <2>4, <2>5
<1>5. Lawful(h) /\ Threatened(h)
  <2>1. Elements(h)
    BY <1>4 DEF Inv, Lawful, Elements, SameTags
  <2>2. Registry(h)
    BY <1>3, <1>4 DEF Inv, Lawful, Registry, SameTags
  <2> QED
    BY <1>3, <2>1, <2>2 DEF Inv, Lawful, Ages, Threatened
<1>6. EmptyHanded(h)
  <2>1. ASSUME NEW x \in g.discovered, NEW c, Answers(Element(h, x), c)
        PROVE  Answers(Element(g, x), c)
    <3>1. CASE x \in DOMAIN Canon
      BY <2>1, <3>1 DEF Element
    <3>2. CASE x \notin DOMAIN Canon
      <4>1. x \in DOMAIN g.improvised
        BY <3>2 DEF Inv, Lawful, Registry
      <4>2. \A d : Answers(h.improvised[x], d) <=> Answers(g.improvised[x], d)
        BY <1>4, <4>1, NamelessAnswers
      <4> QED
        BY <2>1, <3>2, <4>2 DEF Element
    <3> QED
      BY <3>1, <3>2
  <2> QED
    BY <1>3, <2>1 DEF Inv, EmptyHanded, Available
<1>7. Branching(h)
  <2>1. \A b : Triggered(h, b) <=> Triggered(g, b)
    BY <1>3 DEF Triggered, Holds
  <2> QED
    BY <1>3, <2>1 DEF Inv, Branching
<1>8. ASSUME NEW x \in h.credited PROVE Earned(h, x)
  <2>1. Earned(g, x)
    BY <1>3 DEF Inv
  <2>2. /\ \A need : Solves(h.improvised[x], need) <=> Solves(g.improvised[x], need)
        /\ \A d : Answers(h.improvised[x], d) <=> Answers(g.improvised[x], d)
    BY <1>4, <2>1, NamelessAnswers DEF Earned
  <2> QED
    BY <1>3, <1>4, <2>1, <2>2 DEF Earned
<1> QED
  BY <1>3, <1>5, <1>6, <1>7, <1>8 DEF Inv, h

LEMMA LoadKeepsInv ==
  ASSUME NEW g, Inv(g)
  PROVE  LET h == Loaded(g) IN
         Inv(h) /\ h.attempts = g.attempts /\ h.ended = g.ended
<1> DEFINE h == Loaded(g)
           kept == Accepted(g)
<1>1. /\ DOMAIN h = Fields
      /\ h.act = g.act /\ h.attempts = g.attempts /\ h.active = g.active /\ h.ended = g.ended
      /\ h.flags = g.flags /\ h.solvedProblems = g.solvedProblems
      /\ h.solvedChallenges = g.solvedChallenges /\ h.failedChallenges = g.failedChallenges
      /\ h.completedBranches = g.completedBranches
      /\ h.discovered = g.discovered \cap (DOMAIN Canon \cup kept)
      /\ h.credited = g.credited \cap kept \cap h.discovered
      /\ h.improvised = [x \in kept |-> g.improvised[x]]
  <2> HIDE DEF kept
  <2>1. h = Keeping(g, g.discovered \cap (DOMAIN Canon \cup kept), kept)
    BY DEF Loaded, LoadedWith, kept
  <2> QED
    BY <2>1 DEF Inv, Lawful, Fields, Keeping, Restrict
<1>2. /\ kept \subseteq DOMAIN g.improvised \cap g.discovered
      /\ \A id \in kept : g.improvised[id].parents \subseteq DOMAIN Canon \cup kept
  BY AcceptedClosed
<1> HIDE DEF h, kept
<1>3. /\ DOMAIN h.improvised = kept
      /\ \A x \in kept : h.improvised[x] = g.improvised[x]
  BY <1>1
<1>4. Elements(h) /\ Registry(h)
  BY <1>1, <1>2, <1>3 DEF Inv, Lawful, Elements, Registry
<1>5. IsFiniteSet(h.discovered)
  BY <1>1, FS_Subset DEF Inv, Lawful
<1>6. Ages(h)
  <2>1. AgeUps \subseteq DOMAIN Canon
    BY RecipesAssumption DEF AgeUps
  <2>2. AgeUps \cap h.discovered = AgeUps \cap g.discovered
    BY <1>1, <2>1
  <2> QED
    BY <1>1, <2>2 DEF Inv, Lawful, Ages
<1>7. Lawful(h) /\ Threatened(h)
  BY <1>1, <1>4, <1>5, <1>6 DEF Inv, Lawful, Threatened
<1>8. EmptyHanded(h)
  <2>1. \A x \in h.discovered : x \in g.discovered /\ Element(h, x) = Element(g, x)
    BY <1>1, <1>3 DEF Element
  <2>2. Available(h) \subseteq Available(g)
    BY <2>1 DEF Available
  <2> QED
    BY <1>1, <2>2 DEF Inv, EmptyHanded
<1>9. Branching(h)
  <2>1. \A b \in DOMAIN Branches : Triggered(g, b) => Triggered(h, b)
    BY <1>1, TriggeredStays
  <2>2. \A b \in DOMAIN Branches : Triggered(h, b) => Triggered(g, b)
    BY <1>1, TriggeredStays
  <2>3. OwnBranches \subseteq DOMAIN Branches
    BY DEF OwnBranches
  <2> QED
    BY <1>1, <2>1, <2>2, <2>3 DEF Inv, Branching
<1>10. \A id \in h.credited : Earned(h, id)
  BY <1>1, <1>3 DEF Inv, Earned
<1> QED
  BY <1>1, <1>7, <1>8, <1>9, <1>10 DEF Inv, h

-----------------------------------------------------------------------------
(* The theorems. *)

LEMMA TurnTaken ==
  ASSUME Inv(life), Turn
  PROVE  life.ended = None /\ Leads(Paid(life), life')
<1>1. PICK a, b : TurnAllowed(a, b) /\ \E t \in TurnsOf(a, b) : life' = t.game
  BY DEF Turn
<1>2. life.ended = None /\ a \in life.discovered /\ b \in life.discovered
  BY <1>1 DEF TurnAllowed
<1> QED
  BY <1>1, <1>2, AttemptEffect

LEMMA NextKeepsInv ==
  ASSUME Inv(life), [Next]_<<life, copies>>
  PROVE  Inv(life)'
<1>1. CASE Turn
  <2>1. Inv(life')
    BY <1>1, TurnTaken, TurnKeepsInv
  <2> QED
    BY <2>1
<1>2. CASE Rename
  <2>1a. PICK id \in DOMAIN life.improvised : life' = [life EXCEPT !.improvised[id].name = WrittenName(id)]
    BY <1>2 DEF Rename
  <2>1. PICK name : life' = [life EXCEPT !.improvised[id].name = name]
    BY <2>1a
  <2>2. Inv([life EXCEPT !.improvised[id].name = name])
    BY RenameKeepsInv
  <2> QED
    BY <2>1, <2>2
<1>3. CASE Load
  <2>1. Inv(Loaded(life))
    BY LoadKeepsInv
  <2> QED
    BY <1>3, <2>1 DEF Load
<1>4. CASE UNCHANGED <<life, copies>>
  BY <1>4
<1> QED
  BY <1>1, <1>2, <1>3, <1>4 DEF Next

\* The invariant holds of every life, through every attempt, late name and reload.
THEOREM Invariance == Spec => []Inv(life)
<1>1. Init => Inv(life)
  BY InvInitially DEF Init
<1>2. Inv(life) /\ [Next]_<<life, copies>> => Inv(life)'
  BY NextKeepsInv
<1> QED
  BY <1>1, <1>2, PTL DEF Spec

\* Karl's things and his inventions agree, and an invention's parents are at
\* hand, whatever sanitizeImprovisedRegistry() drops on the way.
THEOREM RegistryStaysClosed == Spec => []RegistryClosed
<1>1. Inv(life) => RegistryClosed
  BY DEF Inv, Lawful, Registry, RegistryClosed
<1> QED
  BY <1>1, Invariance, PTL

\* No age is entered over an unsolved required problem of an earlier one: the
\* gate of resolve() holds for every book of recipes.
THEOREM NoAgeIsSkipped == Spec => []AgesAreEarned
<1>1. Inv(life) => AgesAreEarned
  BY DEF Inv, Lawful, Ages, AgesAreEarned
<1> QED
  BY <1>1, Invariance, PTL

\* A dead Karl leaves nothing behind that answers what tickChallenge() says
\* killed him, after any number of reloads.
THEOREM NoneDiesArmed == Spec => []OnlyTheEmptyHandedDie
<1>1. Inv(life) => OnlyTheEmptyHandedDie
  BY DEF Inv, EmptyHanded, OnlyTheEmptyHandedDie
<1> QED
  BY <1>1, Invariance, PTL

\* updateCompletedBranches() comes last in completeTurn(): what it has recorded
\* are the branches whose facts hold, the facts of the ending included.
THEOREM BranchesFollowFacts == Spec => []BranchesExact
<1>1. Inv(life) => BranchesExact
  BY DEF Inv, Branching, BranchesExact, Gifts
<1> QED
  BY <1>1, Invariance, PTL

\* What counts as an invention is an achievement.
LEMMA InventionsAreAchievements ==
  ASSUME NEW g, Inv(g)
  PROVE  Inventions(g) <= Cardinality(Achievements(g))
<1> DEFINE made == {id \in g.discovered \cap DOMAIN Canon : ~ Canon[id].base}
           credited == g.credited \cap g.discovered
           earned == {id \in DOMAIN g.improvised : Earned(g, id)}
<1>1. IsFiniteSet(g.discovered) /\ DOMAIN g.improvised = g.discovered \ DOMAIN Canon
  BY DEF Inv, Lawful, Registry
<1>2. Achievements(g) = made \cup earned
  BY DEF Achievements, Earned
<1>3. credited \subseteq earned
  BY DEF Inv, Earned
<1>4. /\ IsFiniteSet(made) /\ IsFiniteSet(credited) /\ IsFiniteSet(earned)
      /\ made \cap credited = {}
  <2>1. made \subseteq g.discovered /\ credited \subseteq g.discovered /\ earned \subseteq g.discovered
    BY <1>1
  <2>2. made \cap credited = {}
    BY <1>1, <1>3
  <2> HIDE DEF made, credited, earned
  <2> QED
    BY <1>1, <2>1, <2>2, FS_Subset
<1> HIDE DEF made, credited, earned
<1>5. IsFiniteSet(made \cup earned) /\ made \cup credited \subseteq made \cup earned
  BY <1>3, <1>4, FS_Union
<1>6. Cardinality(made \cup credited) <= Cardinality(made \cup earned)
  BY <1>5, FS_Subset
<1>7. Cardinality(made \cup credited)
        = Cardinality(made) + Cardinality(credited) - Cardinality(made \cap credited)
  BY <1>4, FS_Union
<1>8. Cardinality({}) = 0 /\ Cardinality(made) \in Nat /\ Cardinality(credited) \in Nat
  BY <1>4, FS_EmptySet, FS_CardinalityType
<1>9. Inventions(g) = Cardinality(made) + Cardinality(credited)
  BY DEF Inventions, made, credited
<1>10. Cardinality(made \cup credited) = Cardinality(made) + Cardinality(credited)
  <2>1. Cardinality(made \cap credited) = 0
    BY <1>4, <1>8, Zenon
  <2> QED
    BY <1>7, <1>8, <2>1
<1> QED
  BY <1>2, <1>6, <1>9, <1>10

LEMMA InventionsCount ==
  ASSUME NEW g, Inv(g)
  PROVE  Inventions(g) \in Nat /\ Cardinality(Achievements(g)) \in Nat
<1> DEFINE made == {id \in g.discovered \cap DOMAIN Canon : ~ Canon[id].base}
           credited == g.credited \cap g.discovered
<1>1. IsFiniteSet(g.discovered) /\ DOMAIN g.improvised = g.discovered \ DOMAIN Canon
  BY DEF Inv, Lawful, Registry
<1>2. Achievements(g) \subseteq g.discovered
  BY <1>1 DEF Achievements
<1>3. IsFiniteSet(made) /\ IsFiniteSet(credited) /\ IsFiniteSet(Achievements(g))
  BY <1>1, <1>2, FS_Subset
<1>4. /\ Cardinality(made) \in Nat /\ Cardinality(credited) \in Nat
      /\ Cardinality(Achievements(g)) \in Nat
  BY <1>3, FS_CardinalityType
<1>5. Inventions(g) = Cardinality(made) + Cardinality(credited)
  BY DEF Inventions
<1> HIDE DEF made, credited
<1> QED
  BY <1>4, <1>5

\* applyEnding() and validateGeneratedEffects() end no life by a fate before
\* enough of it was earned: things found, and inventions that met a need or beat
\* a threat.
THEOREM FatesAreEarned == Spec => EndingsAreEarned
<1>1. ASSUME Inv(life), Inv(life)', [Next]_<<life, copies>>
      PROVE  [life.ended = None /\ life'.ended \in Fates \ {None}
                => Cardinality(Achievements(life')) >= EndingsUnlockAt]_life
  <2> SUFFICES ASSUME life.ended = None, life'.ended \in Fates \ {None}
               PROVE  Cardinality(Achievements(life')) >= EndingsUnlockAt
    OBVIOUS
  <2>1. Inv(life')
    BY <1>1
  <2>2. Turn
    <3>1. ASSUME Rename PROVE FALSE
      <4>1a. PICK id \in DOMAIN life.improvised : life' = [life EXCEPT !.improvised[id].name = WrittenName(id)]
        BY <3>1 DEF Rename
      <4>1. PICK name : life' = [life EXCEPT !.improvised[id].name = name]
        BY <4>1a
      <4>2. [life EXCEPT !.improvised[id].name = name].ended = life.ended
        BY <1>1, RenameKeepsInv
      <4> QED
        BY <4>1, <4>2
    <3>2. ASSUME Load PROVE FALSE
      <4>1. Loaded(life).ended = life.ended
        BY <1>1, LoadKeepsInv
      <4> QED
        BY <3>2, <4>1 DEF Load
    <3>3. life' # life
      OBVIOUS
    <3> QED
      BY <1>1, <3>1, <3>2, <3>3 DEF Next
  <2>3. life'.ended \in {None, OldAge} \cup FailEndings \/ EndingsUnlocked(life')
    BY <1>1, <2>2, TurnTaken DEF Leads
  <2>4. EndingsUnlocked(life')
    BY <2>3, EndingsAssumption DEF FailEndings
  <2>5. Inventions(life') <= Cardinality(Achievements(life')) /\ Inventions(life') >= EndingsUnlockAt
    BY <2>1, <2>4, InventionsAreAchievements DEF EndingsUnlocked
  <2>6. Inventions(life') \in Nat /\ Cardinality(Achievements(life')) \in Nat
    BY <2>1, InventionsCount
  <2> QED
    BY <2>5, <2>6, ContentAssumption
<1> QED
  BY <1>1, Invariance, PTL DEF Spec, EndingsAreEarned

\* A life is a Lifespan: every attempt costs summers, an ended life is played no
\* more, and no attempt leaves a life going whose summers are used up.
THEOREM Refinement == Spec => ImplementsLifespan
<1>1. Init => Lifespan!Init
  BY DEF Init, Lifespan!Init, NewLife
<1>2. ASSUME Inv(life), [Next]_<<life, copies>>
      PROVE  [Lifespan!Live]_<<life.attempts, life.ended # None>>
  <2>1. CASE Turn
    <3> DEFINE over == life'.ended # None
    <3>1. life.ended = None /\ Leads(Paid(life), life')
      BY <1>2, <2>1, TurnTaken
    <3>2. Paid(life).attempts = life.attempts + 1 /\ life.attempts \in Nat
      BY <1>2 DEF Inv, Lawful, Fields, Paid
    <3>3. PICK cost \in 1 .. TurnLimit : life'.attempts = Paid(life).attempts + cost - 1
      BY <3>1 DEF Leads
    <3>4. life'.attempts = life.attempts + cost
      BY <3>2, <3>3
    <3>5. life.attempts + cost >= TurnLimit => over
      BY <3>1, <3>4 DEF Leads
    <3> DEFINE spent == life.attempts + cost >= TurnLimit
    <3>6. over \in {spent, TRUE}
      <4>1. over \in BOOLEAN /\ spent \in BOOLEAN /\ (spent => over)
        BY <3>5
      <4> HIDE DEF over, spent
      <4> QED
        BY <4>1, Zenon
    <3> QED
      BY <3>1, <3>4, <3>6 DEF Lifespan!Live
  <2>2. CASE Rename
    <3>1a. PICK id \in DOMAIN life.improvised : life' = [life EXCEPT !.improvised[id].name = WrittenName(id)]
      BY <2>2 DEF Rename
    <3>1. PICK name : life' = [life EXCEPT !.improvised[id].name = name]
      BY <3>1a
    <3>2. LET h == [life EXCEPT !.improvised[id].name = name]
          IN  h.attempts = life.attempts /\ h.ended = life.ended
      BY <1>2, RenameKeepsInv
    <3> QED
      BY <3>1, <3>2
  <2>3. CASE Load
    <3>1. Loaded(life).attempts = life.attempts /\ Loaded(life).ended = life.ended
      BY <1>2, LoadKeepsInv
    <3> QED
      BY <2>3, <3>1 DEF Load
  <2>4. CASE UNCHANGED <<life, copies>>
    BY <2>4
  <2> QED
    BY <1>2, <2>1, <2>2, <2>3, <2>4 DEF Next
<1> QED
  BY <1>1, <1>2, Invariance, PTL DEF Spec, ImplementsLifespan, Lifespan!Spec

-----------------------------------------------------------------------------
(* The narrator.  Of whatever he says, a line of the ladder of defiance or a  *)
(* hint is the next in its order, and everything else leaves both as they     *)
(* were.                                                                      *)

VoiceFields ==
  {"spam", "lastPair", "repeat", "failStreak", "fast", "sweepElement", "sweep", "fails",
   "hintLevel", "last", "usedOnce", "built", "pulled", "lastPull", "defiance", "tiers",
   "lastDefiance", "suggestions", "attempts", "slowUsed", "grammar"}

\* The narrator stands on both ladders where he stood.
Unmoved(v, w) ==
  DOMAIN w = VoiceFields /\ w.tiers = v.tiers /\ w.defiance = v.defiance /\ w.hintLevel = v.hintLevel

Ordinary(v, r) == Unmoved(v, r.voice) /\ r.line \in OtherLines

\* The next hint for a problem.
Hinted(v, r) ==
  /\ DOMAIN r.voice = VoiceFields
  /\ r.voice.tiers = v.tiers /\ r.voice.defiance = v.defiance
  /\ \E p \in DOMAIN Problems :
       LET level == v.hintLevel[p]
       IN  /\ level < Len(Problems[p].hints)
           /\ r.line = Problems[p].hints[level + 1]
           /\ r.voice.hintLevel = [v.hintLevel EXCEPT ![p] = level + 1]

\* The lowest step of the ladder that is earned and was not heard.
Climbed(v, r) ==
  /\ DOMAIN r.voice = VoiceFields
  /\ r.voice.defiance = v.defiance /\ r.voice.hintLevel = v.hintLevel
  /\ \E act \in DOMAIN Script : \E n \in EarnedTier(v, Script[act].defiance) :
       r.line = Script[act].defiance[n] /\ r.voice.tiers = v.tiers \cup {n}

\* A reaction takes no step of defiance; the line after it may.
Steps(v, rs) == \A r \in rs : Ordinary(v, r) \/ Hinted(v, r)

Rises(v, rs) == \A r \in rs : Ordinary(v, r) \/ Hinted(v, r) \/ Climbed(v, r)

\* Whichever of two rules speaks, a step it is if both of them take steps.
LEMMA FirstSteps ==
  ASSUME NEW v, NEW x, NEW y, Steps(v, x), Steps(v, y)
  PROVE  Steps(v, x ?? y)
BY DEF Steps, ??

LEMMA NoSteps == \A v : Steps(v, {})
BY DEF Steps

LEMMA FirstRises ==
  ASSUME NEW v, NEW x, NEW y, Rises(v, x), Rises(v, y)
  PROVE  Rises(v, x ?? y)
BY DEF Rises, ??

LEMMA StepsRise ==
  ASSUME NEW v, NEW x, Steps(v, x)
  PROVE  Rises(v, x)
BY DEF Steps, Rises

LEMMA SpokenUnmoved ==
  ASSUME NEW v, NEW w, Unmoved(v, w), NEW line
  PROVE  Unmoved(v, Spoken(w, line))
BY DEF Unmoved, Spoken, VoiceFields

LEMMA SpeakOneSteps ==
  ASSUME NEW v, NEW w, Unmoved(v, w), NEW lines, lines \subseteq OtherLines
  PROVE  Steps(v, SpeakOne(w, lines))
BY SpokenUnmoved DEF Steps, SpeakOne, Said, Ordinary

LEMMA AtIsListed ==
  ASSUME NEW f, NEW n
  PROVE  At(f, n) \subseteq Range(f)
BY DEF At, Range

LEMMA DrawnFromPool ==
  ASSUME NEW v, NEW g, NEW pool
  PROVE  Drawn(v, g, pool) \subseteq pool /\ Rotated(v, g, pool) \subseteq pool
BY DEF Drawn, Rotated

\* The foremost of what is wanted is wanted.
LEMMA ForemostIsWanted ==
  ASSUME NEW seq, DOMAIN seq \subseteq Nat, NEW wanted, Foremost(seq, wanted) # None
  PROVE  Foremost(seq, wanted) \in wanted \cap Range(seq)
<1> DEFINE fit == {i \in DOMAIN seq : seq[i] \in wanted}
<1>1. fit \in SUBSET Nat /\ Foremost(seq, wanted) = IF fit = {} THEN None ELSE seq[Min(fit)]
  BY DEF Foremost
<1>2. fit # {} => Min(fit) \in fit
  <2> HIDE DEF fit
  <2> QED
    BY <1>1, MinOfNumbers
<1> QED
  BY <1>1, <1>2 DEF Range

LEMMA ForemostUnsolvedIsWanted ==
  ASSUME NEW g, g.act \in 1 .. 1 + Cardinality(AgeUps), NEW wanted, ForemostUnsolved(g, wanted) # None
  PROVE  ForemostUnsolved(g, wanted) \in wanted
<1>1. DOMAIN ProblemsOf(g) \subseteq Nat
  BY ActsAssumption DEF ProblemsOf
<1> QED
  BY <1>1, ForemostIsWanted DEF ForemostUnsolved

\* A script of this book, and what of it is not on a ladder.
LEMMA OthersAreOther ==
  /\ ScriptLines \subseteq OtherLines /\ ActLines \subseteq OtherLines
  /\ ChallengeLines \subseteq OtherLines
  /\ Range(Endings) \subseteq OtherLines /\ Range(Baked) \subseteq OtherLines
  /\ {p.pull : p \in Range(Problems)} \subseteq OtherLines
  /\ {r.line : r \in Range(Recipes)} \subseteq OtherLines
  /\ "live" \in OtherLines /\ None \in OtherLines
<1> DEFINE pulls == {p.pull : p \in Range(Problems)}
           tales == {r.line : r \in Range(Recipes)}
<1>1. OtherLines = UNION {ScriptLines, ActLines, ChallengeLines, Range(Endings), Range(Baked),
                          {"live", None}, pulls, tales}
  BY DEF OtherLines
<1> HIDE DEF pulls, tales
<1>2. /\ ScriptLines \subseteq OtherLines /\ ActLines \subseteq OtherLines
      /\ ChallengeLines \subseteq OtherLines /\ pulls \subseteq OtherLines /\ tales \subseteq OtherLines
      /\ Range(Endings) \subseteq OtherLines /\ Range(Baked) \subseteq OtherLines
      /\ "live" \in OtherLines /\ None \in OtherLines
  BY <1>1
<1> QED
  BY <1>2 DEF pulls, tales

LEMMA ScriptsAreOther ==
  ASSUME NEW act \in DOMAIN Acts
  PROVE  /\ act \in DOMAIN Script
         /\ LinesOf(Script[act]) \subseteq OtherLines
         /\ Acts[act].gateLine \subseteq OtherLines /\ Acts[act].ageUpLine \subseteq OtherLines
         /\ Acts[act].introLine \in OtherLines /\ Script[act].resumeLine \in OtherLines
<1>1. act \in DOMAIN Script
  BY ScriptAssumption
<1>2. LinesOf(Script[act]) \subseteq OtherLines
  BY <1>1, OthersAreOther DEF ScriptLines
<1>3. {Acts[act].introLine} \cup Acts[act].gateLine \cup Acts[act].ageUpLine \subseteq OtherLines
  BY OthersAreOther DEF ActLines, Range
<1>4. Script[act].resumeLine \in LinesOf(Script[act])
  BY DEF LinesOf
<1> QED
  BY <1>1, <1>2, <1>3, <1>4

LEMMA PullsAreOther ==
  /\ \A p \in DOMAIN Problems : Problems[p].pull \in OtherLines
  /\ \A i \in DOMAIN Recipes : Recipes[i].line \in OtherLines
  /\ \A c \in DOMAIN Challenges :
       Challenges[c].line \in OtherLines /\ Challenges[c].successLine \in OtherLines
<1>1. \A c \in DOMAIN Challenges : {Challenges[c].line, Challenges[c].successLine} \subseteq OtherLines
  BY OthersAreOther DEF ChallengeLines, Range
<1>2. \A p \in DOMAIN Problems : Problems[p].pull \in OtherLines
  BY OthersAreOther DEF Range
<1>3. \A i \in DOMAIN Recipes : Recipes[i].line \in OtherLines
  BY OthersAreOther DEF Range
<1> QED
  BY <1>1, <1>2, <1>3

InBook(g) == g.act \in 1 .. 1 + Cardinality(AgeUps)

LEMMA BooksAreOther ==
  ASSUME NEW g, InBook(g)
  PROVE  /\ g.act \in DOMAIN Acts /\ g.act \in DOMAIN Script
         /\ LinesOf(Script[g.act]) \subseteq OtherLines
         /\ Acts[g.act].gateLine \subseteq OtherLines /\ Acts[g.act].ageUpLine \subseteq OtherLines
BY ScriptsAreOther, ActsAssumption DEF InBook

LEMMA LastWordSteps ==
  ASSUME NEW v, NEW w, Unmoved(v, w), NEW g
  PROVE  Steps(v, LastWord(w, g))
<1> DEFINE words == At(Endings, g.ended)
           u == [w EXCEPT !.usedOnce = @ \cup words]
<1>1. Unmoved(v, u)
  BY DEF Unmoved, VoiceFields
<1>2. words \subseteq OtherLines
  BY AtIsListed, OthersAreOther
<1>3. LastWord(w, g) = SpeakOne(u, words \ w.usedOnce)
  BY DEF LastWord
<1> HIDE DEF u, words
<1> QED
  BY <1>1, <1>2, <1>3, SpeakOneSteps

LEMMA InventionSteps ==
  ASSUME NEW v, NEW w, Unmoved(v, w), NEW g, InBook(g), NEW t, NEW pair, NEW target
  PROVE  Steps(v, InventionSolves(w, g, t, pair, target))
<1> DEFINE improvisation == Script[g.act].improvisation
<1>1. /\ improvisation.absurdSolved \subseteq OtherLines
      /\ improvisation.challengeSolved \subseteq OtherLines
      /\ improvisation.problemSolved \subseteq OtherLines
  BY BooksAreOther DEF LinesOf
<1>2. \A r \in InventionSolves(w, g, t, pair, target) :
        \E pool : pool \subseteq OtherLines /\ r \in SpeakOne(w, Drawn(w, g, pool))
  BY <1>1 DEF InventionSolves
<1>3. \A pool : pool \subseteq OtherLines => Steps(v, SpeakOne(w, Drawn(w, g, pool)))
  BY DrawnFromPool, SpeakOneSteps
<1> QED
  BY <1>2, <1>3 DEF Steps

LEMMA ChallengeSteps ==
  ASSUME NEW v, NEW w, Unmoved(v, w), NEW g, InBook(g), NEW t, Announced(t.event)
  PROVE  Steps(v, OfChallenge(w, g, t))
<1>1. Script[g.act].warning \subseteq OtherLines
  BY BooksAreOther DEF LinesOf
<1>2. PICK lines : OfChallenge(w, g, t) = SpeakOne(w, lines) /\ lines \subseteq OtherLines
  <2>1. CASE t.event.kind = "spawned"
    BY <2>1, PullsAreOther DEF OfChallenge, Announced
  <2>2. CASE t.event.kind = "solved"
    BY <2>2, PullsAreOther DEF OfChallenge, Announced
  <2>3. CASE t.event.kind = "ticking" /\ g.turnsLeft <= 2
    BY <1>1, <2>3 DEF OfChallenge
  <2>4. CASE t.event.kind \notin {"spawned", "solved"} /\ ~ (t.event.kind = "ticking" /\ g.turnsLeft <= 2)
    BY <2>4 DEF OfChallenge
  <2> QED
    BY <2>1, <2>2, <2>3, <2>4
<1> QED
  BY <1>2, SpeakOneSteps

LEMMA FateAndGateSteps ==
  ASSUME NEW v, NEW w, Unmoved(v, w), NEW g, InBook(g), NEW t
  PROVE  Steps(v, OfFate(w, g, t)) /\ Steps(v, OfGate(w, g, t))
<1>1. Script[g.act].deflected \subseteq OtherLines /\ Acts[g.act].gateLine \subseteq OtherLines
  BY BooksAreOther DEF LinesOf
<1> QED
  BY <1>1, SpeakOneSteps, NoSteps DEF OfFate, OfGate

LEMMA BridgeSteps ==
  ASSUME NEW v, NEW w, Unmoved(v, w), NEW g, InBook(g), NEW before
  PROVE  Steps(v, Bridge(w, g, before))
<1> DEFINE bridge == Script[g.act].bridge
           next == CurrentPull(g)
           pool == IF before THEN bridge.continued ELSE bridge.first
           u == [w EXCEPT !.pulled = next, !.lastPull = w.attempts]
<1>1. bridge.first \subseteq OtherLines /\ bridge.continued \subseteq OtherLines
  BY BooksAreOther DEF LinesOf
<1>2. Drawn(w, g, pool) \subseteq OtherLines
  BY <1>1, DrawnFromPool
<1>3. Unmoved(v, u)
  BY DEF Unmoved, VoiceFields
<1>4. ASSUME NEW r \in Bridge(w, g, before)
      PROVE  \E line \in Drawn(w, g, pool) :
               r = [Said(Spoken(u, line), line) EXCEPT !.covered = TRUE]
  BY <1>4 DEF Bridge
<1>5. ASSUME NEW line \in OtherLines
      PROVE  Ordinary(v, [Said(Spoken(u, line), line) EXCEPT !.covered = TRUE])
  <2>1. Unmoved(v, Spoken(u, line))
    BY <1>3, SpokenUnmoved
  <2> QED
    BY <2>1 DEF Ordinary, Said
<1> HIDE DEF pool, u
<1> QED
  BY <1>2, <1>4, <1>5 DEF Steps

LEMMA DiscoverySteps ==
  ASSUME NEW v, NEW w, Unmoved(v, w), NEW g, InBook(g), NEW before, InBook(before),
         NEW t, t.outcome.kind = "discovery", Tellable(t.outcome)
  PROVE  Steps(v, OfDiscovery(w, g, before, t))
<1> DEFINE recipe == t.outcome.recipe
           u == [w EXCEPT !.built = TRUE]
           age == SpeakOne(u, IF recipe.ageUp THEN Acts[before.act].ageUpLine ELSE {})
           own == SpeakOne(u, {recipe.line} \ {None})
           any == SpeakOne(u, Rotated(u, g, Script[g.act].discoveryFallback))
<1>1. Unmoved(v, u)
  BY DEF Unmoved, VoiceFields
<1>2. recipe.line \in OtherLines
  BY PullsAreOther DEF Tellable
<1>3. Acts[before.act].ageUpLine \subseteq OtherLines /\ Script[g.act].discoveryFallback \subseteq OtherLines
  BY BooksAreOther DEF LinesOf
<1> HIDE DEF u
<1>4. Steps(v, age)
  <2>1. (IF recipe.ageUp THEN Acts[before.act].ageUpLine ELSE {}) \subseteq OtherLines
    BY <1>3
  <2> QED
    BY <1>1, <2>1, SpeakOneSteps
<1>5. Steps(v, own)
  BY <1>1, <1>2, SpeakOneSteps
<1>6. Steps(v, any)
  BY <1>1, <1>3, DrawnFromPool, SpeakOneSteps
<1>7. Steps(v, Bridge(u, g, w.built))
  BY <1>1, BridgeSteps
<1>8. Steps(v, {Said(u, None)})
  BY <1>1, OthersAreOther DEF Steps, Ordinary, Said
<1>9. OfDiscovery(w, g, before, t) =
        age ?? own ?? Bridge(u, g, w.built) ?? any ?? {Said(u, None)}
  BY DEF OfDiscovery, u
<1> HIDE DEF age, own, any
<1> QED
  BY <1>4, <1>5, <1>6, <1>7, <1>8, <1>9, FirstSteps

LEMMA ImprovisationSteps ==
  ASSUME NEW v, NEW w, Unmoved(v, w), NEW g, InBook(g), NEW t
  PROVE  Steps(v, OfReuse(w, g, t)) /\ Steps(v, OfRejection(w, g, t)) /\ Steps(v, OfUselessness(w, g, t))
<1>1. /\ Script[g.act].improvisation.reused \subseteq OtherLines
      /\ Script[g.act].improvisation.rejected \subseteq OtherLines
      /\ Script[g.act].improvisation.useless \subseteq OtherLines
  BY BooksAreOther DEF LinesOf
<1>2. \A pool : pool \subseteq OtherLines => Steps(v, SpeakOne(w, Drawn(w, g, pool)))
  BY DrawnFromPool, SpeakOneSteps
<1> QED
  BY <1>1, <1>2, NoSteps DEF OfReuse, OfRejection, OfUselessness

LEMMA AdviceSteps ==
  ASSUME NEW v, NEW w, Unmoved(v, w), NEW g, InBook(g), NEW pair
  PROVE  Unmoved(v, WithoutAdvice(w, pair)) /\ Steps(v, OfAdvice(w, g, pair))
<1>1. Script[g.act].obeyedFailure \subseteq OtherLines
  BY BooksAreOther DEF LinesOf
<1>2. Unmoved(v, WithoutAdvice(w, pair))
  BY DEF WithoutAdvice, Unmoved, VoiceFields
<1> QED
  BY <1>1, <1>2, DrawnFromPool, SpeakOneSteps, NoSteps DEF OfAdvice

LEMMA BehaviorSteps ==
  ASSUME NEW v, NEW w, Unmoved(v, w), NEW g, InBook(g), NEW pace
  PROVE  Steps(v, OfBehavior(w, g, pace))
<1> DEFINE behavior == Script[g.act].behavior
           slow == IF ~ w.slowUsed /\ pace = "slow"
                     THEN SpeakOne([w EXCEPT !.slowUsed = TRUE], behavior.slow) ELSE {}
           aging == SpeakOne(w, At(behavior.aging, Max({0, TurnLimit - g.attempts})))
           spam == SpeakOne(w, At(behavior.spam, w.spam))
           repeat == SpeakOne(w, At(behavior.repeatCombo, w.repeat))
           sweep == SpeakOne(w, At(behavior.elementSweep, w.sweep))
           streak == SpeakOne(w, At(behavior.failStreak, w.failStreak))
           fast == SpeakOne(w, At(behavior.fast, w.fast))
<1>1. /\ Range(behavior.aging) \subseteq OtherLines /\ behavior.slow \subseteq OtherLines
      /\ Range(behavior.spam) \subseteq OtherLines /\ Range(behavior.repeatCombo) \subseteq OtherLines
      /\ Range(behavior.elementSweep) \subseteq OtherLines
      /\ Range(behavior.failStreak) \subseteq OtherLines /\ Range(behavior.fast) \subseteq OtherLines
  BY BooksAreOther DEF LinesOf
<1>2. \A f, n : Range(f) \subseteq OtherLines => Steps(v, SpeakOne(w, At(f, n)))
  BY AtIsListed, SpeakOneSteps
<1>3. Steps(v, slow)
  <2>1. Unmoved(v, [w EXCEPT !.slowUsed = TRUE])
    BY DEF Unmoved, VoiceFields
  <2> QED
    BY <1>1, <2>1, SpeakOneSteps, NoSteps
<1>4. /\ Steps(v, aging) /\ Steps(v, spam) /\ Steps(v, repeat) /\ Steps(v, sweep)
      /\ Steps(v, streak) /\ Steps(v, fast)
  BY <1>1, <1>2
<1>5. OfBehavior(w, g, pace) = aging ?? slow ?? spam ?? repeat ?? sweep ?? streak ?? fast
  BY DEF OfBehavior
<1> HIDE DEF slow, aging, spam, repeat, sweep, streak, fast
<1> QED
  BY <1>3, <1>4, <1>5, FirstSteps

\* hintLine() gives the hint after those that were given.
LEMMA HintSteps ==
  ASSUME NEW v, v.hintLevel \in [DOMAIN Problems -> Nat], NEW w, Unmoved(v, w), NEW g, InBook(g)
  PROVE  Steps(v, OfHints(w, g))
<1> DEFINE problem == ForemostUnsolved(g, {p \in DOMAIN Problems : Problems[p].hints # <<>>})
           hints == Problems[problem].hints
           level == w.hintLevel[problem]
           u == [w EXCEPT !.hintLevel[problem] = level + 1]
           line == hints[level + 1]
<1>1. CASE problem # None /\ level < Len(hints)
  <2>1. problem \in DOMAIN Problems
    BY <1>1, ForemostUnsolvedIsWanted DEF InBook
  <2>2. /\ DOMAIN u = VoiceFields /\ u.tiers = v.tiers /\ u.defiance = v.defiance
        /\ u.hintLevel = [v.hintLevel EXCEPT ![problem] = level + 1]
        /\ level = v.hintLevel[problem]
    BY DEF Unmoved, VoiceFields
  <2> HIDE DEF u
  <2>3. /\ DOMAIN Spoken(u, line) = VoiceFields /\ Spoken(u, line).tiers = v.tiers
        /\ Spoken(u, line).defiance = v.defiance
        /\ Spoken(u, line).hintLevel = u.hintLevel
    BY <2>2 DEF Spoken, VoiceFields
  <2>4. Hinted(v, Said(Spoken(u, line), line))
    <3> DEFINE r == Said(Spoken(u, line), line)
    <3>1. r.voice = Spoken(u, line) /\ r.line = line
      BY DEF Said
    <3> HIDE DEF r, problem
    <3>2. Hinted(v, r)
      BY <1>1, <2>1, <2>2, <2>3, <3>1 DEF Hinted
    <3> QED
      BY <3>2 DEF r
  <2>5. \A r \in OfHints(w, g) : r = Said(Spoken(u, line), line)
    BY DEF OfHints, HintsGiven, SpeakOne, u
  <2> HIDE DEF u, line
  <2> QED
    BY <2>4, <2>5 DEF Steps
<1>2. CASE ~ (problem # None /\ level < Len(hints))
  BY <1>2, NoSteps DEF OfHints, HintsGiven
<1> QED
  BY <1>1, <1>2

LEMMA MemorySteps ==
  ASSUME NEW v, NEW w, Unmoved(v, w), NEW g, InBook(g)
  PROVE  Steps(v, OfMemory(w, g))
<1> DEFINE memories == Script[g.act].flagMemory
           line == Foremost(memories, {m \in Range(memories) \ w.usedOnce : MaySay(g, m)})
<1>1. Range(memories) \subseteq OtherLines /\ g.act \in DOMAIN Script
  BY BooksAreOther DEF LinesOf
<1>2. DOMAIN memories \subseteq Nat
  BY <1>1, ScriptAssumption
<1> HIDE DEF memories
<1>3. {line} \ {None} \subseteq OtherLines
  BY <1>1, <1>2, ForemostIsWanted
<1>4. OfMemory(w, g) = SpeakOne(w, {line} \ {None})
  BY DEF OfMemory, memories
<1> HIDE DEF line
<1> QED
  BY <1>3, <1>4, SpeakOneSteps

\* The line is one of the pool, fresh or not.
LEMMA FreshFromPool ==
  ASSUME NEW v, NEW pool
  PROVE  FreshGrammar(v, pool) \subseteq pool
BY DEF FreshGrammar

LEMMA GrammarSteps ==
  ASSUME NEW v, NEW w, Unmoved(v, w), NEW g, InBook(g), NEW pair, NEW verdict
  PROVE  Steps(v, OfGrammar(w, g, pair, verdict))
<1> DEFINE pool == At(Script[g.act].grammar, verdict)
           lines == IF pool = {} THEN {} ELSE CHOOSE l \in pool : TRUE
           done == lines \subseteq Range(w.grammar)
           kept == IF done THEN HeardOfOthers(w.grammar, lines) ELSE w.grammar
           Told(line) == Spoken([w EXCEPT !.grammar = <<line>> \o kept], line)
           advice == IF verdict = "near-miss"
                       THEN UNION {Advised(g, Element(g, a), Element(g, b)) : a, b \in pair} ELSE {}
<1>1. lines \subseteq OtherLines
  <2>1. UNION Range(Script[g.act].grammar) \subseteq OtherLines
    BY BooksAreOther DEF LinesOf
  <2>2. pool # {} => lines \in pool
    BY DEF lines
  <2> QED
    BY <2>1, <2>2, AtIsListed
<1>2. \A line : Unmoved(v, Told(line))
  <2>1. \A line : Unmoved(v, [w EXCEPT !.grammar = <<line>> \o kept])
    BY DEF Unmoved, VoiceFields
  <2> QED
    BY <2>1, SpokenUnmoved
<1>3. \A line, p : Unmoved(v, Remember(Told(line), p))
  <2>1. \A u, p : Unmoved(v, u) => Unmoved(v, Remember(u, p))
    BY DEF Unmoved, Remember, VoiceFields
  <2> HIDE DEF Told
  <2> QED
    BY <1>2, <2>1
<1>4. OfGrammar(w, g, pair, verdict) =
        IF lines = {} THEN {}
        ELSE UNION {{Said(Told(line), line)}
                      \cup {Said(Remember(Told(line), p), line) : p \in advice} :
                      line \in FreshGrammar(w, lines)}
  BY DEF OfGrammar
<1> HIDE DEF Told, advice, lines
<1>5. ASSUME NEW r \in OfGrammar(w, g, pair, verdict)
      PROVE  \E line \in lines :
               r = Said(Told(line), line) \/ \E p : r = Said(Remember(Told(line), p), line)
  BY <1>4, <1>5, FreshFromPool
<1> QED
  BY <1>1, <1>2, <1>3, <1>5 DEF Steps, Ordinary, Said

LEMMA OtherSteps ==
  ASSUME NEW v, NEW w, Unmoved(v, w), NEW g, InBook(g), NEW pair, NEW verdict, NEW arrived
  PROVE  /\ Steps(v, OfThisPair(w, pair, verdict)) /\ Steps(v, OfLive(w, arrived))
         /\ Steps(v, OfNothing(w, g)) /\ Steps(v, {Said(w, None)})
<1>1. Script[g.act].generic \subseteq OtherLines
  BY BooksAreOther DEF LinesOf
<1>2. Steps(v, OfNothing(w, g))
  BY <1>1, DrawnFromPool, SpeakOneSteps DEF OfNothing
<1>3. Steps(v, OfThisPair(w, pair, verdict))
  <2>1. At(Baked, <<pair, verdict>>) \subseteq OtherLines
    BY AtIsListed, OthersAreOther
  <2> QED
    BY <2>1, SpeakOneSteps DEF OfThisPair
<1>4. Steps(v, OfLive(w, arrived))
  <2>1. Unmoved(v, [w EXCEPT !.last = "live"])
    BY DEF Unmoved, VoiceFields
  <2> QED
    BY <2>1, OthersAreOther DEF OfLive, Steps, Ordinary, Said
<1>5. Steps(v, {Said(w, None)})
  BY OthersAreOther DEF Steps, Ordinary, Said
<1> QED
  BY <1>2, <1>3, <1>4, <1>5

LEMMA FailureSteps ==
  ASSUME NEW v, v.hintLevel \in [DOMAIN Problems -> Nat], NEW w, Unmoved(v, w), NEW g, InBook(g),
         NEW t, NEW pair, NEW pace, NEW arrived
  PROVE  Steps(v, Failure(w, g, t, pair, pace, arrived))
<1> DEFINE nofuse == t.outcome.kind = "nofuse"
           u == IF nofuse THEN WithoutAdvice(w, pair) ELSE w
           a == CHOOSE x \in pair : TRUE
           b == CHOOSE x \in pair : pair = {a, x}
           verdict == Verdict(g, Element(g, a), Element(g, b))
           advice == IF nofuse THEN OfAdvice(w, g, pair) ELSE {}
           telling == OfHints(u, g) ?? OfMemory(u, g) ?? OfThisPair(u, pair, verdict)
                     ?? OfLive(u, arrived) ?? OfGrammar(u, g, pair, verdict) ?? OfNothing(u, g)
           last == IF ~ nofuse THEN {Said(u, None)} ELSE telling
<1>1. Failure(w, g, t, pair, pace, arrived) = advice ?? OfBehavior(u, g, pace) ?? last
  BY DEF Failure
<1>2. Unmoved(v, u) /\ Steps(v, advice)
  BY AdviceSteps, NoSteps
<1> HIDE DEF u, advice, verdict, nofuse
<1>3. Steps(v, OfBehavior(u, g, pace))
  BY <1>2, BehaviorSteps
<1>4. /\ Steps(v, OfThisPair(u, pair, verdict)) /\ Steps(v, OfLive(u, arrived))
      /\ Steps(v, OfNothing(u, g)) /\ Steps(v, {Said(u, None)})
  BY <1>2, OtherSteps
<1>5. Steps(v, OfHints(u, g)) /\ Steps(v, OfMemory(u, g)) /\ Steps(v, OfGrammar(u, g, pair, verdict))
  BY <1>2, HintSteps, MemorySteps, GrammarSteps
<1>6. Steps(v, telling)
  BY <1>4, <1>5, FirstSteps
<1> HIDE DEF telling
<1>7. Steps(v, last)
  BY <1>4, <1>6
<1> HIDE DEF last
<1> QED
  BY <1>1, <1>2, <1>3, <1>7, FirstSteps

LEMMA CountedUnmoved ==
  ASSUME NEW v, DOMAIN v = VoiceFields, NEW g, NEW pair, NEW o, NEW pace
  PROVE  Unmoved(v, Counted(v, g, pair, o, pace))
<1>1. Unmoved(v, Swept(v, pair))
  BY DEF Unmoved, Swept, VoiceFields
<1> QED
  BY <1>1 DEF Counted, Unmoved, VoiceFields

\* Whatever react() says of a turn is a step.
LEMMA ReactSteps ==
  ASSUME NEW v, DOMAIN v = VoiceFields, v.hintLevel \in [DOMAIN Problems -> Nat],
         NEW before, InBook(before), NEW t, InBook(t.game), Tellable(t.outcome), Announced(t.event),
         NEW pair, NEW pace, NEW arrived
  PROVE  Steps(v, React(v, before, t, pair, pace, arrived))
<1> DEFINE g == t.game
           w == Counted(v, g, pair, t.outcome, pace)
           tale == IF t.outcome.kind = "discovery" THEN OfDiscovery(w, g, before, t) ELSE {}
<1>1. React(v, before, t, pair, pace, arrived) =
        LastWord(w, g)
          ?? InventionSolves(w, g, t, pair, "challenge")
          ?? OfChallenge(w, g, t)
          ?? InventionSolves(w, g, t, pair, "problem")
          ?? OfFate(w, g, t)
          ?? OfGate(w, g, t)
          ?? tale
          ?? OfReuse(w, g, t)
          ?? OfRejection(w, g, t)
          ?? OfUselessness(w, g, t)
          ?? Failure(w, g, t, pair, pace, arrived)
  BY DEF React
<1>2. Unmoved(v, w)
  BY CountedUnmoved
<1> HIDE DEF w
<1>3. /\ Steps(v, LastWord(w, g)) /\ Steps(v, OfChallenge(w, g, t))
      /\ Steps(v, InventionSolves(w, g, t, pair, "challenge"))
      /\ Steps(v, InventionSolves(w, g, t, pair, "problem"))
  BY <1>2, LastWordSteps, InventionSteps, ChallengeSteps
<1>4. Steps(v, OfFate(w, g, t)) /\ Steps(v, OfGate(w, g, t)) /\ Steps(v, tale)
  BY <1>2, FateAndGateSteps, DiscoverySteps, NoSteps
<1>5. Steps(v, OfReuse(w, g, t)) /\ Steps(v, OfRejection(w, g, t)) /\ Steps(v, OfUselessness(w, g, t))
  BY <1>2, ImprovisationSteps
<1>6. Steps(v, Failure(w, g, t, pair, pace, arrived))
  BY <1>2, FailureSteps
<1> HIDE DEF tale, g
<1> QED
  BY <1>1, <1>3, <1>4, <1>5, <1>6, FirstSteps

\* defianceTierLine() takes the lowest step that is earned.
LEMMA ClimbSteps ==
  ASSUME NEW v, DOMAIN v = VoiceFields, NEW act \in DOMAIN Script
  PROVE  Rises(v, Climb(v, Script[act].defiance))
<1> DEFINE tiers == Script[act].defiance
           Told(n) == Spoken(Raised(v, n), tiers[n])
<1>1. ASSUME NEW n PROVE /\ DOMAIN Told(n) = VoiceFields /\ Told(n).tiers = v.tiers \cup {n}
                         /\ Told(n).defiance = v.defiance /\ Told(n).hintLevel = v.hintLevel
  <2>1. LET u == Raised(v, n) IN
        /\ DOMAIN u = VoiceFields /\ u.tiers = v.tiers \cup {n} /\ u.defiance = v.defiance
        /\ u.hintLevel = v.hintLevel
    BY DEF Raised, VoiceFields
  <2> QED
    BY <2>1 DEF Spoken, VoiceFields
<1>2. ASSUME NEW r \in Climb(v, tiers)
      PROVE  \E n \in EarnedTier(v, tiers) : r = Said(Told(n), tiers[n])
  BY <1>2 DEF Climb, SpeakOne
<1> HIDE DEF Told
<1>3. ASSUME NEW n \in EarnedTier(v, tiers) PROVE Climbed(v, Said(Told(n), tiers[n]))
  BY <1>1 DEF Climbed, Said
<1> QED
  BY <1>2, <1>3 DEF Rises

\* defianceLine() jokes, takes a step, or leaves the word to the pull.
LEMMA DefianceSteps ==
  ASSUME NEW v, DOMAIN v = VoiceFields, NEW g, InBook(g), NEW o, NEW pull, Steps(v, pull)
  PROVE  Rises(v, OfDefiance(v, g, o, pull))
<1> DEFINE climb == Climb(v, Script[g.act].defiance)
           comics == Script[g.act].defianceComic
           joke == SpeakOne([v EXCEPT !.lastDefiance = v.attempts], comics \ {v.last})
<1>1. comics \subseteq OtherLines /\ g.act \in DOMAIN Script
  BY BooksAreOther DEF LinesOf
<1>2. Steps(v, joke)
  <2>1. Unmoved(v, [v EXCEPT !.lastDefiance = v.attempts])
    BY DEF Unmoved, VoiceFields
  <2> QED
    BY <1>1, <2>1, SpeakOneSteps
<1>3. Rises(v, climb ?? pull)
  BY <1>1, ClimbSteps, StepsRise, FirstRises
<1>4. OfDefiance(v, g, o, pull) \subseteq (climb ?? pull) \cup joke \cup pull
  BY DEF OfDefiance
<1> HIDE DEF climb, joke
<1> QED
  BY <1>2, <1>3, <1>4 DEF Steps, Rises

LEMMA PullSteps ==
  ASSUME NEW v, DOMAIN v = VoiceFields, NEW g, InBook(g), NEW covered
  PROVE  Steps(v, OfPull(v, g, covered))
<1> DEFINE next == CurrentPull(g)
           u == [v EXCEPT !.pulled = next, !.lastPull = v.attempts]
<1>1. Unmoved(v, v) /\ Unmoved(v, u) /\ Unmoved(v, [v EXCEPT !.pulled = None])
  BY DEF Unmoved, VoiceFields
<1>2. next # None => Problems[next].pull \in OtherLines
  BY ForemostUnsolvedIsWanted, PullsAreOther DEF CurrentPull, InBook
<1>3. Steps(v, {Said(v, None)}) /\ Steps(v, {Said([v EXCEPT !.pulled = None], None)})
  BY <1>1, OthersAreOther DEF Steps, Ordinary, Said
<1>4. next # None => Steps(v, SpeakOne(u, {Problems[next].pull}))
  <2> HIDE DEF u, next
  <2> QED
    BY <1>1, <1>2, SpeakOneSteps
<1> QED
  BY <1>3, <1>4 DEF OfPull

\* The second line after a turn: a step from where the first one left him, once a
\* defiance is counted.
LEMMA FollowUpSteps ==
  ASSUME NEW r, DOMAIN r.voice = VoiceFields, NEW g, InBook(g), NEW o, NEW f \in FollowUp(r, g, o)
  PROVE  \E u : /\ u = r.voice \/ u = [r.voice EXCEPT !.defiance = @ + 1]
                /\ Rises(u, {f})
<1> DEFINE v == IF Defied(r.voice, g, o) THEN [r.voice EXCEPT !.defiance = @ + 1] ELSE r.voice
           pull == OfPull(v, g, r.covered)
           second == IF Defied(r.voice, g, o) THEN OfDefiance(v, g, o, pull) ELSE pull
<1>1. DOMAIN v = VoiceFields
  OBVIOUS
<1>2. f = Said(r.voice, None) \/ f \in second
  BY DEF FollowUp
<1>3. v = r.voice \/ v = [r.voice EXCEPT !.defiance = @ + 1]
  OBVIOUS
<1> HIDE DEF v
<1>4. Steps(v, pull)
  BY <1>1, PullSteps
<1> HIDE DEF pull
<1>5. Rises(v, second)
  BY <1>1, <1>4, DefianceSteps, StepsRise
<1>6. CASE f = Said(r.voice, None)
  <2>1. Rises(r.voice, {f})
    BY <1>6, OthersAreOther DEF Rises, Ordinary, Unmoved, Said
  <2> QED
    BY <2>1
<1>7. CASE f \in second
  <2>1. Rises(v, {f})
    BY <1>5, <1>7 DEF Rises
  <2> QED
    BY <1>3, <2>1
<1> QED
  BY <1>2, <1>6, <1>7

-----------------------------------------------------------------------------
(* How often the lines of the ladders were said. *)

Tally(c, line) == [l \in LadderLines |-> c[l] + (IF l = line THEN 1 ELSE 0)]

\* The steps that are marked as heard were said once each and the others never; they
\* are earned, and no lower one is left out.  The hints that are marked as given were
\* given, in their order, and each of them no more often than turns were taken back
\* besides.
Score(v, c, lost) ==
  /\ DOMAIN v = VoiceFields
  /\ v.defiance \in Nat
  /\ v.hintLevel \in [DOMAIN Problems -> Nat]
  /\ c \in [LadderLines -> Nat]
  /\ lost \in Nat
  /\ \A act \in DOMAIN Script : \A n \in DOMAIN Script[act].defiance :
       /\ c[Script[act].defiance[n]] = IF n \in v.tiers THEN 1 ELSE 0
       /\ n \in v.tiers =>
            /\ n <= v.defiance
            /\ \A m \in DOMAIN Script[act].defiance : m < n => m \in v.tiers
  /\ \A p \in DOMAIN Problems : \A i \in DOMAIN Problems[p].hints :
       LET given == IF i <= v.hintLevel[p] THEN 1 ELSE 0
           times == c[Problems[p].hints[i]]
       IN  /\ given <= times /\ times <= given + lost
           /\ i > 1 /\ times > 0 => c[Problems[p].hints[i - 1]] > 0

LEMMA LinesOfLadders ==
  /\ \A act \in DOMAIN Script : \A n \in DOMAIN Script[act].defiance :
       Script[act].defiance[n] \in DefianceLines
  /\ \A p \in DOMAIN Problems : \A i \in DOMAIN Problems[p].hints :
       Problems[p].hints[i] \in HintLines
<1>1. ASSUME NEW act \in DOMAIN Script, NEW n \in DOMAIN Script[act].defiance
      PROVE  Script[act].defiance[n] \in DefianceLines
  BY DEF DefianceLines, Range
<1>2. ASSUME NEW p \in DOMAIN Problems, NEW i \in DOMAIN Problems[p].hints
      PROVE  Problems[p].hints[i] \in HintLines
  BY DEF HintLines, Range
<1> QED
  BY <1>1, <1>2

LEMMA OrdinaryScores ==
  ASSUME NEW v, NEW c, NEW lost, Score(v, c, lost), NEW r, Ordinary(v, r)
  PROVE  Score(r.voice, Tally(c, r.line), lost)
<1>1. r.line \notin LadderLines
  BY LaddersAssumption DEF Ordinary, LadderLines
<1>2. Tally(c, r.line) = c
  BY <1>1 DEF Tally, Score
<1> QED
  BY <1>2 DEF Score, Ordinary, Unmoved

LEMMA HintScores ==
  ASSUME NEW v, NEW c, NEW lost, Score(v, c, lost), NEW r, Hinted(v, r)
  PROVE  Score(r.voice, Tally(c, r.line), lost)
<1> DEFINE d == Tally(c, r.line)
<1>1. PICK p \in DOMAIN Problems :
        /\ v.hintLevel[p] < Len(Problems[p].hints)
        /\ r.line = Problems[p].hints[v.hintLevel[p] + 1]
        /\ r.voice.hintLevel = [v.hintLevel EXCEPT ![p] = v.hintLevel[p] + 1]
  BY DEF Hinted
<1> DEFINE j == v.hintLevel[p] + 1
<1>2. v.hintLevel[p] \in Nat /\ j \in DOMAIN Problems[p].hints
  BY <1>1, ScriptAssumption DEF Score
<1>3. r.line \in HintLines
  BY <1>1, <1>2, LinesOfLadders
<1>4. d \in [LadderLines -> Nat] /\ \A l \in LadderLines : d[l] = c[l] + (IF l = r.line THEN 1 ELSE 0)
  BY DEF Tally, Score
<1> HIDE DEF d
<1>5. ASSUME NEW act \in DOMAIN Script, NEW n \in DOMAIN Script[act].defiance
      PROVE  d[Script[act].defiance[n]] = c[Script[act].defiance[n]]
  <2>1. Script[act].defiance[n] \in DefianceLines /\ Script[act].defiance[n] # r.line
    BY <1>3, LinesOfLadders, LaddersAssumption
  <2> QED
    BY <1>4, <2>1 DEF LadderLines, Score
<1>6. ASSUME NEW q \in DOMAIN Problems, NEW i \in DOMAIN Problems[q].hints
      PROVE  LET given == IF i <= r.voice.hintLevel[q] THEN 1 ELSE 0
                 times == d[Problems[q].hints[i]]
             IN  /\ given <= times /\ times <= given + lost
                 /\ i > 1 /\ times > 0 => d[Problems[q].hints[i - 1]] > 0
  <2>1. /\ Problems[q].hints[i] \in LadderLines /\ i \in Nat /\ v.hintLevel[q] \in Nat
        /\ c[Problems[q].hints[i]] \in Nat
    BY LinesOfLadders, ScriptAssumption DEF LadderLines, Score
  <2>2. Problems[q].hints[i] = r.line <=> q = p /\ i = j
    BY <1>1, <1>2, LaddersAssumption
  <2> DEFINE was == IF i <= v.hintLevel[q] THEN 1 ELSE 0
             times == c[Problems[q].hints[i]]
  <2>3. /\ was <= times /\ times <= was + lost
        /\ i > 1 /\ times > 0 => c[Problems[q].hints[i - 1]] > 0
    BY DEF Score
  <2>4. r.voice.hintLevel[q] = IF q = p THEN j ELSE v.hintLevel[q]
    BY <1>1 DEF Score
  <2>5. d[Problems[q].hints[i]] = times + (IF q = p /\ i = j THEN 1 ELSE 0)
    BY <1>4, <2>1, <2>2
  <2>6. ASSUME i > 1
        PROVE  /\ i - 1 \in DOMAIN Problems[q].hints
               /\ Problems[q].hints[i - 1] \in LadderLines
               /\ c[Problems[q].hints[i - 1]] \in Nat
               /\ d[Problems[q].hints[i - 1]] >= c[Problems[q].hints[i - 1]]
    <3>1. i - 1 \in DOMAIN Problems[q].hints
      BY <2>1, <2>6, ScriptAssumption
    <3>2. Problems[q].hints[i - 1] \in LadderLines /\ c[Problems[q].hints[i - 1]] \in Nat
      BY <3>1, LinesOfLadders DEF LadderLines, Score
    <3> QED
      BY <1>4, <3>1, <3>2
  <2>7. ASSUME i > 1, q = p, i = j
        PROVE  c[Problems[q].hints[i - 1]] > 0
    <3>1. i - 1 \in DOMAIN Problems[q].hints /\ i - 1 <= v.hintLevel[q]
      BY <1>2, <2>1, <2>6, <2>7
    <3>2. 1 <= c[Problems[q].hints[i - 1]]
      BY <3>1 DEF Score
    <3> QED
      BY <2>6, <2>7, <3>2
  <2>8. lost \in Nat
    BY DEF Score
  <2> HIDE DEF times
  <2>9. times \in Nat
    BY <2>1 DEF times
  <2>10. LET given == IF i <= r.voice.hintLevel[q] THEN 1 ELSE 0
         IN  given <= d[Problems[q].hints[i]] /\ d[Problems[q].hints[i]] <= given + lost
    BY <1>2, <2>1, <2>3, <2>4, <2>5, <2>8, <2>9
  <2>11. i > 1 /\ d[Problems[q].hints[i]] > 0 => d[Problems[q].hints[i - 1]] > 0
    BY <1>4, <2>3, <2>5, <2>6, <2>7, <2>9
  <2> QED
    BY <2>10, <2>11
<1>7. r.voice.hintLevel \in [DOMAIN Problems -> Nat]
  BY <1>1, <1>2 DEF Score
<1>8. DOMAIN r.voice = VoiceFields /\ r.voice.tiers = v.tiers /\ r.voice.defiance = v.defiance
  BY DEF Hinted
<1>9. Score(r.voice, d, lost)
  BY <1>4, <1>5, <1>6, <1>7, <1>8 DEF Score
<1> QED
  BY <1>9 DEF d

LEMMA EarnedIsLowest ==
  ASSUME NEW v, NEW tiers, DOMAIN tiers \subseteq Nat, NEW n \in EarnedTier(v, tiers)
  PROVE  /\ n \in DOMAIN tiers /\ n <= v.defiance /\ n \notin v.tiers
         /\ \A m \in DOMAIN tiers : m <= v.defiance /\ m \notin v.tiers => n <= m
<1> DEFINE earned == {m \in DOMAIN tiers : m <= v.defiance /\ m \notin v.tiers}
<1>1. earned \in SUBSET Nat /\ earned # {} /\ n = Min(earned)
  BY DEF EarnedTier
<1>2. n \in earned /\ \A m \in earned : n <= m
  <2> HIDE DEF earned
  <2> QED
    BY <1>1, SmallestNumber DEF Min
<1> QED
  BY <1>2

LEMMA ClimbScores ==
  ASSUME NEW v, NEW c, NEW lost, Score(v, c, lost), NEW r, Climbed(v, r)
  PROVE  Score(r.voice, Tally(c, r.line), lost)
<1> DEFINE d == Tally(c, r.line)
<1>1. PICK own \in DOMAIN Script : \E n \in EarnedTier(v, Script[own].defiance) :
        r.line = Script[own].defiance[n] /\ r.voice.tiers = v.tiers \cup {n}
  BY DEF Climbed
<1> DEFINE ladder == Script[own].defiance
<1>2. PICK k \in EarnedTier(v, ladder) : r.line = ladder[k] /\ r.voice.tiers = v.tiers \cup {k}
  BY <1>1
<1>3. /\ k \in DOMAIN ladder /\ k \in Nat /\ k <= v.defiance /\ k \notin v.tiers
      /\ \A m \in DOMAIN ladder : m <= v.defiance /\ m \notin v.tiers => k <= m
  <2>1. DOMAIN ladder \subseteq Nat
    BY ScriptAssumption
  <2> HIDE DEF ladder
  <2> QED
    BY <2>1, EarnedIsLowest
<1>4. r.line \in DefianceLines
  BY <1>2, <1>3, LinesOfLadders
<1>5. d \in [LadderLines -> Nat] /\ \A l \in LadderLines : d[l] = c[l] + (IF l = r.line THEN 1 ELSE 0)
  BY DEF Tally, Score
<1> HIDE DEF d
<1>6. ASSUME NEW p \in DOMAIN Problems, NEW i \in DOMAIN Problems[p].hints
      PROVE  d[Problems[p].hints[i]] = c[Problems[p].hints[i]]
  <2>1. Problems[p].hints[i] \in HintLines /\ Problems[p].hints[i] # r.line
    BY <1>4, LinesOfLadders, LaddersAssumption
  <2> QED
    BY <1>5, <2>1 DEF LadderLines, Score
<1>7. ASSUME NEW act \in DOMAIN Script, NEW n \in DOMAIN Script[act].defiance
      PROVE  /\ d[Script[act].defiance[n]] = IF n \in r.voice.tiers THEN 1 ELSE 0
             /\ n \in r.voice.tiers =>
                  /\ n <= v.defiance
                  /\ \A m \in DOMAIN Script[act].defiance : m < n => m \in r.voice.tiers
  <2>1. Script[act].defiance[n] \in LadderLines
    BY LinesOfLadders DEF LadderLines
  <2>2. /\ Script[act].defiance[n] = r.line <=> n = k
        /\ n = k => act = own
    BY <1>2, <1>3, LaddersAssumption
  <2>3. /\ c[Script[act].defiance[n]] = IF n \in v.tiers THEN 1 ELSE 0
        /\ n \in v.tiers =>
             n <= v.defiance /\ \A m \in DOMAIN Script[act].defiance : m < n => m \in v.tiers
    BY DEF Score
  <2>4. d[Script[act].defiance[n]] = IF n \in r.voice.tiers THEN 1 ELSE 0
    BY <1>2, <1>3, <1>5, <2>1, <2>2, <2>3
  <2>5. ASSUME n = k, NEW m \in DOMAIN ladder, m < n
        PROVE  m \in v.tiers
    <3>1. m \in Nat /\ v.defiance \in Nat
      BY ScriptAssumption DEF Score
    <3>2. m <= v.defiance /\ ~ (k <= m)
      BY <1>3, <2>5, <3>1
    <3> QED
      BY <1>3, <3>2
  <2> QED
    BY <1>2, <1>3, <2>2, <2>3, <2>4, <2>5
<1>8. /\ DOMAIN r.voice = VoiceFields /\ r.voice.defiance = v.defiance
      /\ r.voice.hintLevel = v.hintLevel
  BY DEF Climbed
<1>9. ASSUME NEW p \in DOMAIN Problems, NEW i \in DOMAIN Problems[p].hints
      PROVE  LET given == IF i <= r.voice.hintLevel[p] THEN 1 ELSE 0
                 times == d[Problems[p].hints[i]]
             IN  /\ given <= times /\ times <= given + lost
                 /\ i > 1 /\ times > 0 => d[Problems[p].hints[i - 1]] > 0
  <2>1. i > 1 => i - 1 \in DOMAIN Problems[p].hints
    BY ScriptAssumption
  <2>2. i > 1 => d[Problems[p].hints[i - 1]] = c[Problems[p].hints[i - 1]]
    BY <1>6, <2>1
  <2> QED
    BY <1>6, <1>8, <2>2 DEF Score
<1>10. Score(r.voice, d, lost)
  BY <1>5, <1>7, <1>8, <1>9 DEF Score
<1> QED
  BY <1>10 DEF d

LEMMA StepScores ==
  ASSUME NEW v, NEW c, NEW lost, Score(v, c, lost), NEW r, Rises(v, {r})
  PROVE  Score(r.voice, Tally(c, r.line), lost)
BY OrdinaryScores, HintScores, ClimbScores DEF Rises

\* A defiance that is counted earns no less.
LEMMA DefiedScores ==
  ASSUME NEW v, NEW c, NEW lost, Score(v, c, lost)
  PROVE  Score([v EXCEPT !.defiance = @ + 1], c, lost)
<1> DEFINE w == [v EXCEPT !.defiance = @ + 1]
<1>1. /\ DOMAIN w = VoiceFields /\ w.defiance = v.defiance + 1 /\ v.defiance \in Nat
      /\ w.tiers = v.tiers /\ w.hintLevel = v.hintLevel
  BY DEF Score, VoiceFields
<1> HIDE DEF w
<1>2. \A act \in DOMAIN Script : \A n \in DOMAIN Script[act].defiance :
        n \in v.tiers => n <= w.defiance
  BY <1>1, ScriptAssumption DEF Score
<1>3. Score(w, c, lost)
  BY <1>1, <1>2 DEF Score
<1> QED
  BY <1>3 DEF w

LEMMA NoneOnLadders == None \notin LadderLines
BY OthersAreOther, LaddersAssumption DEF LadderLines

LEMMA HearOne ==
  ASSUME NEW x, Hear(<<x>>)
  PROVE  heard' = Tally(heard, x)
<1>1. ASSUME NEW l
      PROVE  Cardinality({i \in DOMAIN <<x>> : <<x>>[i] = l}) = IF l = x THEN 1 ELSE 0
  <2> DEFINE times == {i \in DOMAIN <<x>> : <<x>>[i] = l}
  <2>1. times = IF l = x THEN {1} ELSE {}
    OBVIOUS
  <2> HIDE DEF times
  <2>2. Cardinality(times) = IF l = x THEN 1 ELSE 0
    BY <2>1, FS_EmptySet, FS_Singleton
  <2> QED
    BY <2>2 DEF times
<1> QED
  BY <1>1 DEF Hear, Tally

LEMMA PairCount == \A a, b : a # b => Cardinality({a, b}) = 2
<1> SUFFICES ASSUME NEW a, NEW b, a # b PROVE Cardinality({a, b}) = 2
  OBVIOUS
<1>1. IsFiniteSet({a}) /\ Cardinality({a}) = 1 /\ b \notin {a}
  BY FS_Singleton
<1>2. Cardinality({a} \cup {b}) = 2
  BY <1>1, FS_AddElement
<1>3. {a, b} = {a} \cup {b}
  OBVIOUS
<1> QED
  BY <1>2, <1>3, Zenon

LEMMA HearTwo ==
  ASSUME heard \in [LadderLines -> Nat], NEW x, NEW y, Hear(<<x, y>>)
  PROVE  heard' = Tally(Tally(heard, x), y)
<1>1. ASSUME NEW l
      PROVE  Cardinality({i \in DOMAIN <<x, y>> : <<x, y>>[i] = l})
               = (IF l = x THEN 1 ELSE 0) + (IF l = y THEN 1 ELSE 0)
  <2> DEFINE times == {i \in DOMAIN <<x, y>> : <<x, y>>[i] = l}
  <2>1. times = (IF l = x THEN {1} ELSE {}) \cup (IF l = y THEN {2} ELSE {})
    OBVIOUS
  <2> HIDE DEF times
  <2>2. CASE l = x /\ l = y
    <3>1. times = {1, 2}
      BY <2>1, <2>2
    <3>2. Cardinality({1, 2}) = 2
      BY PairCount, 1 # 2
    <3> QED
      BY <2>2, <3>1, <3>2 DEF times
  <2>3. CASE l = x /\ l # y
    <3>1. times = {1} /\ Cardinality({1}) = 1
      BY <2>1, <2>3, FS_Singleton
    <3> QED
      BY <2>3, <3>1 DEF times
  <2>4. CASE l # x /\ l = y
    <3>1. times = {2} /\ \A i : Cardinality({i}) = 1
      BY <2>1, <2>4, FS_Singleton
    <3>2. Cardinality(times) = 1
      BY <3>1
    <3> QED
      BY <2>4, <3>2 DEF times
  <2>5. CASE l # x /\ l # y
    <3>1. times = {} /\ Cardinality({}) = 0
      BY <2>1, <2>5, FS_EmptySet
    <3> QED
      BY <2>5, <3>1 DEF times
  <2> QED
    BY <2>2, <2>3, <2>4, <2>5
<1>2. ASSUME NEW l \in LadderLines
      PROVE  heard'[l] = heard[l] + (IF l = x THEN 1 ELSE 0) + (IF l = y THEN 1 ELSE 0)
  <2>1. heard'[l] = heard[l] + Cardinality({i \in DOMAIN <<x, y>> : <<x, y>>[i] = l})
    BY DEF Hear
  <2>2. heard[l] \in Nat
    OBVIOUS
  <2>3. heard'[l] = heard[l] + ((IF l = x THEN 1 ELSE 0) + (IF l = y THEN 1 ELSE 0))
    BY <1>1, <2>1
  <2> QED
    BY <2>2, <2>3
<1>3. heard' = [l \in LadderLines |-> heard'[l]]
  BY DEF Hear
<1> QED
  BY <1>2, <1>3 DEF Tally

\* A turn tells of discoveries and threats of the book, and stays in the book.
LEMMA TurnIsTold ==
  ASSUME Inv(life), life.ended = None, NEW a \in life.discovered, NEW b \in life.discovered,
         NEW t \in TurnsOf(a, b) \cup CombineTurns(a, b)
  PROVE  Tellable(t.outcome) /\ Announced(t.event) /\ Inv(t.game) /\ InBook(t.game)
<1>1. PICK r : Adds(Paid(life), r.game) /\ Tellable(r.outcome) /\ t \in Turns(r)
  BY AttemptParts
<1>2. PICK tick \in Ticks(r.game, r.outcome) : t.outcome = r.outcome /\ t.event = tick.event
  BY <1>1 DEF Turns
<1>3. Announced(tick.event)
  <2>1. DOMAIN r.game = Fields /\ Threatened(r.game)
    <3>1. Paid(life).active = life.active
      BY DEF Inv, Lawful, Fields, Paid
    <3> QED
      BY <1>1, <3>1 DEF Adds, Inv, Threatened
  <2> QED
    BY <2>1, TickEffect
<1>4. Inv(t.game)
  BY AttemptEffect, TurnKeepsInv
<1>5. InBook(t.game)
  BY <1>4, ActInBook DEF Inv, Lawful, InBook
<1> QED
  BY <1>1, <1>2, <1>3, <1>4, <1>5

\* The narrator that is saved remembers the defiance of the one who speaks, and no
\* hint that the other does not; all of his hints where every turn is saved.
Behind(v, w, all) ==
  /\ DOMAIN v = VoiceFields /\ v.tiers = w.tiers /\ v.defiance = w.defiance
  /\ v.hintLevel \in [DOMAIN Problems -> Nat]
  /\ \A p \in DOMAIN Problems : v.hintLevel[p] <= w.hintLevel[p]
  /\ all => v.hintLevel = w.hintLevel

Backed(s, w, all) == s = None \/ (Inv(s.life) /\ Behind(s.voice, w, all))

Ladders ==
  /\ Inv(life)
  /\ Score(voice, heard, undone)
  /\ Backed(saved, voice, inventing)
  /\ inventing => undone = 0

LEMMA BehindItself ==
  ASSUME NEW w, NEW c, NEW lost, Score(w, c, lost), NEW all
  PROVE  Behind(w, w, all)
<1>1. /\ DOMAIN w = VoiceFields /\ w.hintLevel \in [DOMAIN Problems -> Nat]
      /\ \A p \in DOMAIN Problems : w.hintLevel[p] \in Nat
  BY DEF Score
<1> QED
  BY <1>1 DEF Behind

\* A step that is not one of defiance leaves the saved narrator behind.
LEMMA BehindSteps ==
  ASSUME NEW v, NEW w, Behind(v, w, FALSE), NEW c, NEW lost, Score(w, c, lost),
         NEW r, Steps(w, {r})
  PROVE  Behind(v, r.voice, FALSE)
<1>1. Ordinary(w, r) \/ Hinted(w, r)
  BY DEF Steps
<1>2. r.voice.tiers = w.tiers /\ r.voice.defiance = w.defiance
  BY <1>1 DEF Ordinary, Unmoved, Hinted
<1>3. ASSUME NEW p \in DOMAIN Problems
      PROVE  v.hintLevel[p] <= r.voice.hintLevel[p]
  <2>1. v.hintLevel[p] \in Nat /\ w.hintLevel[p] \in Nat /\ v.hintLevel[p] <= w.hintLevel[p]
    BY DEF Behind, Score
  <2>2. r.voice.hintLevel[p] = w.hintLevel[p] \/ r.voice.hintLevel[p] = w.hintLevel[p] + 1
    <3>1. CASE Ordinary(w, r)
      BY <3>1 DEF Ordinary, Unmoved
    <3>2. CASE Hinted(w, r)
      <4>1. PICK q \in DOMAIN Problems :
              r.voice.hintLevel = [w.hintLevel EXCEPT ![q] = w.hintLevel[q] + 1]
        BY <3>2 DEF Hinted
      <4> QED
        BY <4>1 DEF Score
    <3> QED
      BY <1>1, <3>1, <3>2
  <2> QED
    BY <2>1, <2>2
<1> QED
  BY <1>2, <1>3 DEF Behind

\* The line after a turn that gave nothing is none.
LEMMA NothingFollows ==
  ASSUME NEW r, NEW g, NEW o, NEW f \in FollowUp(r, g, o),
         o.kind \notin {"discovery", "improvised", "reused"}
  PROVE  f.voice = r.voice
BY DEF FollowUp, Said

LEMMA AttemptScores ==
  ASSUME Ladders, Attempt
  PROVE  Ladders'
<1>1. PICK pair, pace, arrived, a, b :
        /\ TurnAllowed(a, b)
        /\ \E t \in Played(a, b) :
             \E r \in React(voice, life, t, pair, pace, arrived) :
               \E f \in FollowUp(r, t.game, t.outcome) : Narrated(t, r, f)
  BY DEF Attempt
<1>2. PICK t \in Played(a, b) :
        \E r \in React(voice, life, t, pair, pace, arrived) :
          \E f \in FollowUp(r, t.game, t.outcome) : Narrated(t, r, f)
  BY <1>1
<1>3. PICK r \in React(voice, life, t, pair, pace, arrived) :
        \E f \in FollowUp(r, t.game, t.outcome) : Narrated(t, r, f)
  BY <1>2
<1>4. PICK f \in FollowUp(r, t.game, t.outcome) : Narrated(t, r, f)
  BY <1>3
<1>5. Tellable(t.outcome) /\ Announced(t.event) /\ Inv(t.game) /\ InBook(t.game)
  <2>1. t \in TurnsOf(a, b) \cup CombineTurns(a, b)
    BY DEF Played
  <2> QED
    BY <1>1, <2>1, TurnIsTold DEF TurnAllowed, Ladders
<1>6. InBook(life)
  BY ActInBook DEF Ladders, Inv, Lawful, InBook
<1>7. Steps(voice, {r})
  <2>1. Steps(voice, React(voice, life, t, pair, pace, arrived))
    BY <1>5, <1>6, ReactSteps DEF Ladders, Score
  <2> QED
    BY <2>1 DEF Steps
<1>8. Score(r.voice, Tally(heard, r.line), undone)
  BY <1>7, StepsRise, StepScores DEF Ladders
<1>9. Score(f.voice, Tally(Tally(heard, r.line), f.line), undone)
  <2>1. DOMAIN r.voice = VoiceFields
    BY <1>8 DEF Score
  <2>2. PICK u : /\ u = r.voice \/ u = [r.voice EXCEPT !.defiance = @ + 1]
                 /\ Rises(u, {f})
    BY <1>5, <2>1, FollowUpSteps
  <2>3. Score(u, Tally(heard, r.line), undone)
    BY <1>8, <2>2, DefiedScores
  <2> QED
    BY <2>2, <2>3, StepScores
<1>10. heard' = Tally(Tally(heard, r.line), f.line)
  BY <1>4, HearTwo DEF Ladders, Score, Narrated
<1>11. Backed(saved', voice', inventing')
  <2>1. CASE Kept(t)
    <3>1. saved'.life = t.game /\ saved'.voice = f.voice /\ voice' = f.voice
      BY <1>4, <2>1 DEF Narrated
    <3>2. Behind(f.voice, f.voice, inventing')
      BY <1>9, BehindItself
    <3> QED
      BY <1>5, <3>1, <3>2 DEF Backed
  <2>2. CASE ~ Kept(t)
    <3>1. saved' = saved /\ inventing' = inventing /\ ~ inventing
      BY <1>4, <2>2 DEF Narrated, Kept
    <3>2. voice' = r.voice
      BY <1>4, <2>2, NothingFollows DEF Narrated, Kept
    <3>3. CASE saved = None
      BY <3>1, <3>3 DEF Backed
    <3>4. CASE saved # None
      <4>1. Inv(saved.life) /\ Behind(saved.voice, voice, FALSE)
        BY <3>4 DEF Ladders, Backed, Behind
      <4>2. Behind(saved.voice, r.voice, FALSE)
        BY <1>7, <4>1, BehindSteps DEF Ladders
      <4>3. Behind(saved.voice, r.voice, inventing)
        BY <3>1, <4>2 DEF Behind
      <4> QED
        BY <3>1, <3>2, <4>1, <4>3 DEF Backed
    <3> QED
      BY <3>3, <3>4
  <2> QED
    BY <2>1, <2>2
<1>12. /\ Inv(life') /\ Score(voice', heard', undone') /\ Backed(saved', voice', inventing')
       /\ inventing' => undone' = 0
  BY <1>4, <1>5, <1>9, <1>10, <1>11 DEF Ladders, Narrated
<1> QED
  BY <1>12 DEF Ladders

\* What is said at a start or of a new age asks nothing of the ladders.
LEMMA WordIsOrdinary ==
  ASSUME NEW v, NEW w, Unmoved(v, w), NEW line \in OtherLines
  PROVE  Unmoved(v, Word(w, line))
BY SpokenUnmoved DEF Word

LEMMA OpeningIsOrdinary ==
  ASSUME NEW v, NEW w, Unmoved(v, w), InBook(life)
  PROVE  Ordinary(v, OpeningPull(w))
<1> DEFINE next == CurrentPull(life)
           u == [w EXCEPT !.pulled = next, !.lastPull = w.attempts]
           line == Problems[next].pull
<1>1. Unmoved(v, u)
  BY DEF Unmoved, VoiceFields
<1>2. next # None => line \in OtherLines
  BY ForemostUnsolvedIsWanted, PullsAreOther DEF CurrentPull, InBook
<1>3. Unmoved(v, Spoken(u, line))
  BY <1>1, SpokenUnmoved
<1>4. \/ OpeningPull(w) = Said(w, None)
      \/ next # None /\ OpeningPull(w) = Said(Spoken(u, line), line)
  BY DEF OpeningPull
<1> HIDE DEF u, line, next
<1> QED
  BY <1>2, <1>3, <1>4, OthersAreOther DEF Ordinary, Said

LEMMA OpenedScores ==
  ASSUME Ladders, NEW kind, Opened(kind)
  PROVE  Ladders'
<1> DEFINE first == IF kind = "resume" THEN Script[life.act].resumeLine ELSE Acts[life.act].introLine
           welcome == [voice |-> Word(voice, first), line |-> first]
           pull == OpeningPull(Word(voice, first))
<1>1. /\ voice' = pull.voice /\ Hear(<<first, pull.line>>)
      /\ saved' = [life |-> life, voice |-> pull.voice]
      /\ life' = life /\ inventing' = inventing /\ undone' = undone
  BY DEF Opened
<1>2. InBook(life) /\ first \in OtherLines
  <2>1. InBook(life)
    BY ActInBook DEF Ladders, Inv, Lawful, InBook
  <2> QED
    BY <2>1, ActsAssumption, ScriptsAreOther DEF InBook
<1> HIDE DEF first
<1>3. Unmoved(voice, voice) /\ Unmoved(voice, Word(voice, first))
  BY <1>2, WordIsOrdinary DEF Unmoved, Ladders, Score
<1>4. Ordinary(voice, welcome)
  BY <1>2, <1>3 DEF Ordinary
<1>5. Score(Word(voice, first), Tally(heard, first), undone)
  BY <1>4, OrdinaryScores DEF Ladders
<1>6. Ordinary(Word(voice, first), pull)
  <2>1. Unmoved(Word(voice, first), Word(voice, first))
    BY <1>3 DEF Unmoved
  <2> QED
    BY <1>2, <2>1, OpeningIsOrdinary
<1> HIDE DEF pull
<1>7. Score(pull.voice, Tally(Tally(heard, first), pull.line), undone)
  BY <1>5, <1>6, OrdinaryScores
<1>8. heard' = Tally(Tally(heard, first), pull.line)
  BY <1>1, HearTwo DEF Ladders, Score
<1>9. Backed(saved', voice', inventing')
  <2>1. saved'.life = life /\ saved'.voice = pull.voice /\ voice' = pull.voice
    BY <1>1
  <2>2. Behind(pull.voice, pull.voice, inventing')
    BY <1>7, BehindItself
  <2> QED
    BY <2>1, <2>2 DEF Backed, Ladders
<1>10. /\ Inv(life') /\ Score(voice', heard', undone') /\ Backed(saved', voice', inventing')
       /\ inventing' => undone' = 0
  BY <1>1, <1>7, <1>8, <1>9 DEF Ladders
<1> QED
  BY <1>10 DEF Ladders

LEMMA BannerScores ==
  ASSUME Ladders, Banner
  PROVE  Ladders'
<1> DEFINE intro == Acts[life.act].introLine
           said == [voice |-> Word(voice, intro), line |-> intro]
<1>1. /\ voice' = said.voice /\ Hear(<<said.line>>) /\ life' = life
      /\ saved' = saved /\ inventing' = inventing /\ undone' = undone
  BY DEF Banner
<1>2. intro \in OtherLines
  <2>1. InBook(life)
    BY ActInBook DEF Ladders, Inv, Lawful, InBook
  <2> QED
    BY <2>1, ActsAssumption, ScriptsAreOther DEF InBook
<1>3. Ordinary(voice, said)
  <2>1. Unmoved(voice, voice)
    BY DEF Unmoved, Ladders, Score
  <2> QED
    BY <1>2, <2>1, WordIsOrdinary DEF Ordinary
<1> HIDE DEF said
<1>4. Score(said.voice, Tally(heard, said.line), undone)
  BY <1>3, OrdinaryScores DEF Ladders
<1>5. heard' = Tally(heard, said.line)
  BY <1>1, HearOne
<1>6. Backed(saved', voice', inventing')
  <2>1. Unmoved(voice, voice')
    BY <1>1, <1>3 DEF Ordinary
  <2> QED
    BY <1>1, <2>1 DEF Ladders, Backed, Behind, Unmoved
<1>7. /\ Inv(life') /\ Score(voice', heard', undone') /\ Backed(saved', voice', inventing')
      /\ inventing' => undone' = 0
  BY <1>1, <1>4, <1>5, <1>6 DEF Ladders
<1> QED
  BY <1>7 DEF Ladders

\* A reload resumes the narrator that was saved: what he does not remember of the
\* hints was taken back.
LEMMA ReloadScores ==
  ASSUME Ladders, Reload
  PROVE  Ladders'
<1> DEFINE back == Resumed.voice
<1>1. Inv(Resumed.life) /\ Behind(back, voice, inventing)
  <2>1. CASE saved = None
    <3>1. Resumed.life = life /\ Resumed.voice = voice
      BY <2>1 DEF Resumed
    <3>2. Behind(voice, voice, inventing)
      BY BehindItself DEF Ladders
    <3> QED
      BY <3>1, <3>2 DEF Ladders
  <2>2. CASE saved # None
    BY <2>2 DEF Resumed, Ladders, Backed
  <2> QED
    BY <2>1, <2>2
<1>2. /\ life' = Loaded(Resumed.life) /\ voice' = back
      /\ undone' = undone + (IF back.hintLevel = voice.hintLevel THEN 0 ELSE 1)
      /\ heard' = heard /\ saved' = saved /\ inventing' = inventing
  BY DEF Reload
<1>3. Inv(life')
  BY <1>1, <1>2, LoadKeepsInv
<1> HIDE DEF back
<1>4. Score(back, heard, undone')
  <2>1. undone \in Nat /\ undone' \in Nat /\ undone <= undone'
        /\ (back.hintLevel # voice.hintLevel => undone' = undone + 1)
    BY <1>2 DEF Ladders, Score
  <2>2. ASSUME NEW p \in DOMAIN Problems, NEW i \in DOMAIN Problems[p].hints
        PROVE  LET given == IF i <= back.hintLevel[p] THEN 1 ELSE 0
                   times == heard[Problems[p].hints[i]]
               IN  /\ given <= times /\ times <= given + undone'
                   /\ i > 1 /\ times > 0 => heard[Problems[p].hints[i - 1]] > 0
    <3> DEFINE was == IF i <= voice.hintLevel[p] THEN 1 ELSE 0
               times == heard[Problems[p].hints[i]]
    <3>1. /\ was <= times /\ times <= was + undone
          /\ i > 1 /\ times > 0 => heard[Problems[p].hints[i - 1]] > 0
      BY DEF Ladders, Score
    <3>2. /\ i \in Nat /\ back.hintLevel[p] \in Nat /\ voice.hintLevel[p] \in Nat
          /\ back.hintLevel[p] <= voice.hintLevel[p]
      BY <1>1, ScriptAssumption DEF Ladders, Score, Behind
    <3>3. times \in Nat
      BY LinesOfLadders DEF Ladders, Score, LadderLines
    <3>4. back.hintLevel[p] # voice.hintLevel[p] => undone' = undone + 1
      BY <2>1
    <3> HIDE DEF times
    <3> QED
      BY <2>1, <3>1, <3>2, <3>3, <3>4 DEF times
  <2>3. /\ DOMAIN back = VoiceFields /\ back.tiers = voice.tiers /\ back.defiance = voice.defiance
        /\ back.hintLevel \in [DOMAIN Problems -> Nat]
    BY <1>1 DEF Behind
  <2> QED
    BY <2>1, <2>2, <2>3 DEF Ladders, Score
<1>5. Backed(saved', back, inventing')
  <2>1. CASE saved = None
    BY <1>2, <2>1 DEF Backed
  <2>2. CASE saved # None
    <3>1. back = saved.voice /\ Inv(saved.life)
      BY <1>1, <2>2 DEF Resumed, back
    <3>2. Behind(back, back, inventing')
      BY <1>4, BehindItself
    <3> QED
      BY <1>2, <3>1, <3>2 DEF Backed
  <2> QED
    BY <2>1, <2>2
<1>6. inventing' => undone' = 0
  <2>1. inventing => back.hintLevel = voice.hintLevel
    BY <1>1 DEF Behind
  <2> QED
    BY <1>2, <2>1 DEF Ladders
<1> QED
  BY <1>2, <1>3, <1>4, <1>5, <1>6 DEF Ladders

LEMMA LaddersInitially == VoiceInit => Ladders
<1> SUFFICES ASSUME VoiceInit PROVE Ladders
  OBVIOUS
<1>1. /\ life = NewLife /\ voice = FreshVoice /\ heard = [l \in LadderLines |-> 0]
      /\ saved = None /\ undone = 0
  BY DEF VoiceInit, Init
<1>2. Inv(life)
  BY <1>1, InvInitially
<1>3. /\ DOMAIN voice = VoiceFields /\ voice.defiance = 0 /\ voice.tiers = {}
      /\ voice.hintLevel = [p \in DOMAIN Problems |-> 0]
  BY <1>1 DEF FreshVoice, VoiceFields
<1>4. \A act \in DOMAIN Script : \A n \in DOMAIN Script[act].defiance :
        heard[Script[act].defiance[n]] = 0
  BY <1>1, LinesOfLadders DEF LadderLines
<1>5. \A p \in DOMAIN Problems : \A i \in DOMAIN Problems[p].hints :
        heard[Problems[p].hints[i]] = 0 /\ ~ (i <= 0)
  BY <1>1, LinesOfLadders, ScriptAssumption DEF LadderLines
<1>6. heard \in [LadderLines -> Nat]
  BY <1>1
<1>7. Score(voice, heard, undone)
  BY <1>1, <1>3, <1>4, <1>5, <1>6 DEF Score
<1> QED
  BY <1>1, <1>2, <1>7 DEF Ladders, Backed

LEMMA VoiceNextKeepsLadders ==
  ASSUME Ladders, [VoiceNext]_told
  PROVE  Ladders'
<1>1. CASE Attempt
  BY <1>1, AttemptScores
<1>2. CASE \E kind \in {"intro", "resume"} : Opened(kind)
  BY <1>2, OpenedScores
<1>3. CASE Banner
  BY <1>3, BannerScores
<1>4. CASE Reload
  BY <1>4, ReloadScores
<1>5. CASE UNCHANGED told
  BY <1>5 DEF told, Ladders
<1> QED
  BY <1>1, <1>2, <1>3, <1>4, <1>5 DEF VoiceNext

\* The life that is told of is a life of the engine, and what was said of both
\* ladders is what the narrator remembers, and what reloads took back.
THEOREM LaddersHold == VoiceSpec => []Ladders
<1>1. VoiceInit => Ladders
  BY LaddersInitially
<1>2. Ladders /\ [VoiceNext]_told => Ladders'
  BY VoiceNextKeepsLadders
<1> QED
  BY <1>1, <1>2, PTL DEF VoiceSpec

\* defianceTierLine() skips no step and repeats none, whatever a cooldown, a comic
\* line, a new age or a reload has swallowed in between.
THEOREM LadderFromBelow == VoiceSpec => []DefianceFromBelow
<1>1. Ladders => DefianceFromBelow
  <2> SUFFICES ASSUME Ladders, NEW act \in DOMAIN Script, NEW n \in DOMAIN Script[act].defiance
               PROVE  /\ heard[Script[act].defiance[n]] <= 1
                      /\ heard[Script[act].defiance[n]] = 1 =>
                           /\ n <= voice.defiance
                           /\ \A m \in DOMAIN Script[act].defiance :
                                m < n => heard[Script[act].defiance[m]] = 1
    BY DEF DefianceFromBelow
  <2>1. \A m \in DOMAIN Script[act].defiance :
          heard[Script[act].defiance[m]] = IF m \in voice.tiers THEN 1 ELSE 0
    BY DEF Ladders, Score
  <2>2. n \in voice.tiers =>
          n <= voice.defiance /\ \A m \in DOMAIN Script[act].defiance : m < n => m \in voice.tiers
    BY DEF Ladders, Score
  <2> QED
    BY <2>1, <2>2
<1> QED
  BY <1>1, LaddersHold, PTL

\* hintLine() gives the hints for a problem one after the other and leaves none
\* out; with inventions it gives none twice, and without them only where a reload
\* took back the turn that had given it.
THEOREM HintsInOrder == VoiceSpec => []HintsClimb
<1>1. Ladders => HintsClimb
  <2> SUFFICES ASSUME Ladders, NEW p \in DOMAIN Problems, NEW i \in DOMAIN Problems[p].hints
               PROVE  /\ heard[Problems[p].hints[i]] <= 1 + (IF inventing THEN 0 ELSE undone)
                      /\ i > 1 /\ heard[Problems[p].hints[i]] > 0
                           => heard[Problems[p].hints[i - 1]] > 0
    BY DEF HintsClimb
  <2> DEFINE given == IF i <= voice.hintLevel[p] THEN 1 ELSE 0
             times == heard[Problems[p].hints[i]]
  <2>1. /\ times <= given + undone /\ undone \in Nat
        /\ i > 1 /\ times > 0 => heard[Problems[p].hints[i - 1]] > 0
    BY DEF Ladders, Score
  <2>2. times \in Nat
    BY LinesOfLadders DEF Ladders, Score, LadderLines
  <2>3. given \in {0, 1}
    OBVIOUS
  <2>4. inventing => undone = 0
    BY DEF Ladders
  <2> HIDE DEF given, times
  <2>5. times <= 1 + (IF inventing THEN 0 ELSE undone)
    BY <2>1, <2>2, <2>3, <2>4
  <2> QED
    BY <2>1, <2>5 DEF times
<1> QED
  BY <1>1, LaddersHold, PTL

=============================================================================
