------------------------------- MODULE Engine -------------------------------
(***************************************************************************)
(* The combination engine of core/engine.ts: one life of Karl.  A player's *)
(* attempt on two discovered elements is one step, whatever it calls: the  *)
(* recipe or the improvisation, the challenge clock, the endings and the   *)
(* authored branches.  The game state is one record, as in the code, and   *)
(* the methods are functions of it.                                        *)
(*                                                                         *)
(* The hash of seed and page that spawns challenges is any choice; so is   *)
(* the element that answers a challenge when several could.                *)
(***************************************************************************)
EXTENDS Taxonomy, FiniteSetsExt, SequencesExt

CONSTANTS
  Canon,            \* canonical elements: id -> element
  Recipes,          \* combos.json, in order
  Acts,             \* act -> [problems : Seq(need)]
  Required,         \* problems without which no age ends
  Predicates,       \* predicates.json: need -> predicate
  Challenges,       \* challenges.json: need -> challenge
  Rules,            \* invention-consequences.json
  Branches,         \* branches.json: id -> alternatives, each a set of facts
  Opening,          \* the life plan: startingElementIds,
  Sidequests,       \*   sidequestIds
  Threats,          \*   challengeIds
  TurnLimit,        \* config.json: turnLimit
  EndingsUnlockAt,  \* config.json: endingsUnlockAt
  OldAge,           \* the automatic ending
  RunCap,           \* IMPROVISE_RUN_CAP
  Kinds,            \* the kinds of attempt a behaviour uses, and "copy"
  None

VARIABLES
  life,
  copies    \* the written texts of the open page: those asked for since it was
            \* loaded, and the inventions whose text may still come late

ASSUME ContentAssumption ==
  /\ TurnLimit \in Nat \ {0} /\ RunCap \in Nat /\ EndingsUnlockAt \in Nat
  /\ Opening \subseteq DOMAIN Canon
  /\ Threats \subseteq DOMAIN Challenges
  /\ None \notin DOMAIN Canon \cup DOMAIN Challenges
  /\ \A c \in DOMAIN Challenges : Challenges[c].turns \in Nat \ {0}

\* What tools/validate.py says of elements.json and combos.json: an element goes
\* by its id, and a recipe makes a canonical one at the price of some summers.
ASSUME RecipesAssumption ==
  /\ \A id \in DOMAIN Canon : Canon[id].id = id /\ Canon[id].origin = "canon"
  /\ IsFiniteSet(DOMAIN Canon)
  /\ Len(Recipes) \in Nat /\ DOMAIN Recipes = 1 .. Len(Recipes)
  /\ \A i \in DOMAIN Recipes :
       Recipes[i].result \in DOMAIN Canon /\ Recipes[i].cost \in 1 .. TurnLimit

\* What makes Karl older.
AgeUps == {Recipes[i].result : i \in {j \in DOMAIN Recipes : Recipes[j].ageUp}}

\* There is an act for every age to be reached.
ASSUME ActsAssumption ==
  \A n \in 1 .. 1 + Cardinality(AgeUps) :
    /\ n \in DOMAIN Acts
    /\ Len(Acts[n].problems) \in Nat
    /\ DOMAIN Acts[n].problems = 1 .. Len(Acts[n].problems)
    /\ None \notin Range(Acts[n].problems)

\* freshState()
NewLife ==
  [act |-> 1, discovered |-> Opening, flags |-> {}, solvedProblems |-> {},
   attempts |-> 0, ended |-> None, active |-> None, turnsLeft |-> 0,
   seen |-> [c \in {} |-> 0], completedBranches |-> {}, solvedChallenges |-> {},
   failedChallenges |-> {}, improvised |-> [e \in {} |-> 0], credited |-> {}]

\* Map.set()
Put(f, x, y) == [z \in DOMAIN f \cup {x} |-> IF z = x THEN y ELSE f[z]]

Element(g, id) == IF id \in DOMAIN Canon THEN Canon[id] ELSE g.improvised[id]

Available(g) == {Element(g, id) : id \in g.discovered}

ProblemsOf(g) == Acts[g.act].problems

Solves(e, need) == need \in DOMAIN Predicates /\ Satisfies(e, Predicates[need])

\* resolves() of challenge.ts
Answers(e, challenge) ==
  Solves(e, challenge) \/ e.id \in Challenges[challenge].alsoSolvedBy

\* The first unsolved problem of the act that the element meets, None if none.
ProblemMet(g, e) ==
  LET problems == ProblemsOf(g)
      met == {i \in DOMAIN problems :
                problems[i] \notin g.solvedProblems /\ Solves(e, problems[i])}
  IN  IF met = {} THEN None ELSE problems[Min(met)]

\* Base elements count for nothing, and an improvised one only once it has
\* met a need.
\* Mutant: every invention counts.
InventionsByVolume(g) ==
  Cardinality({id \in g.discovered : id \in DOMAIN Canon => ~ Canon[id].base})

Inventions(g) ==
  Cardinality({id \in g.discovered \cap DOMAIN Canon : ~ Canon[id].base})
    + Cardinality(g.credited \cap g.discovered)

EndingsUnlocked(g) == Inventions(g) >= EndingsUnlockAt

-----------------------------------------------------------------------------
(* Recipes and the verdict on a pair. *)

RecipesFor(a, b) == {i \in DOMAIN Recipes : Recipes[i].pair = {a, b}}

Open(g, r) == r.requires \subseteq g.flags /\ r.blockedBy \cap g.flags = {}

\* matchCombo(): of the open recipes the one with most flags, the first of equals.
Matching(g, a, b) ==
  LET open == {i \in RecipesFor(a, b) : Open(g, Recipes[i])}
      demands(i) == Cardinality(Recipes[i].requires)
      most == {i \in open : \A j \in open : demands(i) >= demands(j)}
  IN  IF most = {} THEN None ELSE Recipes[Min(most)]

\* findNearMiss(): one goes with a thing at hand that the other resembles.
NearMiss(g, one, other) ==
  \E i \in DOMAIN Recipes :
    /\ one.id \in Recipes[i].pair
    /\ LET partner == IF Cardinality(Recipes[i].pair) = 1
                        THEN one.id
                        ELSE CHOOSE p \in Recipes[i].pair : p # one.id
       IN  /\ partner # other.id
           /\ partner \in g.discovered
           /\ Resembles(other, Canon[partner])
    /\ Recipes[i].result \notin g.discovered
    /\ Open(g, Recipes[i])

DeadEnd(e) == e.origin = "canon" /\ \A i \in DOMAIN Recipes : e.id \notin Recipes[i].pair

\* judgePair(), of a pair no open recipe fits.
Verdict(g, a, b) ==
  IF RecipesFor(a.id, b.id) # {} THEN "locked"
  ELSE IF a.id = b.id THEN "self"
  ELSE IF NearMiss(g, a, b) \/ NearMiss(g, b, a) THEN "near-miss"
  ELSE IF DeadEnd(a) \/ DeadEnd(b) THEN "inert"
  ELSE IF Clashing(a, b) THEN "clash"
  ELSE IF HasShared(a, b) THEN "plausible" ELSE "absurd"

-----------------------------------------------------------------------------
(* What an attempt does, before the end of its turn: a game state and an   *)
(* outcome.                                                                *)

Outcome(kind, recipe, element, solved) ==
  [kind |-> kind, recipe |-> recipe, element |-> element, solved |-> solved]

\* Mutant: the gate is left open.
GateLeftOpen(g, recipe) == FALSE

\* An age does not end while it has an unsolved required problem.
Gated(g, recipe) ==
  recipe.ageUp /\ \E p \in Required \cap Range(ProblemsOf(g)) : p \notin g.solvedProblems

\* The base elements of the next act come with it.
BaseOf(act) == {id \in DOMAIN Canon : Canon[id].base /\ Canon[id].act = act}

\* A discovery sets its flags, costs its summers and solves one problem: the
\* one its recipe names, or else the first its tags solve.
Discovered(g, recipe) ==
  LET e == Canon[recipe.result]
      solved == IF recipe.solves \in Range(ProblemsOf(g)) \ g.solvedProblems
                  THEN recipe.solves
                  ELSE ProblemMet(g, e)
      act == IF recipe.ageUp THEN g.act + 1 ELSE g.act
  IN  [game |-> [g EXCEPT
         !.discovered = @ \cup {recipe.result} \cup (IF recipe.ageUp THEN BaseOf(act) ELSE {}),
         !.flags = @ \cup recipe.sets,
         !.attempts = @ + recipe.cost - 1,
         !.solvedProblems = @ \cup ({solved} \ {None}),
         !.act = act],
       outcome |-> Outcome("discovery", recipe, e, solved)]

\* resolve()
Resolve(g, a, b) ==
  LET recipe == Matching(g, a, b)
  IN  IF recipe = None
        THEN [game |-> g, outcome |-> Outcome("nofuse", None, None, None)]
      ELSE IF recipe.result \in g.discovered
        THEN [game |-> g, outcome |-> Outcome("known", recipe, Canon[recipe.result], None)]
      ELSE IF Gated(g, recipe)
        THEN [game |-> g, outcome |-> Outcome("gated", recipe, None, None)]
      ELSE Discovered(g, recipe)

Rejected(g) == [game |-> g, outcome |-> Outcome("improvise-rejected", None, None, None)]

\* The named element joins the registry, or takes its new name there.
Registered(g, e, named) ==
  IF e.id \in DOMAIN g.improvised /\ ~ named
    THEN g
    ELSE [g EXCEPT !.improvised = Put(@, e.id, e), !.discovered = @ \cup {e.id}]

\* validateGeneratedEffects(): of the rules that fit, one branch and one ending.
\* The code takes the least id; which one that is carries nothing.
Unlocked(e, field) ==
  {r[field] : r \in {s \in Rules : Solves(e, s.predicate)}} \ {None}

WithEffects(g, e) ==
  LET branches == Unlocked(e, "branch")
      endings == Unlocked(e, "ending")
      h == IF branches = {}
             THEN g ELSE [g EXCEPT !.completedBranches = @ \cup {CHOOSE b \in branches : TRUE}]
  IN  IF endings # {} /\ EndingsUnlocked(g) /\ g.ended = None
        THEN [h EXCEPT !.ended = CHOOSE x \in endings : TRUE] ELSE h

\* What the engine makes of an element, new or known, that it lets be made.
Made(g, e, known, named, generated) ==
  LET solved == ProblemMet(g, e)
      h == [Registered(g, e, named) EXCEPT !.solvedProblems = @ \cup ({solved} \ {None})]
  IN  [game |-> IF generated THEN WithEffects(h, e) ELSE h,
       outcome |-> Outcome(IF known THEN "reused" ELSE "improvised", None, e, solved)]

Renamed(e, name) == IF name = None THEN e ELSE [e EXCEPT !.name = name]

\* resolveImprovisation().  "name" is the name that came with the attempt, or
\* None; "generated" says that it is a model's choice, which names nothing again.
ImproviseOf(g, first, second, id, name, generated) ==
  LET known == id \in DOMAIN g.improvised
      newName == IF known /\ generated THEN None ELSE name
  IN  IF \/ id \in DOMAIN Canon
         \/ Verdict(g, first, second) \notin {"plausible", "absurd"}
         \/ Max({first.depth, second.depth}) + 1 > MaxDepth
         \/ ~ known /\ Cardinality(DOMAIN g.improvised) >= RunCap
        THEN Rejected(g)
        ELSE Made(g, Renamed(IF known THEN g.improvised[id] ELSE Fallback(first, second), newName),
                  known, newName # None, generated)

Improvise(g, a, b, name, generated) ==
  ImproviseOf(g, Element(g, a), Element(g, b), ImprovisedId(Element(g, a), Element(g, b)),
              name, generated)

-----------------------------------------------------------------------------
(* The end of a turn. *)

\* rollChallenge(): which threats may come on this page.
Pool(g) ==
  {c \in Threats :
     /\ g.attempts >= Challenges[c].minPage
     /\ c \in DOMAIN g.seen =>
          /\ Challenges[c].repeatable
          /\ g.attempts - g.seen[c] >= Challenges[c].cooldown}

Event(kind, challenge, by) == [kind |-> kind, challenge |-> challenge, by |-> by]

Calm(g) == [g EXCEPT !.active = None, !.turnsLeft = 0]

\* What answers the challenge under way: the thing just made, or else any of
\* the things at hand.  Mutant: only the thing just made.
FreshAnswers(g, o) ==
  {e \in Available(g) : o.element = e /\ o.kind \in {"discovery", "improvised", "reused"}
                         /\ Answers(e, g.active)}

AnswersAtHand(g, o) ==
  LET fresh == FreshAnswers(g, o)
  IN  IF fresh # {} THEN fresh ELSE {e \in Available(g) : Answers(e, g.active)}

\* tickChallenge(): each way the clock may go, with the event that tells of it.
Ticks(g, o) ==
  IF g.active # None
    THEN LET answers == AnswersAtHand(g, o)
         IN  IF answers # {}
               THEN {[game |-> Calm(g), event |-> Event("solved", g.active, e)] : e \in answers}
             ELSE IF g.turnsLeft <= 1
               THEN {[game |-> [Calm(g) EXCEPT !.ended = Challenges[g.active].failEnding],
                      event |-> Event("failed", g.active, None)]}
             ELSE {[game |-> [g EXCEPT !.turnsLeft = @ - 1],
                    event |-> Event("ticking", g.active, None)]}
    ELSE {[game |-> g, event |-> Event("none", None, None)]}
           \cup {[game |-> [g EXCEPT !.active = c, !.turnsLeft = Challenges[c].turns,
                                     !.seen = Put(@, c, g.attempts)],
                  event |-> Event("spawned", c, None)] : c \in Pool(g)}

\* What completeTurn() records of the challenge, and the improvised elements it
\* credits for the need they met.
Recorded(g, o, event) ==
  LET won == event.kind = "solved"
  IN  [g EXCEPT
         !.solvedChallenges = IF won THEN @ \cup {event.challenge} ELSE @,
         !.failedChallenges =
           IF event.kind = "failed" THEN @ \cup {event.challenge} ELSE @,
         !.credited = @
           \cup (IF o.kind \in {"improvised", "reused"} /\ o.solved # None
                    THEN {o.element.id} ELSE {})
           \cup (IF won /\ event.by.origin = "improvised" THEN {event.by.id} ELSE {})]

\* applyEnding(): a fated recipe ends the life, if Karl has seen enough of it.
Fated(g, o) ==
  IF /\ g.ended = None
     /\ o.kind \in {"discovery", "known"}
     /\ o.recipe.ending # None
     /\ EndingsUnlocked(g)
    THEN [g EXCEPT !.ended = o.recipe.ending] ELSE g

Deflected(g, o) ==
  /\ g.ended = None
  /\ o.kind \in {"discovery", "known"}
  /\ o.recipe.ending # None
  /\ ~ EndingsUnlocked(g)

Aged(g) ==
  IF g.ended = None /\ g.attempts >= TurnLimit /\ OldAge # None
    THEN [g EXCEPT !.ended = OldAge] ELSE g

\* branchPredicateMatches() of one fact.
Holds(g, fact) ==
  LET id == fact[2]
  IN  CASE fact[1] = "flag" -> id \in g.flags
        [] fact[1] = "discovery" -> id \in g.discovered
        [] fact[1] = "solvedNeed" -> id \in g.solvedProblems
        [] fact[1] = "challengeSolved" -> id \in g.solvedChallenges
        [] fact[1] = "challengeFailed" -> id \in g.failedChallenges
        [] fact[1] = "ending" -> g.ended = id

Triggered(g, branch) == \E facts \in Branches[branch] : \A f \in facts : Holds(g, f)

Facts == {"flag", "discovery", "solvedNeed", "challengeSolved", "challengeFailed", "ending"}

\* The facts of a branch are of these kinds and name content, as branches.json does.
ASSUME FactsAssumption ==
  \A b \in DOMAIN Branches : \A facts \in Branches[b] : \A f \in facts :
    /\ f[1] \in Facts
    /\ f[1] = "discovery" => f[2] \in DOMAIN Canon
    /\ f[1] = "ending" => f[2] # None

\* The branches this life can complete: its sidequests, or all when it has none.
OwnBranches == IF Sidequests = {} THEN DOMAIN Branches ELSE Sidequests \cap DOMAIN Branches

\* No branch is the one a life begins on.
ASSUME BranchesAssumption == \A b \in OwnBranches : ~ Triggered(NewLife, b)

\* updateCompletedBranches()
Branched(g) ==
  [g EXCEPT !.completedBranches = @ \cup {b \in OwnBranches : Triggered(g, b)}]

\* completeTurn(), for one way the challenge clock goes.  Mutant: the branches
\* are updated before old age is looked at.
BranchedEarly(tick, o) == Aged(Branched(Fated(Recorded(tick.game, o, tick.event), o)))

Completed(tick, o) == Branched(Aged(Fated(Recorded(tick.game, o, tick.event), o)))

\* A whole attempt, from the state in which its summer is paid: the states it
\* may lead to, each with the outcome, what the clock did and whether a fate
\* was turned away.
Turns(r) ==
  {[game |-> Completed(tick, r.outcome), outcome |-> r.outcome, event |-> tick.event,
    deflected |-> Deflected(Recorded(tick.game, r.outcome, tick.event), r.outcome)] :
      tick \in Ticks(r.game, r.outcome)}

-----------------------------------------------------------------------------
(* loadState(): what a saved life looks like when it is read back. *)

LooksLike(e, expected) ==
  /\ Taxonomy(e) = Taxonomy(expected)
  /\ e.name = expected.name \/ CopyPasses(e.name)

\* Does a registered element still look like a child of its parents?
LooksRight(g, e) ==
  \E p, q \in e.parents :
    /\ e.parents = {p, q} /\ p # q
    /\ LooksLike(e, Fallback(Element(g, p), Element(g, q)))

\* Mutant: a child is kept without its parents.
AcceptedOrphans(g) ==
  LET generation[d \in 0 .. MaxDepth] ==
        IF d = 0 THEN {}
        ELSE generation[d - 1] \cup
             {id \in DOMAIN g.improvised \cap g.discovered :
                LooksRight(g, g.improvised[id])}
  IN  generation[MaxDepth]

\* sanitizeImprovisedRegistry(): generation by generation, those that look
\* right and whose parents are canonical or were accepted.
Accepted(g) ==
  LET generation[d \in 0 .. MaxDepth] ==
        IF d = 0 THEN {}
        ELSE generation[d - 1] \cup
             {id \in DOMAIN g.improvised \cap g.discovered :
                /\ g.improvised[id].parents \subseteq DOMAIN Canon \cup generation[d - 1]
                /\ LooksRight(g, g.improvised[id])}
  IN  generation[MaxDepth]

Keeping(g, discovered, kept) ==
  [g EXCEPT
     !.improvised = Restrict(@, kept),
     !.discovered = discovered,
     !.credited = @ \cap kept \cap discovered]

LoadedWith(g, kept) == Keeping(g, g.discovered \cap (DOMAIN Canon \cup kept), kept)

Loaded(g) == LoadedWith(g, Accepted(g))

-----------------------------------------------------------------------------
(* The methods a player's hands reach, one step each.  A method that throws  *)
(* changes nothing, and is no step.                                          *)

\* Mutant: an ended life is played on.
EndedTurnAllowed(a, b) == {a, b} \subseteq life.discovered

\* assertTurnAllowed()
TurnAllowed(a, b) == life.ended = None /\ {a, b} \subseteq life.discovered

Paid(g) == [g EXCEPT !.attempts = @ + 1]

\* combine(): recipes only.
CombineTurns(a, b) == Turns(Resolve(Paid(life), a, b))

\* attempt(): a recipe, or else an improvisation with the name that came in time.
AttemptTurns(a, b, name) ==
  IF Matching(life, a, b) # None
    THEN CombineTurns(a, b)
    ELSE Turns(Improvise(Paid(life), a, b, name, FALSE))

\* validateGeneratedGameplayProposal(): a candidate of the pair, in one of the
\* presentations.
OfferedNames(a, b) ==
  {Presented(CandidateName(o, a, b), p) : o \in PossibleOperations(a, b), p \in Presentations}

\* attemptGenerated(): a recipe, or else one of the candidates offered for the
\* pair.  Any other proposal throws before the summer is paid.
GeneratedTurns(a, b) ==
  IF Matching(life, a, b) # None
    THEN CombineTurns(a, b)
    ELSE UNION {Turns(Improvise(Paid(life), a, b, name, TRUE)) :
                  name \in OfferedNames(Element(life, a), Element(life, b))}

\* improvise(): the summer is paid before the pair is found to have a recipe.
ImproviseTurns(a, b) ==
  IF Matching(life, a, b) # None
    THEN Turns(Rejected(Paid(life)))
    ELSE Turns(Improvise(Paid(life), a, b, None, FALSE))

\* prefetchImprovisedCopy(): selecting two canonical elements asks for a text,
\* unless they have a recipe, were invented before or could not be.
Prefetched(a, b) ==
  IF /\ "copy" \in Kinds
     /\ {a, b} \subseteq DOMAIN Canon
     /\ Matching(life, a, b) = None
     /\ {a, b} \notin DOMAIN life.improvised
     /\ Cardinality(DOMAIN life.improvised) < RunCap
     /\ Verdict(life, Canon[a], Canon[b]) \in {"plausible", "absurd"}
    THEN {<<life.act, {a, b}>>} ELSE {}

\* state() of improvise-client.ts: the text of a pair, if it was asked for in
\* this act and has come.
WrittenNames(a, b) ==
  {WrittenName({a, b}) : key \in {<<life.act, {a, b}>>} \cap (copies.asked \cup Prefetched(a, b))}

\* Every way an attempt on two elements may go; a recipe needs no name.
TurnsOf(a, b) ==
  (IF "combine" \in Kinds THEN CombineTurns(a, b) ELSE {})
    \cup (IF "improvise" \in Kinds THEN ImproviseTurns(a, b) ELSE {})
    \cup (IF "attempt" \in Kinds
             THEN UNION {AttemptTurns(a, b, name) : name \in
                    IF Matching(life, a, b) # None THEN {None} ELSE {None} \cup WrittenNames(a, b)}
             ELSE {})
    \cup (IF "generated" \in Kinds THEN GeneratedTurns(a, b) ELSE {})

\* The text of an invention may come late only while its own pair is the last
\* that was selected (CopyGenerationGuard).
CopiesAfter(a, b, g) ==
  [asked |-> copies.asked \cup Prefetched(a, b),
   late |-> IF Prefetched(a, b) # {} \/ {a, b} \in copies.late
              THEN {{a, b}} \cap DOMAIN g.improvised ELSE {}]

\* The order in which the two are put together carries nothing.
Turn ==
  \E pair \in {{x, y} : x, y \in life.discovered} :
    LET a == CHOOSE x \in pair : TRUE
        b == CHOOSE x \in pair : pair = {a, x}
    IN  /\ TurnAllowed(a, b)
        /\ \E t \in TurnsOf(a, b) : life' = t.game /\ copies' = CopiesAfter(a, b, t.game)

\* enhanceImprovisedCopy(), from applyLateCopy(): the written name came after the
\* attempt, and before anything else was selected.
Rename ==
  \E id \in copies.late \cap DOMAIN life.improvised :
    /\ life' = [life EXCEPT !.improvised[id].name = WrittenName(id)]
    /\ copies' = [copies EXCEPT !.late = {}]

NoCopies == [asked |-> {}, late |-> {}]

\* A browser that starts, or the server before the next attempt, reads the life
\* back from where it was saved after the last.
Load == life' = Loaded(life) /\ copies' = NoCopies

Init == life = NewLife /\ copies = NoCopies

Next == Turn \/ Rename \/ Load

Spec == Init /\ [][Next]_<<life, copies>>

-----------------------------------------------------------------------------
(* Properties. *)

\* Every thing Karl has is a thing the engine knows, and so are the two things
\* an invention was made of: no reload keeps a child and loses its parent, which
\* the next sanitizeImprovisedRegistry() would then have to drop as well.
RegistryClosed ==
  /\ life.discovered \ DOMAIN Canon = DOMAIN life.improvised
  /\ \A id \in DOMAIN life.improvised :
       life.improvised[id].parents \subseteq life.discovered

\* No age is entered over an unsolved required problem of an earlier one,
\* whatever recipes, overrides, improvisations and reloads came between.
AgesAreEarned ==
  \A n \in 1 .. life.act - 1 :
    Required \cap Range(Acts[n].problems) \subseteq life.solvedProblems

\* A threat kills only the one who has nothing against it (engine.ts:829-838):
\* of the things a dead Karl leaves behind none answers what killed him.
OnlyTheEmptyHandedDie ==
  \A c \in life.failedChallenges : \A e \in Available(life) : ~ Answers(e, c)

\* What a life has completed is what it did: a branch of its own whose facts
\* hold is recorded in the turn they come to hold, the last turn included, and
\* nothing else is recorded but what the rules gave an invention.
BranchesExact ==
  /\ \A b \in OwnBranches : Triggered(life, b) => b \in life.completedBranches
  /\ \A b \in life.completedBranches :
       \/ b \in OwnBranches /\ Triggered(life, b)
       \/ \E r \in Rules : r.branch = b

\* A fate ends a life only once Karl has made enough of himself: things of the
\* recipes beyond those he woke up among, and inventions that have met a need or
\* beaten a threat.  Volume alone unlocks nothing (PRD.md:21).
Fates == {Recipes[i].ending : i \in DOMAIN Recipes} \cup {r.ending : r \in Rules}

\* What tools/validate.py says of endings.json: one ending is old age, a challenge
\* that fails has one of its own, and neither is brought about by a combination.
ASSUME EndingsAssumption ==
  LET others == {OldAge} \cup {Challenges[c].failEnding : c \in DOMAIN Challenges}
  IN  None \notin others /\ others \cap Fates = {}

Achievements(g) ==
  {id \in g.discovered \cap DOMAIN Canon : ~ Canon[id].base}
    \cup {id \in DOMAIN g.improvised :
            \/ \E p \in g.solvedProblems : Solves(g.improvised[id], p)
            \/ \E c \in g.solvedChallenges : Answers(g.improvised[id], c)}

EndingsAreEarned ==
  [][life.ended = None /\ life'.ended \in Fates \ {None}
       => Cardinality(Achievements(life')) >= EndingsUnlockAt]_life

\* An ended life stays as it ended and a life ends in time: it implements
\* Lifespan.
Lifespan == INSTANCE Lifespan WITH summers <- life.attempts, over <- life.ended # None

ImplementsLifespan == Lifespan!Spec

\* The cap on inventions counts those ever made, so that a reload cannot reset
\* it (docs/design/improvisation-balance.md:28-29): no step forgets an invention.
ReloadCannotReset == [][DOMAIN life.improvised \subseteq DOMAIN life'.improvised]_life
=============================================================================
