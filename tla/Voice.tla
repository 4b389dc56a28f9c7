------------------------------- MODULE Voice --------------------------------
(***************************************************************************)
(* The narrator of a life (narrator/narrator.ts): what it says of every    *)
(* attempt, what it remembers having said, and what it asks for next.  It  *)
(* speaks of the turns of Engine, in the order of performCombine(): one    *)
(* reaction, and after a discovery perhaps a second line.                  *)
(*                                                                         *)
(* A line is an id.  Which of the lines that would do is drawn (by the     *)
(* narrator's generator, or by a rotating index) is any of them; texts,    *)
(* variants and the words put into them are left out, and so is which need *)
(* the line of a useless invention names.  No written texts are asked for.  *)
(*                                                                         *)
(* What a reload resumes is the compatibility save of the page, game and   *)
(* narrator together.  Not every turn is saved there: in a build without   *)
(* inventions a turn that gives nothing is not.                            *)
(***************************************************************************)
EXTENDS Engine

CONSTANTS
  Problems,          \* need -> [pull : line or None, hints : Seq(line)]
  Script,            \* act -> the act's narrator content
  OnceLines,         \* lines with "once"
  Needs,             \* line -> [requires, blockedBy : flags], where it has any
  Suggests,          \* line -> the pairs it tells the player to try, if any
  Baked,             \* <<pair, verdict>> -> line, of pairs-act-1.json
  Endings,           \* ending -> line
  LivePairs,         \* the pairs for which a line may be written on the spot
  Paces,             \* how an attempt follows the one before: fast, steady, slow
  HintStart, HintStep, PullCooldown, DefianceCooldown, SuggestionTtl, SuggestionMemory,
  Tries,             \* the pairs that a behaviour tries
  Builds,            \* the builds there are: Karl may invent (IMPROVISE_ENABLED) or not
  Reloads            \* bound: reloads in a behaviour

VARIABLES
  inventing, \* IMPROVISE_ENABLED of the build, which never changes
  voice,     \* NarratorState
  due,       \* what startGame() or the banner of a new age has still to say
  saved,     \* SAVE_KEY and NARRATOR_SAVE_KEY: [life, voice], None before the first
  heard,     \* history: how often each line of the ladders was said
  reloads,   \* history
  undone     \* history: the reloads that took back a hint

told == <<life, copies, inventing, voice, due, saved, heard, reloads, undone>>

ASSUME BuildsAssumption == Builds \subseteq BOOLEAN

Never == -100

FreshVoice ==
  [spam |-> 0, lastPair |-> {}, repeat |-> 0, failStreak |-> 0, fast |-> 0, sweepElement |-> None,
   sweep |-> 0, fails |-> 0, hintLevel |-> [p \in DOMAIN Problems |-> 0], last |-> None,
   usedOnce |-> {}, built |-> FALSE, pulled |-> None, lastPull |-> Never, defiance |-> 0,
   tiers |-> {}, lastDefiance |-> Never, suggestions |-> <<>>, attempts |-> 0, slowUsed |-> FALSE,
   grammar |-> <<>>]

\* The first rule that has something to say speaks.
x ?? y == IF x # {} THEN x ELSE y

\* flagsAllow()
MaySay(g, line) ==
  line \in DOMAIN Needs => Open(g, Needs[line])

\* rememberPair(): the newest first, each pair once.
Without(suggestions, pair) == SelectSeq(suggestions, LAMBDA s : s.pair # pair)

Remembered(suggestions, pair, at) ==
  LET all == <<[pair |-> pair, at |-> at]>> \o Without(suggestions, pair)
  IN  SubSeq(all, 1, Min({Len(all), SuggestionMemory}))

Remember(v, pair) == [v EXCEPT !.suggestions = Remembered(@, pair, v.attempts)]

\* rememberSuggestions()
Suggested(suggestions, line, at) ==
  IF line \in DOMAIN Suggests
    THEN FoldLeft(LAMBDA s, pair : Remembered(s, pair, at), suggestions, Suggests[line])
    ELSE suggestions

\* speak()
Spoken(v, line) ==
  [v EXCEPT !.last = line,
            !.usedOnce = @ \cup ({line} \cap OnceLines),
            !.suggestions = Suggested(@, line, v.attempts)]

Said(v, line) == [voice |-> v, line |-> line, covered |-> FALSE]

\* What is said when any of these lines will do; nothing when there is none.
SpeakOne(v, lines) == {Said(Spoken(v, line), line) : line \in lines}

\* poolLine(): not the line said last, unless there is no other.
Drawn(v, g, pool) ==
  LET allowed == {line \in pool : MaySay(g, line)}
  IN  IF allowed \ {v.last} # {} THEN allowed \ {v.last} ELSE allowed

\* A pool that rather says nothing than the same line again.
Rotated(v, g, pool) == {line \in pool : MaySay(g, line)} \ {v.last}

At(lines, n) == IF n \in DOMAIN lines THEN {lines[n]} ELSE {}

\* currentPull(): the first required problem, then the first of the others.
Foremost(seq, wanted) ==
  LET fit == {i \in DOMAIN seq : seq[i] \in wanted}
  IN  IF fit = {} THEN None ELSE seq[Min(fit)]

ForemostUnsolved(g, wanted) ==
  LET unsolved == wanted \ g.solvedProblems
      required == Foremost(ProblemsOf(g), unsolved \cap Required)
  IN  IF required # None THEN required ELSE Foremost(ProblemsOf(g), unsolved \ Required)

CurrentPull(g) == ForemostUnsolved(g, {p \in DOMAIN Problems : Problems[p].pull # None})

-----------------------------------------------------------------------------
(* updateCounters() *)

Swept(v, pair) ==
  LET shared == pair \cap v.lastPair
      element == CHOOSE e \in shared : TRUE
  IN  IF pair = v.lastPair THEN v
      ELSE IF shared = {} THEN [v EXCEPT !.sweepElement = None, !.sweep = 0]
      ELSE IF element = v.sweepElement THEN [v EXCEPT !.sweep = @ + 1]
      ELSE [v EXCEPT !.sweepElement = element, !.sweep = 2]

Counted(v, g, pair, o, pace) ==
  LET failed == o.kind \in {"nofuse", "improvise-rejected"}
      made == o.kind \in {"discovery", "improvised"}
      Streak(n) == IF failed THEN n + 1 ELSE IF made THEN 0 ELSE n
  IN  [Swept(v, pair) EXCEPT
         !.attempts = @ + 1,
         !.spam = IF Script[g.act].spamElement \in pair THEN @ + 1 ELSE 0,
         !.repeat = IF pair = v.lastPair THEN @ + 1 ELSE 1,
         !.lastPair = pair,
         !.fast = IF pace = "fast" THEN @ + 1 ELSE 0,
         !.failStreak = Streak(@),
         !.fails = Streak(@)]

-----------------------------------------------------------------------------
(* The rules of react(), by what they speak of.  Each is the set of the    *)
(* things it may say, empty when it does not apply.                        *)

LastWord(v, g) ==
  LET words == At(Endings, g.ended)
  IN  SpeakOne([v EXCEPT !.usedOnce = @ \cup words], words \ v.usedOnce)

\* An invention that met a need: the challenge, or a problem.
OfInvention(t) == t.outcome.kind \in {"improvised", "reused"}

InventionSolves(v, g, t, pair, target) ==
  LET improvisation == Script[g.act].improvisation
      won == IF target = "challenge"
               THEN t.event.kind = "solved" /\ t.event.by = t.outcome.element
               ELSE t.outcome.solved # None
      a == CHOOSE x \in pair : TRUE
      b == CHOOSE x \in pair : pair = {a, x}
      pool == IF Verdict(g, Element(g, a), Element(g, b)) = "absurd"
                THEN improvisation.absurdSolved
              ELSE IF target = "challenge"
                THEN improvisation.challengeSolved ELSE improvisation.problemSolved
  IN  IF OfInvention(t) /\ won THEN SpeakOne(v, Drawn(v, g, pool)) ELSE {}

OfChallenge(v, g, t) ==
  LET c == t.event.challenge
      warned == t.event.kind = "ticking" /\ g.turnsLeft <= 2
  IN  SpeakOne(v, CASE t.event.kind = "spawned" -> {Challenges[c].line}
                    [] t.event.kind = "solved" -> {Challenges[c].successLine}
                    [] warned -> Script[g.act].warning
                    [] OTHER -> {})

OfFate(v, g, t) == IF t.deflected THEN SpeakOne(v, Script[g.act].deflected) ELSE {}

OfGate(v, g, t) ==
  IF t.outcome.kind = "gated" THEN SpeakOne(v, Acts[g.act].gateLine) ELSE {}

\* discoveryBridgeLine(): from what was built before to what the story wants.
Bridge(v, g, before) ==
  LET bridge == Script[g.act].bridge
      next == CurrentPull(g)
      pool == IF before THEN bridge.continued ELSE bridge.first
      w == [v EXCEPT !.pulled = next, !.lastPull = v.attempts]
  IN  IF next # None /\ next \in bridge.needs
        THEN {[Said(Spoken(w, line), line) EXCEPT !.covered = TRUE] : line \in Drawn(v, g, pool)}
        ELSE {}

\* A discovery is told by the age it ends, by its recipe, by a bridge or by a
\* line that would do for any; otherwise it is met with silence.
OfDiscovery(v, g, before, t) ==
  LET recipe == t.outcome.recipe
      w == [v EXCEPT !.built = TRUE]
  IN  SpeakOne(w, IF recipe.ageUp THEN Acts[before.act].ageUpLine ELSE {})
        ?? SpeakOne(w, {recipe.line} \ {None})
        ?? Bridge(w, g, v.built)
        ?? SpeakOne(w, Rotated(w, g, Script[g.act].discoveryFallback))
        ?? {Said(w, None)}

OfReuse(v, g, t) ==
  IF t.outcome.kind = "reused" /\ t.outcome.solved = None /\ t.event.kind # "solved"
    THEN SpeakOne(v, Drawn(v, g, Script[g.act].improvisation.reused)) ELSE {}

OfRejection(v, g, t) ==
  IF t.outcome.kind = "improvise-rejected"
    THEN SpeakOne(v, Drawn(v, g, Script[g.act].improvisation.rejected)) ELSE {}

OfUselessness(v, g, t) ==
  IF t.outcome.kind = "improvised" /\ t.outcome.solved = None /\ t.event.kind # "solved"
    THEN SpeakOne(v, Drawn(v, g, Script[g.act].improvisation.useless)) ELSE {}

\* ownAdviceFailed(): what he himself told the player to try, not too long ago.
\* The advice is used up, whether there is a line to own it with or not.
OwnAdvice(v, pair) ==
  {i \in DOMAIN v.suggestions :
     v.suggestions[i].pair = pair /\ v.attempts - v.suggestions[i].at <= SuggestionTtl}

WithoutAdvice(v, pair) ==
  IF OwnAdvice(v, pair) = {}
    THEN v ELSE [v EXCEPT !.suggestions = Without(@, pair)]

OfAdvice(v, g, pair) ==
  IF OwnAdvice(v, pair) # {}
    THEN SpeakOne(WithoutAdvice(v, pair), Rotated(v, g, Script[g.act].obeyedFailure)) ELSE {}

\* behaviorLine()
OfBehavior(v, g, pace) ==
  LET behavior == Script[g.act].behavior
  IN  SpeakOne(v, At(behavior.aging, Max({0, TurnLimit - g.attempts})))
        ?? (IF ~ v.slowUsed /\ pace = "slow"
              THEN SpeakOne([v EXCEPT !.slowUsed = TRUE], behavior.slow) ELSE {})
        ?? SpeakOne(v, At(behavior.spam, v.spam))
        ?? SpeakOne(v, At(behavior.repeatCombo, v.repeat))
        ?? SpeakOne(v, At(behavior.elementSweep, v.sweep))
        ?? SpeakOne(v, At(behavior.failStreak, v.failStreak))
        ?? SpeakOne(v, At(behavior.fast, v.fast))

\* hintLine(): the steps of the hints for the foremost problem that has any.
\* Mutant: the step is reckoned from the failures, not from what was said.
ReckonedStep(v, problem) == (v.fails - HintStart) \div HintStep

HintsGiven(v, problem) == v.hintLevel[problem]

OfHints(v, g) ==
  LET problem == ForemostUnsolved(g, {p \in DOMAIN Problems : Problems[p].hints # <<>>})
      hints == Problems[problem].hints
      level == HintsGiven(v, problem)
  IN  IF /\ v.fails >= HintStart
         /\ problem # None
         /\ v.fails >= HintStart + level * HintStep
         /\ level < Len(hints)
        THEN SpeakOne([v EXCEPT !.hintLevel[problem] = level + 1], {hints[level + 1]}) ELSE {}

OfMemory(v, g) ==
  LET memories == Script[g.act].flagMemory
      line == Foremost(memories, {m \in Range(memories) \ v.usedOnce : MaySay(g, m)})
  IN  SpeakOne(v, {line} \ {None})

OfThisPair(v, pair, verdict) == SpeakOne(v, At(Baked, <<pair, verdict>>))

\* liveLine(): a line written for the pair, when it arrived in time.  It is not
\* spoken by speak().
OfLive(v, arrived) ==
  IF arrived THEN {Said([v EXCEPT !.last = "live"], "live")} ELSE {}

\* grammarLine(): every line of the pool once before any is heard again.
HeardOf(grammar, pool) == SelectSeq(grammar, LAMBDA line : line \in pool)

HeardOfOthers(grammar, pool) == SelectSeq(grammar, LAMBDA line : line \notin pool)

FreshGrammar(v, pool) ==
  LET heardHere == HeardOf(v.grammar, pool)
      fresh == IF Range(heardHere) = pool
                 THEN pool \ {Head(heardHere)} ELSE pool \ Range(heardHere)
  IN  IF fresh = {} THEN pool ELSE fresh

\* The near misses of a pair: the right one of the two, with its true partner.
Advised(g, a, b) ==
  {{r[1].id, partner} : r \in {<<a, b>>, <<b, a>>}, partner \in g.discovered}
    \cap {Recipes[i].pair : i \in DOMAIN Recipes}

OfGrammar(v, g, pair, verdict) ==
  LET pool == At(Script[g.act].grammar, verdict)
      lines == IF pool = {} THEN {} ELSE CHOOSE l \in pool : TRUE
      done == lines \subseteq Range(v.grammar)
      kept == IF done THEN HeardOfOthers(v.grammar, lines) ELSE v.grammar
      Told(line) == Spoken([v EXCEPT !.grammar = <<line>> \o kept], line)
      advice == IF verdict = "near-miss"
                  THEN UNION {Advised(g, Element(g, a), Element(g, b)) : a, b \in pair} ELSE {}
  IN  IF lines = {} THEN {}
        ELSE UNION {{Said(Told(line), line)}
                      \cup {Said(Remember(Told(line), p), line) : p \in advice} :
                      line \in FreshGrammar(v, lines)}

OfNothing(v, g) == SpeakOne(v, Rotated(v, g, Script[g.act].generic))

-----------------------------------------------------------------------------
(* react() and followUp() *)

\* What is left when nothing has come of an attempt: his own advice, how the
\* player behaves, and then, of a failure, a hint or any of the ways to tell it.
Failure(v, g, t, pair, pace, arrived) ==
  LET nofuse == t.outcome.kind = "nofuse"
      w == IF nofuse THEN WithoutAdvice(v, pair) ELSE v
      a == CHOOSE x \in pair : TRUE
      b == CHOOSE x \in pair : pair = {a, x}
      verdict == Verdict(g, Element(g, a), Element(g, b))
  IN  (IF nofuse THEN OfAdvice(v, g, pair) ELSE {})
        ?? OfBehavior(w, g, pace)
        ?? (IF ~ nofuse
              THEN {Said(w, None)}
              ELSE OfHints(w, g) ?? OfMemory(w, g) ?? OfThisPair(w, pair, verdict)
                     ?? OfLive(w, arrived) ?? OfGrammar(w, g, pair, verdict) ?? OfNothing(w, g))

React(v, before, t, pair, pace, arrived) ==
  LET g == t.game
      w == Counted(v, g, pair, t.outcome, pace)
  IN  LastWord(w, g)
        ?? InventionSolves(w, g, t, pair, "challenge")
        ?? OfChallenge(w, g, t)
        ?? InventionSolves(w, g, t, pair, "problem")
        ?? OfFate(w, g, t)
        ?? OfGate(w, g, t)
        ?? (IF t.outcome.kind = "discovery" THEN OfDiscovery(w, g, before, t) ELSE {})
        ?? OfReuse(w, g, t)
        ?? OfRejection(w, g, t)
        ?? OfUselessness(w, g, t)
        ?? Failure(w, g, t, pair, pace, arrived)

\* defianceTierLine(): the lowest step that is earned and was not heard.
\* Mutant: the step of exactly this many.
ExactTier(v, tiers) == {n \in DOMAIN tiers : n = v.defiance /\ n \notin v.tiers}

EarnedTier(v, tiers) ==
  LET earned == {n \in DOMAIN tiers : n <= v.defiance /\ n \notin v.tiers}
  IN  IF earned = {} THEN {} ELSE {Min(earned)}

Raised(v, n) == [v EXCEPT !.tiers = @ \cup {n}, !.lastDefiance = v.attempts]

Climb(v, tiers) ==
  UNION {SpeakOne(Raised(v, n), {tiers[n]}) : n \in EarnedTier(v, tiers)}

\* defianceLine(), of a discovery that is not what he asked for.  A comic one may
\* be remarked upon at any time, unless the remark that is drawn was the last thing
\* said; a step of the ladder is taken after a while.  He may have nothing to say.
Defied(v, g, o) ==
  o.kind = "discovery" /\ v.pulled \notin g.solvedProblems \cup {None, o.recipe.solves}

OfDefiance(v, g, o, otherwise) ==
  LET tiers == Script[g.act].defiance
      comics == Script[g.act].defianceComic
      comic == o.recipe.comic /\ comics # {}
      joke == SpeakOne([v EXCEPT !.lastDefiance = v.attempts], comics \ {v.last})
      cooled == v.attempts - v.lastDefiance >= DefianceCooldown
  IN  IF comic
        THEN joke \cup (IF v.last \in comics THEN Climb(v, tiers) ?? otherwise ELSE {})
        ELSE IF cooled THEN Climb(v, tiers) ?? otherwise ELSE otherwise

OfPull(v, g, covered) ==
  LET next == CurrentPull(g)
      again == v.pulled # next \/ v.attempts - v.lastPull >= PullCooldown
  IN  IF covered THEN {Said(v, None)}
      ELSE IF next = None THEN {Said([v EXCEPT !.pulled = None], None)}
      ELSE IF again
        THEN SpeakOne([v EXCEPT !.pulled = next, !.lastPull = v.attempts], {Problems[next].pull})
      ELSE {Said(v, None)}

FollowUp(r, g, o) ==
  LET v == IF Defied(r.voice, g, o) THEN [r.voice EXCEPT !.defiance = @ + 1] ELSE r.voice
  IN  IF \/ o.kind \notin {"discovery", "improvised", "reused"}
         \/ g.ended # None
         \/ o.kind = "discovery" /\ o.recipe.ageUp
        THEN {Said(r.voice, None)}
        ELSE LET pull == OfPull(v, g, r.covered)
             IN  IF Defied(r.voice, g, o) THEN OfDefiance(v, g, o, pull) ELSE pull

-----------------------------------------------------------------------------

\* The lines that are given in an order: the steps of defiance and the hints.
DefianceLines == UNION {Range(Script[act].defiance) : act \in DOMAIN Script}

HintLines == UNION {Range(Problems[p].hints) : p \in DOMAIN Problems}

LadderLines == DefianceLines \cup HintLines

Hear(lines) ==
  heard' = [l \in LadderLines |-> heard[l] + Cardinality({i \in DOMAIN lines : lines[i] = l})]

\* performPlayerAttempt()
Played(a, b) == IF inventing THEN TurnsOf(a, b) ELSE CombineTurns(a, b)

\* Is a turn saved?  A discovery, an invention and an ending always are; with
\* inventions, shouldPersistAttemptState() has the others saved as well.
Kept(t) ==
  inventing \/ t.outcome.kind \in {"discovery", "improvised", "reused"} \/ t.game.ended # None

\* performCombine(), once the turn is taken and what is said of it is chosen.
Narrated(t, r, f) ==
  /\ life' = t.game
  /\ voice' = f.voice
  /\ saved' = IF Kept(t) THEN [life |-> t.game, voice |-> f.voice] ELSE saved
  /\ due' = IF t.game.act > life.act THEN due \cup {"banner"} ELSE due
  /\ Hear(<<r.line, f.line>>)
  /\ UNCHANGED <<copies, inventing, reloads, undone>>

Attempt ==
  \E pair \in Tries, pace \in Paces, arrived \in BOOLEAN :
    LET a == CHOOSE x \in pair : TRUE
        b == CHOOSE x \in pair : pair = {a, x}
    IN  /\ TurnAllowed(a, b)
        /\ arrived => pair \in LivePairs
        /\ \E t \in Played(a, b) :
             \E r \in React(voice, life, t, pair, pace, arrived) :
               \E f \in FollowUp(r, t.game, t.outcome) : Narrated(t, r, f)

\* openingPull(), after whatever is said first.
OpeningPull(v) ==
  LET next == CurrentPull(life)
  IN  IF life.ended # None \/ next \in {None, v.pulled}
        THEN Said(v, None)
        ELSE Said(Spoken([v EXCEPT !.pulled = next, !.lastPull = v.attempts], Problems[next].pull),
                  Problems[next].pull)

Word(v, line) == IF line = None THEN v ELSE Spoken(v, line)

\* startGame() waits for the sound before it speaks: the act's intro, or a
\* welcome back.  Then it saves.
Opened(kind) ==
  /\ kind \in due
  /\ LET first == IF kind = "resume" THEN Script[life.act].resumeLine ELSE Acts[life.act].introLine
         pull == OpeningPull(Word(voice, first))
     IN  /\ voice' = pull.voice
         /\ saved' = [life |-> life, voice |-> pull.voice]
         /\ Hear(<<first, pull.line>>)
  /\ due' = due \ {kind}
  /\ UNCHANGED <<life, copies, inventing, reloads, undone>>

\* The banner of a new age is put away.  Nothing is saved.
Banner ==
  /\ "banner" \in due
  /\ LET intro == Acts[life.act].introLine
     IN  voice' = Word(voice, intro) /\ Hear(<<intro>>)
  /\ due' = due \ {"banner"}
  /\ UNCHANGED <<life, copies, inventing, saved, reloads, undone>>

\* tryLoad(): the compatibility save comes first, even when the profile has a
\* later turn; before the first save there is only the profile.
Resumed == IF saved = None THEN [life |-> life, voice |-> voice] ELSE saved

Reload ==
  /\ reloads < Reloads
  /\ reloads' = reloads + 1
  /\ life' = Loaded(Resumed.life)
  /\ voice' = Resumed.voice
  /\ due' = IF Resumed.life.ended = None THEN {"resume"} ELSE {}
  /\ undone' = undone + (IF Resumed.voice.hintLevel = voice.hintLevel THEN 0 ELSE 1)
  /\ UNCHANGED <<copies, inventing, saved, heard>>

VoiceInit ==
  /\ Init
  /\ inventing \in Builds
  /\ voice = FreshVoice
  /\ due = {"intro"}
  /\ saved = None
  /\ heard = [l \in LadderLines |-> 0]
  /\ reloads = 0
  /\ undone = 0

VoiceNext == Attempt \/ (\E kind \in {"intro", "resume"} : Opened(kind)) \/ Banner \/ Reload

VoiceSpec == VoiceInit /\ [][VoiceNext]_told

-----------------------------------------------------------------------------
(* Properties. *)

\* The lines of an act but for its ladder, and all the lines there are besides.
LinesOf(script) ==
  LET behavior == script.behavior
      improvisation == script.improvisation
  IN  UNION {Range(behavior.aging), Range(behavior.spam), Range(behavior.repeatCombo),
             Range(behavior.elementSweep), Range(behavior.failStreak), Range(behavior.fast),
             behavior.slow, Range(script.flagMemory), script.generic, script.discoveryFallback,
             script.obeyedFailure, UNION Range(script.grammar), script.defianceComic,
             script.deflected, script.warning, script.bridge.first, script.bridge.continued,
             improvisation.absurdSolved, improvisation.challengeSolved,
             improvisation.problemSolved, improvisation.reused, improvisation.rejected,
             improvisation.useless, {script.resumeLine}}

ScriptLines == UNION {LinesOf(Script[act]) : act \in DOMAIN Script}

ActLines == UNION {{act.introLine} \cup act.gateLine \cup act.ageUpLine : act \in Range(Acts)}

ChallengeLines == UNION {{c.line, c.successLine} : c \in Range(Challenges)}

OtherLines ==
  UNION {ScriptLines, ActLines, ChallengeLines, Range(Endings), Range(Baked), {"live", None},
         {p.pull : p \in Range(Problems)}, {r.line : r \in Range(Recipes)}}

\* What tools/validate.py says of narrator.json: every act has a script, and the
\* steps of a ladder are numbers of times.  Hints and memories are lists.
ASSUME ScriptAssumption ==
  /\ DOMAIN Script = DOMAIN Acts
  /\ \A act \in DOMAIN Script :
       DOMAIN Script[act].defiance \subseteq Nat /\ DOMAIN Script[act].flagMemory \subseteq Nat
  /\ \A p \in DOMAIN Problems :
       LET hints == Problems[p].hints IN Len(hints) \in Nat /\ DOMAIN hints = 1 .. Len(hints)

\* So the ladders are written: a step is on the ladder of one act, as the narrator
\* remembers it by its number alone, and a line of a ladder or a hint is said for
\* nothing else.
ASSUME LaddersAssumption ==
  /\ \A one, other \in DOMAIN Script :
       LET lower == Script[one].defiance
           upper == Script[other].defiance
       IN  \A m \in DOMAIN lower, n \in DOMAIN upper :
             (m = n => one = other) /\ (lower[m] = upper[n] => m = n)
  /\ \A p, q \in DOMAIN Problems :
       \A i \in DOMAIN Problems[p].hints, j \in DOMAIN Problems[q].hints :
         Problems[p].hints[i] = Problems[q].hints[j] => p = q /\ i = j
  /\ DefianceLines \cap HintLines = {}
  /\ LadderLines \cap OtherLines = {}

\* The ladder of defiance is walked from below: no step before all the lower
\* ones, none twice and none unearned, however many of them a cooldown or a
\* comic line has swallowed (narrator.ts:1263-1275).
DefianceFromBelow ==
  \A act \in DOMAIN Script :
    LET tiers == Script[act].defiance
    IN  \A n \in DOMAIN tiers :
          /\ heard[tiers[n]] <= 1
          /\ heard[tiers[n]] = 1 =>
               /\ n <= voice.defiance
               /\ \A m \in DOMAIN tiers : m < n => heard[tiers[m]] = 1

\* The hints for a problem are given in their order and none is left out, whatever
\* speaks in between, across problems and reloads (narrator.ts:544-549).  Each is
\* given once, and a second time only after a reload that took back the turn that
\* gave it: a build with inventions saves every turn, and takes back none.
HintsClimb ==
  \A p \in DOMAIN Problems :
    LET hints == Problems[p].hints
    IN  \A i \in DOMAIN hints :
          /\ heard[hints[i]] <= 1 + (IF inventing THEN 0 ELSE undone)
          /\ i > 1 /\ heard[hints[i]] > 0 => heard[hints[i - 1]] > 0

=============================================================================
