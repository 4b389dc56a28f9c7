------------------------------ MODULE Taxonomy ------------------------------
(***************************************************************************)
(* What a thing is, and what it is good for: the tags an improvised        *)
(* element inherits from its parents (core/improvise.ts), the candidates a *)
(* model may choose between (core/generated-candidates.ts), the predicates *)
(* that say whether an element meets a need (core/solves.ts), and the      *)
(* likenesses the verdict on a pair is made of (core/verdict.ts).          *)
(*                                                                         *)
(* A name is kept as how it was made, out of which names, with the two     *)
(* things the copy contract tests: its number of words and whether it has  *)
(* a quote in it.                                                          *)
(***************************************************************************)
EXTENDS Integers, Sequences, FiniteSets, FiniteSetsExt

CONSTANTS
  MaxDepth,     \* MAX_IMPROVISED_DEPTH
  MaxNameWords, \* IMPROVISE_COPY_LIMITS.nameWords
  Presentations \* of PRESENTATION_KEYS: plain, dry-pride, quiet-regret

ASSUME DepthAssumption == MaxDepth \in Nat \ {0}

KindPriority ==
  <<"abstract", "phenomenon", "material", "creature", "person", "food", "tool", "structure">>

StuffPriority ==
  <<"none", "fire", "water", "plant", "flesh", "fibre", "clay", "bone", "wood", "stone", "metal">>

ScaleOrder == <<"hand", "body", "camp", "landscape">>

\* indexOf
Place(order, x) == CHOOSE i \in DOMAIN order : order[i] = x

Higher(order, x, y) == IF Place(order, x) >= Place(order, y) THEN x ELSE y

\* The code orders two parents by their ids as strings.  Which of two strings
\* comes first carries nothing: it is an arbitrary but fixed one of the two.
First(a, b) == CHOOSE e \in {a, b} : TRUE
Second(a, b) == IF First(a, b) = a THEN b ELSE a

-----------------------------------------------------------------------------
(* The roles of two parents. *)

IsHot(e) == "hot" \in e.traits \/ e.stuff = "fire"
IsWater(e) == e.stuff = "water"
IsClay(e) == e.stuff = "clay"
IsSharpTool(e) == e.kind = "tool" /\ "sharp" \in e.traits

\* One of the two plays the role and the other is its counterpart.
Roles(a, b, players, counterparts) ==
  {r \in {<<a, b>>, <<b, a>>} : r[1] \in players /\ r[2] \in counterparts}

Cutting(a, b) ==
  Roles(a, b, {e \in {a, b} : IsSharpTool(e)}, {e \in {a, b} : e.kind = "creature"})
Heating(a, b) == Roles(a, b, {e \in {a, b} : IsHot(e)}, {e \in {a, b} : ~ IsHot(e)})
Soaking(a, b) == Roles(a, b, {e \in {a, b} : IsWater(e)}, {e \in {a, b} : ~ IsWater(e)})
Binding(a, b) == Roles(a, b, {e \in {a, b} : IsClay(e)}, {e \in {a, b} : ~ IsClay(e)})
Working(a, b) ==
  Roles(a, b, {e \in {a, b} : e.kind = "tool"}, {e \in {a, b} : e.kind = "material"})

Operations == <<"cut", "heat", "soak", "bind", "work", "join", "hybrid">>

InOrder(a, b) == <<First(a, b), Second(a, b)>>

RolesFor(a, b) ==
  [cut |-> Cutting(a, b), heat |-> Heating(a, b), soak |-> Soaking(a, b),
   bind |-> Binding(a, b), work |-> Working(a, b),
   join |-> IF a.stuff = b.stuff /\ a.stuff # "none" THEN {InOrder(a, b)} ELSE {},
   hybrid |-> {InOrder(a, b)}]

\* The first operation that the pair has roles for is what happens to it.
Fitting(roles) == Head(SelectSeq(Operations, LAMBDA o : roles[o] # {}))

\* What happens, what does it and what it is done to.
Doing(how, roled) == [how |-> how, doer |-> roled[1], target |-> roled[2]]

DeedOf(roles) == Doing(Fitting(roles), CHOOSE r \in roles[Fitting(roles)] : TRUE)

Deed(a, b) == DeedOf(RolesFor(a, b))

Tags(kind, stuff, scale, traits) ==
  [kind |-> kind, stuff |-> stuff, scale |-> scale, traits |-> traits]

\* deriveTags(), of what happens to two parents.
DerivedTags(deed, a, b) ==
  LET doer == deed.doer
      target == deed.target
      scale == Higher(ScaleOrder, a.scale, b.scale)
  IN  CASE deed.how = "cut" ->
             Tags("food", "flesh", target.scale,
                  (target.traits \ {"alive", "tame"}) \cup {"dead", "edible"})
        [] deed.how = "heat" ->
             Tags(IF "edible" \in target.traits THEN "food" ELSE target.kind,
                  target.stuff, target.scale,
                  (target.traits \ {"wet", "cold"}) \cup {"hot", "dry"})
        [] deed.how = "soak" ->
             Tags(target.kind, target.stuff, target.scale,
                  (target.traits \ {"dry", "hot"}) \cup {"wet"})
        [] deed.how = "bind" ->
             Tags(target.kind, target.stuff, target.scale,
                  ((target.traits \cup doer.traits) \ {"dry"}) \cup {"wet", "fragile"})
        [] deed.how = "work" -> Tags("tool", target.stuff, scale, target.traits)
        [] OTHER ->
             Tags(Higher(KindPriority, a.kind, b.kind), Higher(StuffPriority, a.stuff, b.stuff),
                  scale, a.traits \cup b.traits)

-----------------------------------------------------------------------------
(* Names. *)

Name(how, of, words, quoted) == [how |-> how, of |-> of, words |-> words, quoted |-> quoted]

\* The name buildFallbackElement() gives.
FallbackName(deed, a, b) ==
  Name("fallback", {a.name, b.name},
       CASE deed.how = "work" -> a.name.words + b.name.words + 2
         [] deed.how = "hybrid" -> a.name.words + b.name.words
         [] deed.how = "join" -> deed.doer.name.words + 1
         [] OTHER -> deed.target.name.words + 1,
       a.name.quoted \/ b.name.quoted)

\* The name of a candidate for an operation, before its presentation.
CandidateName(operation, a, b) ==
  IF operation = "hybrid"
    THEN FallbackName(Deed(a, b), a, b)
    ELSE Name(operation, {a.name, b.name},
              (IF operation = "join" THEN First(a, b) ELSE Second(a, b)).name.words + 1,
              a.name.quoted \/ b.name.quoted)

\* applyGeneratedPresentation(): "", "Karl's " or "Regrettable " in front.
Presented(name, presentation) ==
  IF presentation = "plain"
    THEN name
    ELSE Name(presentation, {name}, name.words + 1,
              name.quoted \/ presentation = "dry-pride")

\* A name and a flavour the Worker wrote and the contract has passed.
WrittenName(id) == Name("written", {id}, 1, FALSE)

\* validateImproviseCopy(): no quotes and few words.  The flavours of the
\* templates break no rule of their own.
CopyPasses(name) == ~ name.quoted /\ name.words <= MaxNameWords

-----------------------------------------------------------------------------
(* Improvised elements. *)

\* improvisedElementId(): the unordered pair.
ImprovisedId(a, b) == {a.id, b.id}

\* buildFallbackElement(), of parents that are not too deep.
Child(a, b, tags, name) ==
  [id |-> ImprovisedId(a, b), origin |-> "improvised", parents |-> {a.id, b.id},
   act |-> Max({a.act, b.act}), base |-> FALSE, depth |-> Max({a.depth, b.depth}) + 1,
   kind |-> tags.kind, stuff |-> tags.stuff, scale |-> tags.scale,
   traits |-> tags.traits, name |-> name]

FallbackOf(deed, a, b) == Child(a, b, DerivedTags(deed, a, b), FallbackName(deed, a, b))

Fallback(a, b) == FallbackOf(Deed(a, b), a, b)

Taxonomy(e) == [act |-> e.act, depth |-> e.depth, kind |-> e.kind, stuff |-> e.stuff,
                scale |-> e.scale, traits |-> e.traits]

\* possibleOperations(): the first four.
PossibleOperations(a, b) ==
  LET fit == [cut |-> Cutting(a, b) # {},
              heat |-> IsHot(a) \/ IsHot(b),
              soak |-> IsWater(a) \/ IsWater(b),
              bind |-> \E e \in {a, b} : e.stuff \in {"clay", "fibre"} \/ "sticky" \in e.traits,
              work |-> Working(a, b) # {},
              join |-> a.stuff = b.stuff /\ a.stuff # "none",
              hybrid |-> TRUE]
      offered == SelectSeq(Operations, LAMBDA o : fit[o])
  IN  {offered[i] : i \in 1 .. Min({4, Len(offered)})}

-----------------------------------------------------------------------------
(* solves.ts.  A predicate is a set of clauses that all hold, a set of     *)
(* clauses of which one holds (when it is not empty) and a set of clauses  *)
(* none of which holds; a clause leaves a tag free with the empty set.     *)

Free == [crafted |-> FALSE, minDepth |-> 0, kind |-> {}, stuff |-> {}, traits |-> {}, scale |-> {}]

Meets(e, clause) ==
  /\ clause.crafted => ~ e.base
  /\ e.depth >= clause.minDepth
  /\ clause.kind = {} \/ e.kind \in clause.kind
  /\ clause.stuff = {} \/ e.stuff \in clause.stuff
  /\ clause.scale = {} \/ e.scale \in clause.scale
  /\ clause.traits \subseteq e.traits

Satisfies(e, predicate) ==
  /\ \A c \in predicate.all : Meets(e, c)
  /\ predicate.any = {} \/ \E c \in predicate.any : Meets(e, c)
  /\ \A c \in predicate.not : ~ Meets(e, c)

-----------------------------------------------------------------------------
(* verdict.ts, the part that compares tags. *)

Clashes ==
  {{"hot", "wet"}, {"hot", "cold"}, {"wet", "dry"}, {"alive", "dead"},
   {"fragile", "heavy"}, {"sharp", "soft"}}

Clashing(a, b) ==
  \E c \in Clashes : \E x \in c : x \in a.traits /\ (c \ {x}) \subseteq b.traits

Resembles(a, b) == a.stuff = b.stuff /\ a.stuff # "none"

HasShared(a, b) ==
  \/ Resembles(a, b)
  \/ Working(a, b) # {}
  \/ \E r \in {<<a, b>>, <<b, a>>} : "hot" \in r[1].traits /\ "edible" \in r[2].traits
  \/ a.kind = b.kind /\ a.kind \notin {"abstract", "phenomenon"}
  \/ a.scale = b.scale /\ a.traits \cap b.traits # {}
=============================================================================
