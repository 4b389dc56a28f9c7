--------------------------- MODULE RevisionsProofs ---------------------------
(***************************************************************************)
(* Theorems about a profile across revisions of the content: that a load   *)
(* leaves nothing of an older one, what a page writes beside a save of the  *)
(* time before profiles, and what a page does not write whose profile could *)
(* not be migrated.  They hold for every content, every alias and every    *)
(* sequence of deployments.                                                 *)
(***************************************************************************)
EXTENDS Revisions, SequenceTheorems, WellFoundedInduction, TLAPS

IsLife(life) == DOMAIN life = {"life", "game", "target", "events"}

IsProfile(p) ==
  /\ DOMAIN p = {"active", "archives", "compendium"}
  /\ p.active = NoLife \/ IsLife(p.active)

\* A profile that hides no save: it has a life, or has had one.
Lived(p) == p.active # NoLife \/ p.archives # {}

InGame == page \in {"playing", "over"}

PageFine == page \in {"closed", "title", "playing", "over"}

\* A page that could not migrate its profile only shows the title.
ReadOnlyFine == readOnly => page = "title"

ShapeFine == IsProfile(profile) /\ (stored # NoProfile => IsProfile(stored))

\* The profile in memory and the one on disk may differ by a turn whose write was
\* lost, but not in whether there is a life and which were archived.
InStep ==
  page # "closed" /\ ~ readOnly =>
    \/ stored = NoProfile /\ ~ Lived(profile)
    \/ /\ stored.active = NoLife <=> profile.active = NoLife
       /\ stored.archives = profile.archives

\* A game without a life of the profile is one of a save, or has been archived, if no
\* profile was stored beside it by hand.
Strays ==
  InGame /\ profile.active = NoLife /\ stored # NoProfile => stored.archives # {} \/ retried

Inv ==
  PageFine /\ ReadOnlyFine /\ ShapeFine /\ InStep /\ Strays /\ LegacyNotShadowed

-----------------------------------------------------------------------------
(* The operations on a profile. *)

LEMMA LifeIsSome == ASSUME NEW life, IsLife(life) PROVE life # NoLife
<1>1. DOMAIN NoLife = {"life"}
  BY DEF NoLife
<1> QED
  BY <1>1 DEF IsLife

LEMMA FreshShape == IsProfile(FreshProfile) /\ ~ Lived(FreshProfile)
  BY DEF FreshProfile, IsProfile, Lived

LEMMA MigratedLifeShape ==
  ASSUME NEW life, IsLife(life), NEW r
  PROVE  MigratedLife(life, r) = NoLife \/ IsLife(MigratedLife(life, r))
<1> DEFINE game == MigratedGame(life.game, r)
<1>1. MigratedLife(life, r) = LifeWith(life, game, r)
  BY DEF MigratedLife
<1> HIDE DEF game
<1> QED
  BY <1>1 DEF LifeWith, IsLife

\* A migration keeps the life, if there is one, and as many archives as there are.
LEMMA MigratedShape ==
  ASSUME NEW p, IsProfile(p), NEW r, MigratedProfile(p, r) # NoProfile
  PROVE  /\ IsProfile(MigratedProfile(p, r))
         /\ Lived(p) => Lived(MigratedProfile(p, r))
<1> DEFINE active == IF p.active = NoLife THEN NoLife ELSE MigratedLife(p.active, r)
           compendium == MigratedCompendium(p.compendium, r)
           q == ProfileWith(p, active, compendium, r)
<1>1. MigratedProfile(p, r) = p \/ MigratedProfile(p, r) = q
  BY DEF MigratedProfile
<1>2. ASSUME q # NoProfile
      PROVE  /\ IsProfile(q)
             /\ Lived(p) => Lived(q)
  <2>1. active = NoLife \/ IsLife(active)
    BY MigratedLifeShape DEF IsProfile
  <2> HIDE DEF active, compendium
  <2>2. /\ q = [active |-> active, archives |-> {MigratedSummary(s, r) : s \in p.archives},
                compendium |-> compendium]
        /\ ~ (p.active # NoLife /\ active = NoLife)
    BY <1>2 DEF ProfileWith
  <2>3. /\ IsProfile(q) /\ q.active = active
        /\ q.archives = {MigratedSummary(s, r) : s \in p.archives}
    BY <2>1, <2>2 DEF IsProfile
  <2> HIDE DEF q
  <2> QED
    BY <2>2, <2>3 DEF Lived
<1> HIDE DEF q
<1> QED
  BY <1>1, <1>2

LEMMA LegacyShape ==
  ASSUME NEW life, IsLife(life), NEW r
  PROVE  IsProfile(LegacyProfile(life, r)) /\ Lived(LegacyProfile(life, r))
  BY LifeIsSome DEF LegacyProfile, IsProfile, Lived

\* An archived life leaves the profile without one, and with one archive more.
LEMMA LeftShape ==
  ASSUME IsProfile(profile), NEW ending
  PROVE  /\ IsProfile(Left(ending))
         /\ Left(ending).active = NoLife
         /\ profile.active = NoLife => Left(ending) = profile
         /\ profile.active # NoLife => Left(ending).archives # {}
<1> DEFINE archived == Leaving(ending)
<1>1. Left(ending) = IF profile.active = NoLife THEN profile ELSE WithArchive(profile, archived, content)
  BY DEF Left
<1> HIDE DEF archived
<1>2. LET q == WithArchive(profile, archived, content)
      IN  IsProfile(q) /\ q.active = NoLife /\ q.archives # {}
  BY DEF WithArchive, IsProfile
<1> QED
  BY <1>1, <1>2

-----------------------------------------------------------------------------
(* The steps. *)

LEMMA InitInv == ASSUME Init PROVE Inv
  BY FreshShape DEF Init, Inv, PageFine, ReadOnlyFine, ShapeFine, InStep, Strays, InGame,
       LegacyNotShadowed

LEMMA OpeningInv ==
  ASSUME Inv, Load \/ LoadReadOnly \/ LoadFresh \/ LoadLegacy \/ LoadLegacyFails
  PROVE  Inv'
<1>1. page' = "title" /\ v1' = v1 /\ retried' = retried
  BY DEF Load, LoadReadOnly, LoadFresh, LoadLegacy, LoadLegacyFails, Opened
<1>2. CASE Load
  <2> DEFINE p == MigratedProfile(stored, deployed)
  <2>1. stored # NoProfile /\ p # NoProfile /\ stored' = p /\ profile' = p /\ readOnly' = FALSE
    BY <1>2 DEF Load, LoadAs, Migrates, Show
  <2>2. IsProfile(p) /\ (Lived(stored) => Lived(p))
    BY <2>1, MigratedShape DEF Inv, ShapeFine
  <2> HIDE DEF p
  <2> QED
    BY <1>1, <2>1, <2>2
    DEF Inv, PageFine, ReadOnlyFine, ShapeFine, InStep, Strays, InGame, LegacyNotShadowed, Lived
<1>3. CASE LoadReadOnly
  <2>1. stored # NoProfile /\ stored' = stored /\ profile' = stored /\ readOnly' = TRUE
    BY <1>3 DEF LoadReadOnly, disk
  <2> QED
    BY <1>1, <2>1
    DEF Inv, PageFine, ReadOnlyFine, ShapeFine, InStep, Strays, InGame, LegacyNotShadowed
<1>4. CASE LoadFresh
  <2>1. v1 = None /\ stored' = FreshProfile /\ profile' = FreshProfile /\ readOnly' = FALSE
    BY <1>4 DEF LoadFresh, Show
  <2> QED
    BY <1>1, <2>1, FreshShape
    DEF Inv, PageFine, ReadOnlyFine, ShapeFine, InStep, Strays, InGame, LegacyNotShadowed
<1>5. CASE LoadLegacy
  <2> DEFINE life == LegacyLife(v1, deployed)
             p == LegacyProfile(life, deployed)
  <2>1. stored' = p /\ profile' = p /\ readOnly' = FALSE
    BY <1>5 DEF LoadLegacy, Show
  <2>2. IsLife(life)
    BY DEF LegacyLife, IsLife
  <2>3. IsProfile(p) /\ Lived(p)
    <3> HIDE DEF life
    <3> QED
      BY <2>2, LegacyShape
  <2> HIDE DEF p
  <2> QED
    BY <1>1, <2>1, <2>3
    DEF Inv, PageFine, ReadOnlyFine, ShapeFine, InStep, Strays, InGame, LegacyNotShadowed, Lived
<1>6. CASE LoadLegacyFails
  <2>1. stored = NoProfile /\ stored' = stored /\ profile' = FreshProfile /\ readOnly' = FALSE
    BY <1>6 DEF LoadLegacyFails, ShowFresh, Show
  <2> QED
    BY <1>1, <2>1, FreshShape
    DEF Inv, PageFine, ReadOnlyFine, ShapeFine, InStep, Strays, InGame, LegacyNotShadowed
<1> QED
  BY <1>2, <1>3, <1>4, <1>5, <1>6

\* A page that closes leaves what is on disk to the next.
LEMMA GoneInv ==
  ASSUME Inv, Gone, (stored' = stored) \/ (stored' = Left(None)), v1' \in {v1, None},
         stored' = stored \/ v1' = None, retried' = retried
  PROVE  Inv'
<1>1. page' = "closed" /\ profile' = FreshProfile /\ readOnly' = FALSE
  BY DEF Gone
<1>2. stored' # NoProfile => IsProfile(stored')
  BY LeftShape DEF Inv, ShapeFine
<1> QED
  BY <1>1, <1>2, FreshShape
  DEF Inv, PageFine, ReadOnlyFine, ShapeFine, InStep, Strays, InGame, LegacyNotShadowed

LEMMA BeginLifeInv ==
  ASSUME Inv, Started, NEW before, IsProfile(before), BeginLife(before), v1' \in {v1, None}
  PROVE  Inv'
<1> DEFINE life == [life |-> lives + 1, game |-> FreshGame(content), target |-> wish,
                    events |-> <<>>]
           p == [before EXCEPT !.active = life]
<1>1. page' = "playing" /\ readOnly' = FALSE
  BY DEF Started, Inv, ReadOnlyFine
<1>2. profile' = p /\ stored' = p
  BY DEF BeginLife
<1>3. IsLife(life)
  BY DEF IsLife
<1>4. life # NoLife
  <2> HIDE DEF life
  <2> QED
    BY <1>3, LifeIsSome
<1>5. IsProfile(p) /\ p.active # NoLife
  <2> HIDE DEF life
  <2> QED
    BY <1>3, <1>4 DEF IsProfile
<1> HIDE DEF p
<1> QED
  BY <1>1, <1>2, <1>5
  DEF Inv, PageFine, ReadOnlyFine, ShapeFine, InStep, Strays, InGame, LegacyNotShadowed

LEMMA ContinueInv == ASSUME Inv, Continue PROVE Inv'
<1>1. page' = "playing" /\ readOnly' = readOnly /\ ~ readOnly /\ page = "title"
  BY DEF Continue, Started
<1>2. stored' = stored /\ v1' = v1 /\ profile' = profile /\ retried' = retried
  BY DEF Continue, Started, disk
<1>3. v1 # None \/ profile.active # NoLife
  BY DEF Continue, Resumable, Compatible
<1>4. InStep' /\ Strays'
  BY <1>1, <1>2, <1>3 DEF Inv, InStep, Strays, InGame, LegacyNotShadowed
<1> QED
  BY <1>1, <1>2, <1>4 DEF Inv, PageFine, ReadOnlyFine, ShapeFine, LegacyNotShadowed

LEMMA TurnInv ==
  ASSUME Inv, page = "playing", NEW game, NEW gave, NEW written, Turn(game, gave, written)
  PROVE  Inv'
<1>1. /\ page' \in {"playing", "over"} /\ readOnly' = readOnly /\ ~ readOnly
      /\ retried' = retried
  BY DEF Turn, Inv, ReadOnlyFine
<1>2. CASE profile.active = NoLife
  <2>1. profile' = profile /\ stored' = stored
    BY <1>2 DEF Turn
  <2>2. stored # NoProfile => Lived(stored) \/ retried
    BY <1>1, <1>2 DEF Inv, Strays, InGame, Lived
  <2> QED
    BY <1>1, <1>2, <2>1, <2>2
    DEF Inv, PageFine, ReadOnlyFine, ShapeFine, InStep, Strays, InGame, LegacyNotShadowed, Lived
<1>3. CASE profile.active # NoLife
  <2> DEFINE life == [profile.active EXCEPT !.game = engine', !.events = journal']
             compendium == LiveProgress(profile.compendium, engine', profile.active.life, content)
             p == [profile EXCEPT !.active = life, !.compendium = compendium]
  <2>1. profile' = p /\ stored' \in {p, stored}
    BY <1>3 DEF Turn
  <2>2. IsProfile(profile) /\ IsLife(profile.active)
    BY <1>3 DEF Inv, ShapeFine, IsProfile
  <2>3. IsLife(life)
    BY <2>2 DEF IsLife
  <2> HIDE DEF life, compendium
  <2>4. IsProfile(p) /\ p.active # NoLife /\ p.archives = profile.archives
    BY <2>2, <2>3, LifeIsSome DEF IsProfile
  <2> HIDE DEF p
  <2>5. stored.active # NoLife /\ stored.archives = profile.archives
    BY <1>1, <1>3 DEF Inv, InStep, Lived
  <2>6. IsProfile(profile') /\ (stored' # NoProfile => IsProfile(stored'))
    BY <2>1, <2>4 DEF Inv, ShapeFine
  <2>7. stored'.active # NoLife /\ stored'.archives = profile'.archives /\ profile'.active # NoLife
    BY <2>1, <2>4, <2>5
  <2> QED
    BY <1>1, <2>6, <2>7
    DEF Inv, PageFine, ReadOnlyFine, ShapeFine, InStep, Strays, InGame, LegacyNotShadowed
<1> QED
  BY <1>2, <1>3

LEMMA FinishInv == ASSUME Inv, Finish PROVE Inv'
<1>1. page' = "playing" /\ readOnly' = readOnly /\ ~ readOnly /\ v1' = None
      /\ retried' = retried
  BY DEF Finish, Inv, ReadOnlyFine
<1> DEFINE p == Left(engine.ended)
<1>2. profile' = p /\ stored' = IF profile.active = NoLife THEN stored ELSE p
  BY DEF Finish
<1>3. /\ IsProfile(p) /\ p.active = NoLife
      /\ profile.active = NoLife => p = profile
      /\ profile.active # NoLife => p.archives # {}
  BY LeftShape DEF Inv, ShapeFine
<1> HIDE DEF p
<1>4. page = "over"
  BY DEF Finish
<1> QED
  BY <1>1, <1>2, <1>3, <1>4
  DEF Inv, PageFine, ReadOnlyFine, ShapeFine, InStep, Strays, InGame, LegacyNotShadowed

\* An empty profile hides a save only once it was stored by hand.
LEMMA RetryInv == ASSUME Inv, RetrySaving PROVE Inv'
<1>1. /\ page \in {"playing", "over"} /\ stored = NoProfile /\ stored' = profile
      /\ retried' = TRUE
      /\ UNCHANGED <<v1, page, readOnly, profile>>
  BY DEF RetrySaving
<1>3. ShapeFine' /\ InStep'
  BY <1>1 DEF Inv, ShapeFine, InStep
<1>4. LegacyNotShadowed'
  BY <1>1 DEF LegacyNotShadowed
<1>5. Strays'
  BY <1>1 DEF Strays, InGame
<1> QED
  BY <1>1, <1>3, <1>4, <1>5 DEF Inv, PageFine, ReadOnlyFine

LEMMA NextInv == ASSUME Inv, [Next]_vars PROVE Inv'
<1>1. CASE Load \/ LoadReadOnly \/ LoadFresh \/ LoadLegacy \/ LoadLegacyFails
  BY <1>1, OpeningInv
<1>2. CASE \E r \in Revisions : Deploy(r)
  <2>1. UNCHANGED <<stored, v1, page, readOnly, profile, retried>>
    BY <1>2 DEF Deploy, disk
  <2> QED
    BY <2>1
    DEF Inv, PageFine, ReadOnlyFine, ShapeFine, InStep, Strays, InGame, LegacyNotShadowed
<1>3. CASE Close \/ ChooseTarget
  <2>1. Gone /\ stored' = stored /\ v1' \in {v1, None} /\ retried' = retried
    BY <1>3 DEF Close, ChooseTarget, disk
  <2> QED
    BY <2>1, GoneInv
<1>4. CASE Restart
  <2>1. Gone /\ (stored' = stored \/ stored' = Left(None)) /\ v1' = None /\ retried' = retried
    BY <1>4 DEF Restart
  <2> QED
    BY <2>1, GoneInv
<1>5. CASE Continue
  BY <1>5, ContinueInv
<1>6. CASE ContinueAnew
  <2>1. Started /\ BeginLife(profile) /\ v1' = v1 /\ IsProfile(profile)
    BY <1>6 DEF ContinueAnew, Inv, ShapeFine
  <2> QED
    BY <2>1, BeginLifeInv
<1>7. CASE NewLife
  <2>1. Started /\ BeginLife(Left(None)) /\ v1' = None
    BY <1>7 DEF NewLife
  <2>2. IsProfile(Left(None))
    BY LeftShape DEF Inv, ShapeFine
  <2> QED
    BY <2>1, <2>2, BeginLifeInv
<1>8. CASE Play
  <2>1. page = "playing" /\ \E game, gave, written : Turn(game, gave, written)
    BY <1>8 DEF Play, Discover, Invent, Fail
  <2> QED
    BY <2>1, TurnInv
<1>9. CASE Finish
  BY <1>9, FinishInv
<1>10. CASE UNCHANGED vars
  <2>1. UNCHANGED <<stored, v1, page, readOnly, profile, retried>>
    BY <1>10 DEF vars, disk
  <2> QED
    BY <2>1
    DEF Inv, PageFine, ReadOnlyFine, ShapeFine, InStep, Strays, InGame, LegacyNotShadowed
<1> QED
  BY <1>1, <1>2, <1>3, <1>4, <1>5, <1>6, <1>7, <1>8, <1>9, <1>10, RetryInv DEF Next

-----------------------------------------------------------------------------
(* Numbers and sequences. *)

\* For induction over a count.
LEMMA SmallestNumber ==
  ASSUME NEW S \in SUBSET Nat, S # {}
  PROVE  \E x \in S : \A y \in S : x <= y
<1>1. IsWellFoundedOn(OpToRel(<, Nat), Nat)
  BY NatLessThanWellFounded
<1>2. PICK x \in S : \A y \in S : <<y, x>> \notin OpToRel(<, Nat)
  BY <1>1, WFMin
<1>3. ASSUME NEW y \in S PROVE x <= y
  <2>1. <<y, x>> \in Nat \X Nat /\ <<y, x>>[1] = y /\ <<y, x>>[2] = x
    OBVIOUS
  <2>2. ~ (y < x)
    BY <1>2, <2>1, Zenon DEF OpToRel
  <2> QED
    BY <2>2
<1> QED
  BY <1>3

LEMMA NumberedSeq ==
  ASSUME NEW n \in Nat, NEW f, f = [i \in 1 .. n |-> f[i]]
  PROVE  f \in Seq(Range(f)) /\ Range(f) = {f[i] : i \in 1 .. n} /\ Len(f) = n
<1>1. Range(f) = {f[i] : i \in 1 .. n}
  BY DEF Range
<1>2. f \in [1 .. n -> Range(f)]
  BY <1>1
<1> QED
  BY <1>1, <1>2

LEMMA RangeOfAppend ==
  ASSUME NEW s, s \in Seq(Range(s)), NEW x
  PROVE  /\ Range(Append(s, x)) = Range(s) \cup {x}
         /\ Append(s, x) \in Seq(Range(Append(s, x)))
<1> DEFINE n == Len(s)
           S == Range(s) \cup {x}
           t == Append(s, x)
<1>1. n \in Nat /\ DOMAIN s = 1 .. n
  OBVIOUS
<1>2. s \in Seq(S)
  OBVIOUS
<1>3. t \in Seq(S) /\ Len(t) = n + 1 /\ (\A i \in 1 .. n : t[i] = s[i]) /\ t[n + 1] = x
  <2> HIDE DEF S
  <2>1. x \in S
    BY DEF S
  <2> QED
    BY <1>2, <2>1
<1> HIDE DEF t, S, n
<1>4. n + 1 \in Nat /\ t = [i \in 1 .. n + 1 |-> t[i]]
  BY <1>1, <1>3
<1>5. t \in Seq(Range(t)) /\ Range(t) = {t[i] : i \in 1 .. n + 1}
  BY <1>4, NumberedSeq
<1>6. Range(s) = {s[i] : i \in 1 .. n}
  BY <1>1 DEF Range
<1>7. 1 .. n + 1 = (1 .. n) \cup {n + 1}
  BY <1>1
<1>8. Range(t) = Range(s) \cup {x}
  <2>1. ASSUME NEW y \in Range(t) PROVE y \in Range(s) \cup {x}
    BY <1>3, <1>5, <1>6, <1>7
  <2>2. ASSUME NEW y \in Range(s) PROVE y \in Range(t)
    BY <1>3, <1>5, <1>6, <1>7
  <2>3. x \in Range(t)
    BY <1>3, <1>5, <1>7
  <2> QED
    BY <2>1, <2>2, <2>3
<1> QED
  BY <1>5, <1>8 DEF t

-----------------------------------------------------------------------------
(* Names. *)

\* resolveAlias() ends at a name of the content, or nowhere.
LEMMA NamesResolve ==
  ASSUME NEW r \in Revisions, NEW s \in Revisions, NEW kind \in Kinds,
         NEW name \in Vocabulary(kind, s)
  PROVE  Current(kind, name, r) \in Vocabulary(kind, r) \cup {None}
<1> DEFINE resolved == Resolve(name, kind, r)
           names == UNION {Vocabulary(kind, t) : t \in Revisions}
<1>1. name \in names
  OBVIOUS
<1>2. Current(kind, name, r) = resolved
  BY <1>1 DEF Current, CurrentNames
<1>3. resolved \in Vocabulary(kind, r) \cup {None}
  BY DEF Resolve
<1> QED
  BY <1>2, <1>3

\* What the lists of names and the kinds of entry come to.
LEMMA NameFacts ==
  /\ \A r : /\ Vocabulary("discovery", r) = Contents[r].elements
            /\ Vocabulary("branch", r) = DOMAIN Contents[r].branches
            /\ Vocabulary("ending", r) = Contents[r].endings
  /\ \A name : Named(name).name = name /\ Named(name).of = {}
  /\ \A of : Made(of).name = "" /\ Made(of).of = of
  BY DEF Vocabulary, Named, Made

-----------------------------------------------------------------------------
(* The inventions of a game, renamed one after the other. *)

Renamings(ids, r, n, f) ==
  f = [k \in 0 .. n |-> IF k = 0 THEN <<>> ELSE Renamed(f[k - 1], ids[k], r)]

\* The recursive function of MadeAliases() is one.
LEMMA RenamingsExist ==
  ASSUME NEW ids, NEW r, NEW n \in Nat
  PROVE  \E f : Renamings(ids, r, n, f)
<1> DEFINE P == {m \in Nat : ~ \E f : Renamings(ids, r, m, f)}
<1> SUFFICES ASSUME P # {} PROVE FALSE
  OBVIOUS
<1>1. PICK m \in P : \A k \in P : m <= k
  <2>1. P \in SUBSET Nat
    OBVIOUS
  <2> HIDE DEF P
  <2> QED
    BY <2>1, SmallestNumber
<1>2. m \in Nat /\ ~ \E f : Renamings(ids, r, m, f)
  OBVIOUS
<1>3. CASE m = 0
  <2> DEFINE f == [k \in 0 .. 0 |-> <<>>]
  <2>1. f = [k \in 0 .. 0 |-> IF k = 0 THEN <<>> ELSE Renamed(f[k - 1], ids[k], r)]
    OBVIOUS
  <2>2. Renamings(ids, r, m, f)
    <3> HIDE DEF f
    <3> QED
      BY <1>3, <2>1 DEF Renamings
  <2> QED
    BY <1>2, <2>2
<1>4. CASE m # 0
  <2>1. m - 1 \in Nat /\ m - 1 \notin P
    BY <1>1, <1>2, <1>4
  <2>2. PICK e : Renamings(ids, r, m - 1, e)
    BY <2>1
  <2> DEFINE f == [k \in 0 .. m |-> IF k < m THEN e[k] ELSE Renamed(e[m - 1], ids[m], r)]
             next(k) == IF k = 0 THEN <<>> ELSE Renamed(f[k - 1], ids[k], r)
  <2>3. ASSUME NEW k \in 0 .. m PROVE f[k] = next(k)
    <3>1. CASE k < m
      <4>1. k \in 0 .. m - 1 /\ f[k] = e[k]
        BY <1>2, <3>1
      <4>2. e[k] = IF k = 0 THEN <<>> ELSE Renamed(e[k - 1], ids[k], r)
        BY <2>2, <4>1 DEF Renamings
      <4>3. k # 0 => f[k - 1] = e[k - 1]
        BY <1>2, <3>1
      <4> HIDE DEF f
      <4> QED
        BY <4>1, <4>2, <4>3
    <3>2. CASE ~ (k < m)
      <4>1. k = m /\ f[m] = Renamed(e[m - 1], ids[m], r) /\ f[m - 1] = e[m - 1]
        BY <1>2, <1>4, <3>2
      <4> HIDE DEF f
      <4> QED
        BY <1>4, <4>1
    <3> QED
      BY <3>1, <3>2
  <2>4. f = [k \in 0 .. m |-> f[k]]
    OBVIOUS
  <2> HIDE DEF f
  <2>5. Renamings(ids, r, m, f)
    BY <2>3, <2>4, Zenon DEF Renamings
  <2> QED
    BY <1>2, <2>5
<1> QED
  BY <1>3, <1>4

\* What is renamed so far is made of the content's elements and of what is
\* renamed so far.
Renames(made, ids, n, r) ==
  /\ DOMAIN made = {ids[i] : i \in 1 .. n}
  /\ MadeOf(Range(made), r)

\* One invention more keeps it so.
LEMMA RenamedFine ==
  ASSUME NEW r \in Revisions, NEW s \in Revisions, NEW ids, MadeOf(Range(ids), s),
         NEW n \in Nat \ {0}, n \in DOMAIN ids,
         NEW made, Renames(made, ids, n - 1, r),
         Renamed(made, ids[n], r) # None
  PROVE  Renames(Renamed(made, ids[n], r), ids, n, r)
<1> DEFINE id == ids[n]
           parents == {Reference(p, made, r) : p \in id.of}
           new == Made(parents)
           next == Put(made, id, new)
<1>1. id \in Range(ids) /\ id.of # {} /\ id.of \subseteq Plain(s) \cup Range(ids)
  BY DEF MadeOf, Range
<1>2. {ids[i] : i \in 1 .. n} = {ids[i] : i \in 1 .. n - 1} \cup {id}
  OBVIOUS
<1>3. made # None
  BY DEF Renamed
<1>4. CASE id \in DOMAIN made
  <2>1. Renamed(made, id, r) = made
    BY <1>4 DEF Renamed
  <2> QED
    BY <1>2, <1>4, <2>1 DEF Renames
<1>5. CASE id \notin DOMAIN made
  <2>1. Renamed(made, id, r) = next /\ None \notin parents
    BY <1>3, <1>5 DEF Renamed
  <2>2. parents \subseteq Plain(r) \cup Range(made)
    <3> SUFFICES ASSUME NEW p \in id.of PROVE Reference(p, made, r) \in Plain(r) \cup Range(made)
      OBVIOUS
    <3>1. Reference(p, made, r) # None
      BY <2>1
    <3>2. CASE p \in DOMAIN made
      BY <3>2 DEF Reference, Range
    <3>3. CASE p \notin DOMAIN made
      <4>1. p.of = {} /\ Reference(p, made, r) = Named(Current("discovery", p.name, r))
            /\ Current("discovery", p.name, r) # None
        BY <3>1, <3>3 DEF Reference
      <4>2. p \notin Range(ids)
        BY <4>1 DEF MadeOf
      <4>3. p.name \in Vocabulary("discovery", s)
        <5>1. PICK e \in Contents[s].elements : p = Named(e)
          BY <1>1, <4>2 DEF Plain
        <5>2. p.name = e
          BY <5>1 DEF Named
        <5> QED
          BY <5>2, NameFacts
      <4>4. Current("discovery", p.name, r) \in Vocabulary("discovery", r)
        BY <4>1, <4>3, NamesResolve DEF Kinds
      <4> QED
        BY <4>1, <4>4, NameFacts DEF Plain
    <3> QED
      BY <3>2, <3>3
  <2>3. parents # {}
    BY <1>1
  <2>4. DOMAIN next = DOMAIN made \cup {id} /\ Range(next) = Range(made) \cup {new}
    <3> HIDE DEF new
    <3>1. /\ DOMAIN next = DOMAIN made \cup {id} /\ next[id] = new
          /\ \A z \in DOMAIN made : next[z] = made[z]
      BY <1>5 DEF Put
    <3> HIDE DEF next
    <3> QED
      BY <3>1 DEF Range
  <2>5. new.of = parents /\ new = Made(new.of)
    BY NameFacts
  <2> HIDE DEF new, next, parents
  <2>6. MadeOf(Range(next), r)
    BY <2>2, <2>3, <2>4, <2>5 DEF MadeOf, Renames
  <2> QED
    BY <1>2, <2>1, <2>4, <2>6 DEF Renames
<1> QED
  BY <1>4, <1>5

\* migrateImprovisedElements(): what it renames is all there was, and of the new
\* content.
LEMMA AliasesFine ==
  ASSUME NEW r \in Revisions, NEW s \in Revisions, NEW ids, ids \in Seq(Range(ids)),
         MadeOf(Range(ids), s), MadeAliases(ids, r) # None
  PROVE  /\ DOMAIN MadeAliases(ids, r) = Range(ids)
         /\ MadeOf(Range(MadeAliases(ids, r)), r)
<1> DEFINE n == Len(ids)
           f == CHOOSE f : Renamings(ids, r, n, f)
<1>1. n \in Nat /\ DOMAIN ids = 1 .. n
  OBVIOUS
<1>2. MadeAliases(ids, r) = f[n]
  BY DEF MadeAliases, Renamings
<1>3. Renamings(ids, r, n, f)
  BY <1>1, RenamingsExist
<1> HIDE DEF f, n
<1> DEFINE P == {k \in 0 .. n : f[k] # None /\ ~ Renames(f[k], ids, k, r)}
<1>4. P = {}
  <2> SUFFICES ASSUME P # {} PROVE FALSE
    OBVIOUS
  <2>1. PICK k \in P : \A j \in P : k <= j
    <3>1. P \in SUBSET Nat
      BY <1>1
    <3> HIDE DEF P
    <3> QED
      BY <3>1, SmallestNumber
  <2>2. k \in 0 .. n /\ f[k] # None /\ ~ Renames(f[k], ids, k, r)
    OBVIOUS
  <2>3. f[k] = IF k = 0 THEN <<>> ELSE Renamed(f[k - 1], ids[k], r)
    BY <1>3, <2>2 DEF Renamings
  <2>4. CASE k = 0
    <3>1. f[k] = <<>> /\ DOMAIN f[k] = {} /\ Range(f[k]) = {} /\ {ids[i] : i \in 1 .. 0} = {}
      BY <2>3, <2>4 DEF Range
    <3> QED
      BY <2>2, <2>4, <3>1 DEF Renames, MadeOf
  <2>5. CASE k # 0
    <3>1. k \in Nat \ {0} /\ k \in DOMAIN ids /\ k - 1 \in 0 .. n /\ k - 1 \notin P
      BY <1>1, <2>1, <2>2, <2>5
    <3>2. f[k] = Renamed(f[k - 1], ids[k], r)
      BY <2>3, <2>5
    <3>3. f[k - 1] # None
      BY <2>2, <3>2 DEF Renamed
    <3>4. Renames(f[k - 1], ids, k - 1, r)
      BY <3>1, <3>3
    <3> QED
      BY <2>2, <3>1, <3>2, <3>4, RenamedFine
  <2> QED
    BY <2>4, <2>5
<1>5. Renames(f[n], ids, n, r)
  BY <1>1, <1>2, <1>4
<1>6. Range(ids) = {ids[i] : i \in 1 .. n}
  BY <1>1 DEF Range
<1> QED
  BY <1>2, <1>5, <1>6 DEF Renames

-----------------------------------------------------------------------------
(* Games and the compendium across a revision. *)

IsGame(game) ==
  DOMAIN game = {"rev", "legacy", "discovered", "made", "strange", "branches", "ended", "turns"}

\* A game of revision r, with nothing of another one unless it came without a plan.
Settled(game, r) ==
  /\ IsGame(game)
  /\ game.rev = r
  /\ ~ game.legacy => GameCurrent(game, r) /\ game.made \in Seq(Range(game.made))

\* What is assumed of a revision, by the lists of its names.
LEMMA RevisionFacts ==
  ASSUME NEW r \in Revisions
  PROVE  /\ r # 0 /\ r \in Nat
         /\ Contents[r].base \subseteq Contents[r].elements
         /\ "" \notin Contents[r].elements
         /\ None \notin Contents[r].elements
         /\ None \notin DOMAIN Contents[r].branches
         /\ None \notin Contents[r].endings
<1>1. None \notin Vocabulary("discovery", r) /\ None \notin Vocabulary("branch", r)
      /\ None \notin Vocabulary("ending", r)
  BY ContentsAssumption DEF Kinds
<1> QED
  BY <1>1, ContentsAssumption, NameFacts

LEMMA PlainHasNames ==
  ASSUME NEW r \in Revisions, NEW id \in Plain(r)
  PROVE  id = Named(id.name) /\ id.name \in Contents[r].elements /\ id.of = {}
<1>1. PICK e \in Contents[r].elements : id = Named(e)
  BY DEF Plain
<1> QED
  BY <1>1 DEF Named

LEMMA MadeHasNoName ==
  ASSUME NEW r, NEW ids, MadeOf(ids, r), NEW id \in ids
  PROVE  id.name = "" /\ id.of # {}
<1>1. id = Made(id.of) /\ id.of # {}
  BY DEF MadeOf
<1> QED
  BY <1>1, NameFacts

LEMMA FreshSettled == ASSUME NEW r \in Revisions PROVE Settled(FreshGame(r), r)
<1> DEFINE game == FreshGame(r)
<1>1. /\ IsGame(game) /\ game.rev = r /\ game.made = <<>> /\ game.branches = {}
      /\ game.ended = None /\ game.discovered = {Named(e) : e \in Contents[r].base}
  BY DEF FreshGame, IsGame
<1>0. game = FreshGame(r)
  OBVIOUS
<1>2. Range(<<>>) = {} /\ <<>> \in Seq({})
  BY DEF Range
<1>3. game.discovered \subseteq Plain(r)
  BY <1>1, RevisionFacts DEF Plain
<1> HIDE DEF game
<1>4. Range(game.made) = {} /\ game.made \in Seq(Range(game.made))
  BY <1>1, <1>2
<1>5. GameCurrent(game, r)
  BY <1>1, <1>3, <1>4 DEF GameCurrent, MadeOf
<1> QED
  BY <1>0, <1>1, <1>4, <1>5 DEF Settled

\* remapGameState(), of a game whose plan is known.
LEMMA RemappedCurrent ==
  ASSUME NEW r \in Revisions, NEW s \in Revisions, NEW game, IsGame(game), GameCurrent(game, s),
         NEW made, DOMAIN made = Range(game.made), MadeOf(Range(made), r),
         game.made \in Seq(Range(game.made)), RemappedGame(game, made, r) # None
  PROVE  LET moved == RemappedGame(game, made, r) IN
         GameCurrent(moved, r) /\ moved.made \in Seq(Range(moved.made))
<1> DEFINE discovered == {Reference(id, made, r) : id \in game.discovered}
           branches == {Current("branch", b, r) : b \in game.branches}
           ended == IF game.ended = None THEN None ELSE Current("ending", game.ended, r)
           renamed == [i \in DOMAIN game.made |-> made[game.made[i]]]
           strange == Range(made) \cap Contents[r].estranged
           moved == [game EXCEPT !.rev = r, !.discovered = discovered, !.branches = branches,
                                 !.ended = ended, !.made = renamed, !.strange = strange]
<1>1. /\ RemappedGame(game, made, r) = moved
      /\ None \notin discovered /\ None \notin branches
      /\ ~ (game.ended # None /\ ended = None)
  BY DEF RemappedGame
<1>2. discovered \subseteq Plain(r) \cup Range(made)
  <2> SUFFICES ASSUME NEW id \in game.discovered
               PROVE  Reference(id, made, r) \in Plain(r) \cup Range(made)
    OBVIOUS
  <2>1. Reference(id, made, r) # None
    BY <1>1
  <2>2. CASE id \in DOMAIN made
    BY <2>2 DEF Reference, Range
  <2>3. CASE id \notin DOMAIN made
    <3>1. id \in Plain(s)
      BY <2>3 DEF GameCurrent
    <3>2. id.name \in Vocabulary("discovery", s)
      BY <3>1, PlainHasNames, NameFacts
    <3>3. Current("discovery", id.name, r) # None
          /\ Reference(id, made, r) = Named(Current("discovery", id.name, r))
      BY <2>1, <2>3 DEF Reference
    <3>4. Current("discovery", id.name, r) \in Contents[r].elements
      BY <3>2, <3>3, NamesResolve, NameFacts DEF Kinds
    <3> QED
      BY <3>3, <3>4 DEF Plain
  <2> QED
    BY <2>2, <2>3
<1>3. branches \subseteq DOMAIN Contents[r].branches
  <2> SUFFICES ASSUME NEW b \in game.branches
               PROVE  Current("branch", b, r) \in DOMAIN Contents[r].branches
    OBVIOUS
  <2>1. Current("branch", b, r) # None
    BY <1>1
  <2>2. b \in Vocabulary("branch", s)
    BY NameFacts DEF GameCurrent
  <2> QED
    BY <2>1, <2>2, NamesResolve, NameFacts DEF Kinds
<1>4. ended \in Contents[r].endings \cup {None}
  <2>1. CASE game.ended = None
    BY <2>1
  <2>2. CASE game.ended # None
    <3>1. game.ended \in Vocabulary("ending", s)
      BY <2>2, NameFacts DEF GameCurrent
    <3> QED
      BY <2>2, <3>1, NamesResolve, NameFacts DEF Kinds
  <2> QED
    BY <2>1, <2>2
<1>5. Range(renamed) = Range(made) /\ renamed \in Seq(Range(renamed))
  <2> DEFINE n == Len(game.made)
  <2>1. n \in Nat /\ DOMAIN game.made = 1 .. n
    OBVIOUS
  <2>2. DOMAIN renamed = 1 .. n /\ \A i \in 1 .. n : renamed[i] = made[game.made[i]]
    BY <2>1
  <2>3. Range(made) = {made[id] : id \in Range(game.made)}
    BY DEF Range
  <2>4. Range(renamed) = {renamed[i] : i \in 1 .. n} /\ Range(game.made) = {game.made[i] : i \in 1 .. n}
    BY <2>1, <2>2 DEF Range
  <2>5. Range(renamed) = Range(made)
    <3> HIDE DEF renamed, n
    <3>1. ASSUME NEW y \in Range(renamed) PROVE y \in Range(made)
      BY <2>2, <2>3, <2>4
    <3>2. ASSUME NEW y \in Range(made) PROVE y \in Range(renamed)
      <4>1. PICK id \in Range(game.made) : y = made[id]
        BY <2>3
      <4>2. PICK i \in 1 .. n : id = game.made[i]
        BY <2>4
      <4> QED
        BY <2>2, <2>4, <4>1, <4>2
    <3> QED
      BY <3>1, <3>2
  <2>6. renamed = [i \in 1 .. n |-> renamed[i]]
    BY <2>1
  <2> HIDE DEF renamed, n
  <2>7. \A i \in 1 .. n : renamed[i] \in Range(renamed)
    BY <2>4
  <2>8. renamed \in [1 .. n -> Range(renamed)]
    BY <2>6, <2>7
  <2> QED
    BY <2>1, <2>5, <2>8
<1> HIDE DEF discovered, branches, ended, renamed, strange
<1>6. /\ moved.rev = r /\ moved.discovered = discovered /\ moved.branches = branches
      /\ moved.ended = ended /\ moved.made = renamed
  BY DEF IsGame
<1> HIDE DEF moved
<1> QED
  BY <1>1, <1>2, <1>3, <1>4, <1>5, <1>6 DEF GameCurrent

\* migrateGameStateToCurrentContent(): what it gives is of the new content.
LEMMA MigratedSettled ==
  ASSUME NEW r \in Revisions, NEW game, game.rev \in Revisions, Settled(game, game.rev),
         MigratedGame(game, r) # None
  PROVE  /\ Settled(MigratedGame(game, r), r)
         /\ MigratedGame(game, r).legacy = game.legacy
<1> DEFINE made == MadeAliases(game.made, r)
           moved == RemappedGame(game, made, r)
<1>1. CASE game.rev = r
  <2>1. MigratedGame(game, r) = game
    BY <1>1 DEF MigratedGame
  <2> QED
    BY <1>1, <2>1
<1>2. CASE game.rev # r
  <2>1. MigratedGame(game, r) = moved /\ made # None
    <3>1. MigratedGame(game, r) = moved
      BY <1>2, RevisionFacts DEF MigratedGame
    <3> HIDE DEF made
    <3> QED
      BY <3>1 DEF RemappedGame
  <2>2. IsGame(moved) /\ moved.rev = r /\ moved.legacy = game.legacy
    <3> HIDE DEF made
    <3>1. moved # None
      BY <2>1
    <3> QED
      BY <3>1 DEF RemappedGame, IsGame, Settled
  <2>3. ASSUME ~ game.legacy
        PROVE  GameCurrent(moved, r) /\ moved.made \in Seq(Range(moved.made))
    <3>1. GameCurrent(game, game.rev) /\ game.made \in Seq(Range(game.made)) /\ IsGame(game)
      BY <2>3 DEF Settled
    <3>2. DOMAIN made = Range(game.made) /\ MadeOf(Range(made), r)
      BY <2>1, <3>1, AliasesFine DEF GameCurrent
    <3> HIDE DEF made
    <3> QED
      BY <2>1, <3>1, <3>2, RemappedCurrent
  <2> HIDE DEF moved
  <2> QED
    BY <2>1, <2>2, <2>3 DEF Settled
<1> QED
  BY <1>1, <1>2

\* What the manifest of a revision counts.
LEMMA ManifestNames ==
  ASSUME NEW r, NEW e \in Manifest(r)
  PROVE  /\ e = Entry(e.kind, e.name)
         /\ e.kind = "discovery" => e.name \in Contents[r].elements \ Contents[r].base
         /\ e.kind = "branch" => e.name \in DOMAIN Contents[r].branches
         /\ e.kind = "ending" => e.name \in Contents[r].endings
         /\ e.kind \in Kinds
<1>1. CASE \E n \in Contents[r].elements \ Contents[r].base : e = Entry("discovery", n)
  BY <1>1 DEF Entry, Kinds
<1>2. CASE \E n \in DOMAIN Contents[r].branches : e = Entry("branch", n)
  BY <1>2 DEF Entry, Kinds
<1>3. CASE \E n \in Contents[r].endings : e = Entry("ending", n)
  BY <1>3 DEF Entry, Kinds
<1> QED
  BY <1>1, <1>2, <1>3 DEF Manifest

\* What an archived life has reached before, it has reached after, under the names
\* of the new content.
LEMMA ReachedMoves ==
  ASSUME NEW r \in Revisions, NEW s \in Revisions, Supported(s, r),
         NEW game, IsGame(game), GameCurrent(game, s),
         NEW made, MadeOf(Range(made), r), RemappedGame(game, made, r) # None,
         NEW ending \in Contents[s].endings \cup {None}, NEW next,
         next = IF ending = None THEN None ELSE Current("ending", ending, r)
  PROVE  Reached(RemappedGame(game, made, r), next, r)
           \subseteq {MigratedEntry(e, r) : e \in Reached(game, ending, s)}
<1> DEFINE moved == RemappedGame(game, made, r)
<1>1. /\ moved.discovered = {Reference(id, made, r) : id \in game.discovered}
      /\ moved.branches = {Current("branch", b, r) : b \in game.branches}
      /\ None \notin moved.discovered
  <2> DEFINE discovered == {Reference(id, made, r) : id \in game.discovered}
             branches == {Current("branch", b, r) : b \in game.branches}
             ended == IF game.ended = None THEN None ELSE Current("ending", game.ended, r)
             renamed == [i \in DOMAIN game.made |-> made[game.made[i]]]
             strange == Range(made) \cap Contents[r].estranged
  <2>1. moved = [game EXCEPT !.rev = r, !.discovered = discovered, !.branches = branches,
                             !.ended = ended, !.made = renamed, !.strange = strange]
        /\ None \notin discovered
    BY DEF RemappedGame
  <2> HIDE DEF discovered, branches, ended, renamed, strange, moved
  <2>2. moved.discovered = discovered /\ moved.branches = branches
    BY <2>1 DEF IsGame
  <2> QED
    BY <2>1, <2>2 DEF discovered, branches
<1> HIDE DEF moved
<1> SUFFICES ASSUME NEW e \in Reached(moved, next, r)
             PROVE  \E d \in Reached(game, ending, s) : e = MigratedEntry(d, r)
  BY DEF moved
<1>2. e \in Manifest(r)
  BY DEF Reached
<1>3. \/ \E id \in moved.discovered : e = Entry("discovery", id.name)
      \/ \E b \in moved.branches : e = Entry("branch", b)
      \/ e = Entry("ending", next)
  BY DEF Reached
<1>4. \A kind, name : Entry(kind, name).kind = kind /\ Entry(kind, name).name = name
  BY DEF Entry
<1>5. CASE \E id \in moved.discovered : e = Entry("discovery", id.name)
  <2>1. PICK id \in game.discovered : /\ Reference(id, made, r) # None
                                      /\ e = Entry("discovery", Reference(id, made, r).name)
    BY <1>1, <1>5
  <2> DEFINE name == Reference(id, made, r).name
  <2>2. name \in Contents[r].elements /\ name \notin Contents[r].base
    BY <1>2, <1>4, <2>1, ManifestNames
  <2>3. id \notin DOMAIN made
    <3> SUFFICES ASSUME id \in DOMAIN made PROVE FALSE
      OBVIOUS
    <3>1. Reference(id, made, r) \in Range(made)
      BY DEF Reference, Range
    <3> QED
      BY <2>2, <3>1, MadeHasNoName, RevisionFacts
  <2>4. id.of = {} /\ name = Current("discovery", id.name, r) /\ name # None
    BY <2>1, <2>3, NameFacts DEF Reference
  <2>5. id \in Plain(s)
    <3> SUFFICES ASSUME id \in Range(game.made) PROVE FALSE
      BY DEF GameCurrent
    <3> QED
      BY <2>4, MadeHasNoName DEF GameCurrent
  <2>6. id.name \in Contents[s].elements
    BY <2>5, PlainHasNames
  <2>7. id.name \notin Contents[s].base
    BY <2>2, <2>4, BaseAssumption DEF Supported
  <2> DEFINE d == Entry("discovery", id.name)
  <2>8. d \in Reached(game, ending, s)
    BY <2>6, <2>7 DEF Reached, Manifest
  <2>9. MigratedEntry(d, r) = e
    BY <1>4, <2>1, <2>4 DEF MigratedEntry
  <2> QED
    BY <2>8, <2>9
<1>6. CASE \E b \in moved.branches : e = Entry("branch", b)
  <2>1. PICK b \in game.branches : e = Entry("branch", Current("branch", b, r))
    BY <1>1, <1>6
  <2>2. Current("branch", b, r) # None
    <3>1. e.kind = "branch" /\ e.name = Current("branch", b, r)
      BY <1>4, <2>1
    <3>2. e.name \in DOMAIN Contents[r].branches
      BY <1>2, <3>1, ManifestNames
    <3> QED
      BY <3>1, <3>2, RevisionFacts
  <2> DEFINE d == Entry("branch", b)
  <2>3. d \in Reached(game, ending, s)
    BY DEF Reached, Manifest, GameCurrent
  <2>4. MigratedEntry(d, r) = e
    BY <1>4, <2>1, <2>2 DEF MigratedEntry
  <2> QED
    BY <2>3, <2>4
<1>7. CASE e = Entry("ending", next)
  <2>1. next # None
    <3>1. e.kind = "ending" /\ e.name = next
      BY <1>4, <1>7
    <3>2. e.name \in Contents[r].endings
      BY <1>2, <3>1, ManifestNames
    <3> QED
      BY <3>1, <3>2, RevisionFacts
  <2>2. ending \in Contents[s].endings /\ next = Current("ending", ending, r)
    BY <2>1
  <2> DEFINE d == Entry("ending", ending)
  <2>3. d \in Reached(game, ending, s)
    BY <2>2 DEF Reached, Manifest
  <2>4. MigratedEntry(d, r) = e
    BY <1>4, <1>7, <2>1, <2>2 DEF MigratedEntry
  <2> QED
    BY <2>3, <2>4
<1> QED
  BY <1>3, <1>5, <1>6, <1>7

-----------------------------------------------------------------------------
(* The compendium. *)

\* An entry of the compendium names something of revision r.
IsEntry(e, r) == e = Entry(e.kind, e.name) /\ e.kind \in Kinds /\ e.name \in Vocabulary(e.kind, r)

\* The compendium refers to what is of revision r.
CompendiumFine(c, r) ==
  /\ DOMAIN c = {"unlocks", "gallery"}
  /\ \A u \in c.unlocks : DOMAIN u = {"entry", "life"} /\ u.life \in Nat
  /\ \A e \in Unlocked(c) : IsEntry(e, r)
  /\ c.gallery \in Seq(Range(c.gallery))
  /\ \A g \in Range(c.gallery) : DOMAIN g = {"id", "life"}
  /\ MadeOf({g.id : g \in Range(c.gallery)}, r)

LEMMA FreshCompendiumFine == ASSUME NEW r PROVE CompendiumFine(FreshCompendium, r)
<1> DEFINE c == FreshCompendium
<1>1. DOMAIN c = {"unlocks", "gallery"} /\ c.unlocks = {} /\ c.gallery = <<>>
  BY DEF FreshCompendium
<1>2. Range(c.gallery) = {} /\ c.gallery \in Seq(Range(c.gallery))
  <2>1. Range(<<>>) = {} /\ <<>> \in Seq({})
    BY DEF Range
  <2> HIDE DEF c
  <2> QED
    BY <1>1, <2>1
<1>3. Unlocked(c) = {} /\ {g.id : g \in Range(c.gallery)} = {}
  <2> HIDE DEF c
  <2> QED
    BY <1>1, <1>2 DEF Unlocked
<1>4. c = FreshCompendium
  OBVIOUS
<1> HIDE DEF c
<1> QED
  BY <1>1, <1>2, <1>3, <1>4 DEF CompendiumFine, MadeOf

\* Of the entries that become one, the oldest is there.
LEMMA MergedKeeps ==
  ASSUME NEW unlocks, \A u \in unlocks : u.life \in Nat
  PROVE  /\ Merged(unlocks) \subseteq unlocks
         /\ {u.entry : u \in Merged(unlocks)} = {u.entry : u \in unlocks}
<1>1. Merged(unlocks) \subseteq unlocks
  BY DEF Merged
<1>2. ASSUME NEW u \in unlocks PROVE \E w \in Merged(unlocks) : w.entry = u.entry
  <2> DEFINE L == {w.life : w \in {x \in unlocks : x.entry = u.entry}}
  <2>1. L \in SUBSET Nat /\ L # {}
    OBVIOUS
  <2> HIDE DEF L
  <2>2. PICK n \in L : \A m \in L : n <= m
    BY <2>1, SmallestNumber
  <2> USE DEF L
  <2>3. PICK w \in unlocks : w.entry = u.entry /\ w.life = n
    OBVIOUS
  <2>4. w \in Merged(unlocks)
    BY <2>2, <2>3 DEF Merged
  <2> QED
    BY <2>3, <2>4
<1> QED
  BY <1>1, <1>2

\* An entry of one revision is one of the next, under its name there.
LEMMA EntriesMove ==
  ASSUME NEW r \in Revisions, NEW s \in Revisions, NEW e, IsEntry(e, s), MigratedEntry(e, r) # None
  PROVE  IsEntry(MigratedEntry(e, r), r)
<1> DEFINE name == Current(e.kind, e.name, r)
<1>1. name # None /\ MigratedEntry(e, r) = Entry(e.kind, name)
  BY DEF MigratedEntry
<1>2. name \in Vocabulary(e.kind, r) \cup {None}
  BY NamesResolve DEF IsEntry
<1> HIDE DEF name
<1>3. Entry(e.kind, name).kind = e.kind /\ Entry(e.kind, name).name = name
  BY DEF Entry
<1> QED
  BY <1>1, <1>2, <1>3 DEF IsEntry

LEMMA ManifestEntries == ASSUME NEW r, NEW e \in Manifest(r) PROVE IsEntry(e, r)
<1>1. e = Entry(e.kind, e.name) /\ e.kind \in Kinds
  BY ManifestNames
<1>2. e.name \in Vocabulary(e.kind, r)
  <2>1. CASE e.kind = "discovery"
    <3>1. e.name \in Contents[r].elements
      BY <2>1, ManifestNames
    <3>2. e.name \in Vocabulary("discovery", r)
      BY <3>1, NameFacts
    <3> QED
      BY <2>1, <3>2
  <2>2. CASE e.kind = "branch"
    <3>1. e.name \in DOMAIN Contents[r].branches
      BY <2>2, ManifestNames
    <3>2. e.name \in Vocabulary("branch", r)
      BY <3>1, NameFacts
    <3> QED
      BY <2>2, <3>2
  <2>3. CASE e.kind = "ending"
    <3>1. e.name \in Contents[r].endings
      BY <2>3, ManifestNames
    <3>2. e.name \in Vocabulary("ending", r)
      BY <3>1, NameFacts
    <3> QED
      BY <2>3, <3>2
  <2> QED
    BY <1>1, <2>1, <2>2, <2>3 DEF Kinds
<1> QED
  BY <1>1, <1>2 DEF IsEntry

\* migrateCompendium(): every entry is taken over, and the gallery too.
LEMMA CompendiumMoves ==
  ASSUME NEW r \in Revisions, NEW s \in Revisions, Supported(s, r),
         NEW c, CompendiumFine(c, s), MigratedCompendium(c, r) # None
  PROVE  /\ CompendiumFine(MigratedCompendium(c, r), r)
         /\ Unlocked(MigratedCompendium(c, r)) = {MigratedEntry(e, r) : e \in Unlocked(c)}
<1> DEFINE ids == [i \in DOMAIN c.gallery |-> c.gallery[i].id]
           made == MadeAliases(ids, r)
           moved == {[u EXCEPT !.entry = MigratedEntry(@, r)] : u \in c.unlocks}
           gallery == MigratedGallery(c.gallery, made)
           next == CompendiumOf(c, made, r)
           n == Len(c.gallery)
<1>1. MigratedCompendium(c, r) = next
  BY DEF MigratedCompendium, GalleryAliases
<1>2. /\ made # None /\ next = [unlocks |-> Merged(moved), gallery |-> gallery]
      /\ \A u \in c.unlocks : MigratedEntry(u.entry, r) # None
  <2> HIDE DEF made
  <2> QED
    BY <1>1 DEF CompendiumOf
<1>3. n \in Nat /\ DOMAIN c.gallery = 1 .. n /\ c.gallery \in Seq(Range(c.gallery))
  BY DEF CompendiumFine
<1>4. /\ \A i \in 1 .. n : ids[i] = c.gallery[i].id
      /\ DOMAIN ids = 1 .. n
      /\ Range(c.gallery) = {c.gallery[i] : i \in 1 .. n}
      /\ Range(ids) = {ids[i] : i \in 1 .. n}
  BY <1>3 DEF Range
<1>5. Range(ids) = {g.id : g \in Range(c.gallery)}
  <2> HIDE DEF ids, n
  <2>1. ASSUME NEW y \in Range(ids) PROVE y \in {g.id : g \in Range(c.gallery)}
    BY <1>4
  <2>2. ASSUME NEW g \in Range(c.gallery) PROVE g.id \in Range(ids)
    <3>1. PICK i \in 1 .. n : g = c.gallery[i]
      BY <1>4
    <3> QED
      BY <1>4, <3>1
  <2> QED
    BY <2>1, <2>2
<1>6. ids \in Seq(Range(ids))
  <2>1. ids = [i \in 1 .. n |-> ids[i]]
    BY <1>3
  <2> HIDE DEF ids, n
  <2> QED
    BY <1>3, <1>4, <2>1
<1>7. DOMAIN made = Range(ids) /\ MadeOf(Range(made), r)
  <2>1. MadeOf(Range(ids), s)
    BY <1>5 DEF CompendiumFine
  <2> HIDE DEF ids
  <2> QED
    BY <1>2, <1>6, <2>1, AliasesFine
<1> HIDE DEF made
<1>8. /\ DOMAIN gallery = 1 .. n
      /\ \A i \in 1 .. n : DOMAIN gallery[i] = {"id", "life"} /\ gallery[i].id = made[ids[i]]
  <2>1. \A i \in 1 .. n : DOMAIN c.gallery[i] = {"id", "life"}
    BY <1>4 DEF CompendiumFine
  <2> QED
    BY <1>3, <2>1 DEF MigratedGallery
<1>9. gallery \in Seq(Range(gallery)) /\ Range(gallery) = {gallery[i] : i \in 1 .. n}
  <2>1. gallery = [i \in 1 .. n |-> gallery[i]]
    BY <1>3 DEF MigratedGallery
  <2>2. Range(gallery) = {gallery[i] : i \in 1 .. n}
    BY <1>8 DEF Range
  <2> HIDE DEF gallery, n
  <2>3. gallery \in [1 .. n -> Range(gallery)]
    BY <2>1, <2>2
  <2> QED
    BY <1>3, <2>2, <2>3
<1>10. {g.id : g \in Range(gallery)} = Range(made)
  <2>1. Range(made) = {made[id] : id \in Range(ids)}
    BY <1>7 DEF Range
  <2> HIDE DEF gallery, n, ids
  <2>2. ASSUME NEW g \in Range(gallery) PROVE g.id \in Range(made)
    <3>1. PICK i \in 1 .. n : g = gallery[i]
      BY <1>9
    <3> QED
      BY <1>4, <1>8, <2>1, <3>1
  <2>3. ASSUME NEW y \in Range(made) PROVE y \in {g.id : g \in Range(gallery)}
    <3>1. PICK id \in Range(ids) : y = made[id]
      BY <2>1
    <3>2. PICK i \in 1 .. n : id = ids[i]
      BY <1>4
    <3> QED
      BY <1>8, <1>9, <3>1, <3>2
  <2> QED
    BY <2>2, <2>3
<1>11. /\ \A u \in moved : DOMAIN u = {"entry", "life"} /\ u.life \in Nat
       /\ {u.entry : u \in moved} = {MigratedEntry(e, r) : e \in Unlocked(c)}
  <2>1. \A u \in c.unlocks : DOMAIN u = {"entry", "life"} /\ u.life \in Nat
    BY DEF CompendiumFine
  <2>2. \A u \in c.unlocks : LET w == [u EXCEPT !.entry = MigratedEntry(@, r)] IN
          DOMAIN w = {"entry", "life"} /\ w.life \in Nat /\ w.entry = MigratedEntry(u.entry, r)
    BY <2>1
  <2> QED
    BY <2>2 DEF Unlocked
<1> HIDE DEF moved, gallery
<1>12. /\ Merged(moved) \subseteq moved
       /\ {u.entry : u \in Merged(moved)} = {MigratedEntry(e, r) : e \in Unlocked(c)}
  BY <1>11, MergedKeeps
<1>13. DOMAIN next = {"unlocks", "gallery"} /\ next.unlocks = Merged(moved) /\ next.gallery = gallery
  BY <1>2
<1> HIDE DEF next
<1>14. Unlocked(next) = {MigratedEntry(e, r) : e \in Unlocked(c)}
  BY <1>12, <1>13 DEF Unlocked
<1>15. \A e \in Unlocked(next) : IsEntry(e, r)
  <2> SUFFICES ASSUME NEW e \in Unlocked(c) PROVE IsEntry(MigratedEntry(e, r), r)
    BY <1>14
  <2>1. MigratedEntry(e, r) # None
    BY <1>2 DEF Unlocked
  <2>2. IsEntry(e, s)
    BY DEF CompendiumFine
  <2> QED
    BY <2>1, <2>2, EntriesMove
<1>16. ASSUME NEW g \in Range(gallery) PROVE DOMAIN g = {"id", "life"}
  <2>1. PICK i \in 1 .. n : g = gallery[i]
    BY <1>9
  <2> QED
    BY <1>8, <2>1
<1>17. MadeOf({g.id : g \in Range(gallery)}, r)
  BY <1>7, <1>10
<1>18. CompendiumFine(next, r)
  BY <1>9, <1>11, <1>12, <1>13, <1>15, <1>16, <1>17, Zenon DEF CompendiumFine
<1> QED
  BY <1>1, <1>14, <1>18

-----------------------------------------------------------------------------
(* Loading a game. *)

Keepings(game, r, n, f) ==
  f = [k \in 0 .. n |-> IF k = 0 THEN <<>> ELSE Kept(f[k - 1], game.made[k], game, r)]

\* So is that of EngineLoaded().
LEMMA KeepingsExist ==
  ASSUME NEW game, NEW r, NEW n \in Nat
  PROVE  \E f : Keepings(game, r, n, f)
<1> DEFINE P == {m \in Nat : ~ \E f : Keepings(game, r, m, f)}
<1> SUFFICES ASSUME P # {} PROVE FALSE
  OBVIOUS
<1>1. PICK m \in P : \A k \in P : m <= k
  <2>1. P \in SUBSET Nat
    OBVIOUS
  <2> HIDE DEF P
  <2> QED
    BY <2>1, SmallestNumber
<1>2. m \in Nat /\ ~ \E f : Keepings(game, r, m, f)
  OBVIOUS
<1>3. CASE m = 0
  <2> DEFINE f == [k \in 0 .. 0 |-> <<>>]
  <2>1. f = [k \in 0 .. 0 |-> IF k = 0 THEN <<>> ELSE Kept(f[k - 1], game.made[k], game, r)]
    OBVIOUS
  <2>2. Keepings(game, r, m, f)
    <3> HIDE DEF f
    <3> QED
      BY <1>3, <2>1 DEF Keepings
  <2> QED
    BY <1>2, <2>2
<1>4. CASE m # 0
  <2>1. m - 1 \in Nat /\ m - 1 \notin P
    BY <1>1, <1>2, <1>4
  <2>2. PICK e : Keepings(game, r, m - 1, e)
    BY <2>1
  <2> DEFINE f == [k \in 0 .. m |-> IF k < m THEN e[k] ELSE Kept(e[m - 1], game.made[m], game, r)]
             next(k) == IF k = 0 THEN <<>> ELSE Kept(f[k - 1], game.made[k], game, r)
  <2>3. ASSUME NEW k \in 0 .. m PROVE f[k] = next(k)
    <3>1. CASE k < m
      <4>1. k \in 0 .. m - 1 /\ f[k] = e[k]
        BY <1>2, <3>1
      <4>2. e[k] = IF k = 0 THEN <<>> ELSE Kept(e[k - 1], game.made[k], game, r)
        BY <2>2, <4>1 DEF Keepings
      <4>3. k # 0 => f[k - 1] = e[k - 1]
        BY <1>2, <3>1
      <4> HIDE DEF f
      <4> QED
        BY <4>1, <4>2, <4>3
    <3>2. CASE ~ (k < m)
      <4>1. k = m /\ f[m] = Kept(e[m - 1], game.made[m], game, r) /\ f[m - 1] = e[m - 1]
        BY <1>2, <1>4, <3>2
      <4> HIDE DEF f
      <4> QED
        BY <1>4, <4>1
    <3> QED
      BY <3>1, <3>2
  <2>4. f = [k \in 0 .. m |-> f[k]]
    OBVIOUS
  <2> HIDE DEF f
  <2>5. Keepings(game, r, m, f)
    BY <2>3, <2>4, Zenon DEF Keepings
  <2> QED
    BY <1>2, <2>5
<1> QED
  BY <1>3, <1>4

\* What is kept was there, and is made of the content and of what is kept.
Keeps(kept, game, r) ==
  /\ kept \in Seq(Range(kept))
  /\ Range(kept) \subseteq Range(game.made)
  /\ MadeOf(Range(kept), r)

LEMMA KeptFine ==
  ASSUME NEW r \in Revisions, NEW game, MadeOf(Range(game.made), r),
         NEW id \in Range(game.made), NEW kept, Keeps(kept, game, r)
  PROVE  Keeps(Kept(kept, id, game, r), game, r)
<1>1. CASE Kept(kept, id, game, r) = kept
  BY <1>1
<1>2. CASE Kept(kept, id, game, r) # kept
  <2>1. /\ Kept(kept, id, game, r) = Append(kept, id)
        /\ \A p \in id.of : p.name \in Contents[r].elements \/ p \in Range(kept)
    BY <1>2 DEF Kept
  <2>2. id = Made(id.of) /\ id.of # {} /\ id.of \subseteq Plain(r) \cup Range(game.made)
    BY DEF MadeOf
  <2>3. id.of \subseteq Plain(r) \cup Range(kept)
    <3> SUFFICES ASSUME NEW p \in id.of, p \in Range(game.made), p.name \in Contents[r].elements
                 PROVE  FALSE
      BY <2>1, <2>2
    <3> QED
      BY MadeHasNoName, RevisionFacts
  <2>4. /\ Range(Append(kept, id)) = Range(kept) \cup {id}
        /\ Append(kept, id) \in Seq(Range(Append(kept, id)))
    BY RangeOfAppend DEF Keeps
  <2>5. MadeOf(Range(Append(kept, id)), r)
    BY <2>2, <2>3, <2>4 DEF MadeOf, Keeps
  <2> QED
    BY <2>1, <2>4, <2>5 DEF Keeps
<1> QED
  BY <1>1, <1>2

LEMMA NothingKept == ASSUME NEW game, NEW r PROVE Keeps(<<>>, game, r)
<1>1. Range(<<>>) = {} /\ <<>> \in Seq({})
  BY DEF Range
<1> QED
  BY <1>1 DEF Keeps, MadeOf

\* Engine.loadState() leaves a game of this content whole.
LEMMA LoadedSettled ==
  ASSUME NEW r \in Revisions, NEW game, IsGame(game), game.rev \in {0, r},
         game.rev = r => Settled(game, r)
  PROVE  /\ Settled(EngineLoaded(game, r), r)
         /\ game.rev = 0 => EngineLoaded(game, r).legacy
         /\ game.rev = r => EngineLoaded(game, r).legacy = game.legacy
<1> DEFINE n == Len(game.made)
           f == CHOOSE f : Keepings(game, r, n, f)
           made == f[n]
           discovered == {id \in game.discovered :
                            id.name \in Contents[r].elements \/ id \in Range(made)}
           branches == game.branches \cap DOMAIN Contents[r].branches
           planned == Planned(game, r)
           loaded == EngineLoaded(game, r)
<1>1. /\ IsGame(planned) /\ planned.rev = r /\ planned.discovered = game.discovered
      /\ planned.branches = game.branches /\ planned.made = game.made
      /\ planned.ended = game.ended
      /\ game.rev = 0 => planned.legacy = TRUE
      /\ game.rev = r => planned.legacy = game.legacy
  BY RevisionFacts DEF Planned, IsGame
<1>2. loaded = [planned EXCEPT !.made = made, !.strange = {},
                               !.discovered = {id \in planned.discovered :
                                   id.name \in Contents[r].elements \/ id \in Range(made)},
                               !.branches = planned.branches \cap DOMAIN Contents[r].branches]
  BY DEF EngineLoaded, Keepings
<1>3. loaded = [planned EXCEPT !.made = made, !.strange = {}, !.discovered = discovered,
                               !.branches = branches]
  <2> HIDE DEF loaded, planned, made
  <2> QED
    BY <1>1, <1>2
<1> HIDE DEF made, discovered, branches, planned
<1>4. /\ IsGame(loaded) /\ loaded.rev = r /\ loaded.legacy = planned.legacy
      /\ loaded.made = made /\ loaded.discovered = discovered /\ loaded.branches = branches
      /\ loaded.ended = game.ended
  <2> HIDE DEF loaded
  <2> QED
    BY <1>1, <1>3 DEF IsGame
<1>5. ASSUME ~ loaded.legacy PROVE GameCurrent(loaded, r) /\ loaded.made \in Seq(Range(loaded.made))
  <2>1. game.rev = r /\ GameCurrent(game, r) /\ game.made \in Seq(Range(game.made))
    BY <1>1, <1>4, <1>5 DEF Settled
  <2>2. n \in Nat /\ DOMAIN game.made = 1 .. n
    BY <2>1
  <2>3. Keepings(game, r, n, f)
    <3>1. \E e : Keepings(game, r, n, e)
      BY <2>2, KeepingsExist
    <3> QED
      BY <3>1
  <2> HIDE DEF f, n
  <2> DEFINE P == {k \in 0 .. n : ~ Keeps(f[k], game, r)}
  <2>4. P = {}
    <3> SUFFICES ASSUME P # {} PROVE FALSE
      OBVIOUS
    <3>1. PICK k \in P : \A j \in P : k <= j
      <4>1. P \in SUBSET Nat
        BY <2>2
      <4> HIDE DEF P
      <4> QED
        BY <4>1, SmallestNumber
    <3>2. f[k] = IF k = 0 THEN <<>> ELSE Kept(f[k - 1], game.made[k], game, r)
      BY <2>3 DEF Keepings
    <3>3. CASE k = 0
      BY <3>2, <3>3, NothingKept
    <3>4. CASE k # 0
      <4>1. k \in 1 .. n /\ k - 1 \in 0 .. n /\ k - 1 \notin P
        BY <2>2, <3>1, <3>4
      <4>2. game.made[k] \in Range(game.made)
        BY <2>2, <4>1 DEF Range
      <4>3. Keeps(f[k - 1], game, r)
        BY <4>1
      <4> QED
        BY <2>1, <3>2, <3>4, <4>2, <4>3, KeptFine DEF GameCurrent
    <3> QED
      BY <3>3, <3>4
  <2>5. Keeps(made, game, r)
    BY <2>2, <2>4 DEF made
  <2>6. discovered \subseteq Plain(r) \cup Range(made)
    <3> SUFFICES ASSUME NEW id \in game.discovered, id.name \in Contents[r].elements
                 PROVE  id \in Plain(r)
      BY DEF discovered
    <3>1. id \notin Range(game.made)
      BY <2>1, MadeHasNoName, RevisionFacts DEF GameCurrent
    <3> QED
      BY <2>1, <3>1 DEF GameCurrent
  <2>7. branches \subseteq DOMAIN Contents[r].branches
    BY DEF branches
  <2> QED
    BY <1>4, <2>1, <2>5, <2>6, <2>7 DEF Keeps, GameCurrent
<1> HIDE DEF loaded
<1>6. Settled(loaded, r)
  BY <1>4, <1>5 DEF Settled
<1> QED
  BY <1>1, <1>4, <1>6 DEF loaded

-----------------------------------------------------------------------------
(* A turn and an ending in the compendium. *)

\* applyCompletionUnlocks(): the compendium gains the entries, and loses none.
LEMMA UnlocksFine ==
  ASSUME NEW r, NEW c, CompendiumFine(c, r), NEW life \in Nat, NEW entries \in SUBSET Manifest(r)
  PROVE  LET next == WithUnlocks(c, entries, life) IN
         /\ CompendiumFine(next, r)
         /\ Unlocked(next) = Unlocked(c) \cup entries
         /\ next.gallery = c.gallery
<1> DEFINE new == {[entry |-> e, life |-> life] : e \in entries \ Unlocked(c)}
           next == WithUnlocks(c, entries, life)
<1>1. /\ \A u \in new : DOMAIN u = {"entry", "life"} /\ u.life \in Nat
      /\ {u.entry : u \in new} = entries \ Unlocked(c)
  <2> DEFINE unlock(e) == [entry |-> e, life |-> life]
             fresh == entries \ Unlocked(c)
  <2>1. \A e : DOMAIN unlock(e) = {"entry", "life"} /\ unlock(e).life = life /\ unlock(e).entry = e
    OBVIOUS
  <2>2. new = {unlock(e) : e \in fresh}
    OBVIOUS
  <2> HIDE DEF unlock, fresh, new
  <2>3. ASSUME NEW u \in new PROVE DOMAIN u = {"entry", "life"} /\ u.life \in Nat /\ u.entry \in fresh
    BY <2>1, <2>2
  <2>4. ASSUME NEW e \in fresh PROVE \E u \in new : u.entry = e
    BY <2>1, <2>2
  <2>5. {u.entry : u \in new} = fresh
    BY <2>3, <2>4
  <2> QED
    BY <2>3, <2>5 DEF fresh
<1>2. next = [c EXCEPT !.unlocks = c.unlocks \cup new]
  BY DEF WithUnlocks
<1> HIDE DEF new, next
<1>3. DOMAIN next = DOMAIN c /\ next.unlocks = c.unlocks \cup new /\ next.gallery = c.gallery
  BY <1>2 DEF CompendiumFine
<1>4. Unlocked(next) = Unlocked(c) \cup entries
  BY <1>1, <1>3 DEF Unlocked
<1>5. \A e \in Unlocked(next) : IsEntry(e, r)
  BY <1>4, ManifestEntries DEF CompendiumFine
<1>6. CompendiumFine(next, r)
  BY <1>1, <1>3, <1>5, Zenon DEF CompendiumFine
<1> QED
  BY <1>3, <1>4, <1>6 DEF next

Gatherings(gallery, made, life, n, f) ==
  f = [k \in 0 .. n |-> IF k = 0 THEN gallery ELSE Gathered(f[k - 1], made[k], life)]

\* So is that of LiveProgress().
LEMMA GatheringsExist ==
  ASSUME NEW gallery, NEW made, NEW life, NEW n \in Nat
  PROVE  \E f : Gatherings(gallery, made, life, n, f)
<1> DEFINE P == {m \in Nat : ~ \E f : Gatherings(gallery, made, life, m, f)}
<1> SUFFICES ASSUME P # {} PROVE FALSE
  OBVIOUS
<1>1. PICK m \in P : \A k \in P : m <= k
  <2>1. P \in SUBSET Nat
    OBVIOUS
  <2> HIDE DEF P
  <2> QED
    BY <2>1, SmallestNumber
<1>2. m \in Nat /\ ~ \E f : Gatherings(gallery, made, life, m, f)
  OBVIOUS
<1>3. CASE m = 0
  <2> DEFINE f == [k \in 0 .. 0 |-> gallery]
  <2>1. f = [k \in 0 .. 0 |-> IF k = 0 THEN gallery ELSE Gathered(f[k - 1], made[k], life)]
    OBVIOUS
  <2>2. Gatherings(gallery, made, life, m, f)
    <3> HIDE DEF f
    <3> QED
      BY <1>3, <2>1 DEF Gatherings
  <2> QED
    BY <1>2, <2>2
<1>4. CASE m # 0
  <2>1. m - 1 \in Nat /\ m - 1 \notin P
    BY <1>1, <1>2, <1>4
  <2>2. PICK e : Gatherings(gallery, made, life, m - 1, e)
    BY <2>1
  <2> DEFINE f == [k \in 0 .. m |-> IF k < m THEN e[k] ELSE Gathered(e[m - 1], made[m], life)]
             next(k) == IF k = 0 THEN gallery ELSE Gathered(f[k - 1], made[k], life)
  <2>3. ASSUME NEW k \in 0 .. m PROVE f[k] = next(k)
    <3>1. CASE k < m
      <4>1. k \in 0 .. m - 1 /\ f[k] = e[k]
        BY <1>2, <3>1
      <4>2. e[k] = IF k = 0 THEN gallery ELSE Gathered(e[k - 1], made[k], life)
        BY <2>2, <4>1 DEF Gatherings
      <4>3. k # 0 => f[k - 1] = e[k - 1]
        BY <1>2, <3>1
      <4> HIDE DEF f
      <4> QED
        BY <4>1, <4>2, <4>3
    <3>2. CASE ~ (k < m)
      <4>1. k = m /\ f[m] = Gathered(e[m - 1], made[m], life) /\ f[m - 1] = e[m - 1]
        BY <1>2, <1>4, <3>2
      <4> HIDE DEF f
      <4> QED
        BY <1>4, <4>1
    <3> QED
      BY <3>1, <3>2
  <2>4. f = [k \in 0 .. m |-> f[k]]
    OBVIOUS
  <2> HIDE DEF f
  <2>5. Gatherings(gallery, made, life, m, f)
    BY <2>3, <2>4, Zenon DEF Gatherings
  <2> QED
    BY <1>2, <2>5
<1> QED
  BY <1>3, <1>4

IdsOf(gallery) == {g.id : g \in Range(gallery)}

IsGallery(gallery) ==
  gallery \in Seq(Range(gallery)) /\ \A g \in Range(gallery) : DOMAIN g = {"id", "life"}

LEMMA GatheredFine ==
  ASSUME NEW gallery, IsGallery(gallery), NEW id, NEW life
  PROVE  /\ IsGallery(Gathered(gallery, id, life))
         /\ IdsOf(Gathered(gallery, id, life)) = IdsOf(gallery) \cup {id}
<1> DEFINE g == [id |-> id, life |-> life]
<1>1. CASE \E h \in Range(gallery) : h.id = id
  BY <1>1 DEF Gathered, IdsOf
<1>2. CASE ~ \E h \in Range(gallery) : h.id = id
  <2>1. Gathered(gallery, id, life) = Append(gallery, g)
    BY <1>2 DEF Gathered
  <2>2. /\ Range(Append(gallery, g)) = Range(gallery) \cup {g}
        /\ Append(gallery, g) \in Seq(Range(Append(gallery, g)))
    BY RangeOfAppend DEF IsGallery
  <2>3. DOMAIN g = {"id", "life"} /\ g.id = id
    OBVIOUS
  <2> HIDE DEF g
  <2> QED
    BY <2>1, <2>2, <2>3 DEF IsGallery, IdsOf
<1> QED
  BY <1>1, <1>2

\* applyLiveProgress() of a game of this content.
LEMMA ProgressFine ==
  ASSUME NEW r, NEW c, CompendiumFine(c, r), NEW life \in Nat, NEW game, Settled(game, r),
         ~ game.legacy
  PROVE  /\ CompendiumFine(LiveProgress(c, game, life, r), r)
         /\ Unlocked(c) \subseteq Unlocked(LiveProgress(c, game, life, r))
<1> DEFINE n == Len(game.made)
           f == CHOOSE f : Gatherings(c.gallery, game.made, life, n, f)
           entries == Reached(game, game.ended, r)
           unlocked == WithUnlocks(c, entries, life)
           next == LiveProgress(c, game, life, r)
<1>1. next = [unlocked EXCEPT !.gallery = f[n]]
  BY DEF LiveProgress, Gatherings
<1>2. entries \in SUBSET Manifest(r)
  BY DEF Reached
<1>3. GameCurrent(game, r) /\ game.made \in Seq(Range(game.made))
  BY DEF Settled
<1>4. n \in Nat /\ DOMAIN game.made = 1 .. n
  BY <1>3
<1>5. Gatherings(c.gallery, game.made, life, n, f)
  <2>1. \E e : Gatherings(c.gallery, game.made, life, n, e)
    BY <1>4, GatheringsExist
  <2> QED
    BY <2>1
<1>6. /\ CompendiumFine(unlocked, r) /\ unlocked.gallery = c.gallery
      /\ Unlocked(unlocked) = Unlocked(c) \cup entries
  <2> HIDE DEF entries
  <2> QED
    BY <1>2, UnlocksFine
<1> HIDE DEF f, n, unlocked, next
<1> DEFINE Fine(k) == /\ IsGallery(f[k])
                      /\ IdsOf(f[k]) = IdsOf(c.gallery) \cup {game.made[i] : i \in 1 .. k}
           P == {k \in 0 .. n : ~ Fine(k)}
<1>7. P = {}
  <2> SUFFICES ASSUME P # {} PROVE FALSE
    OBVIOUS
  <2>1. PICK k \in P : \A j \in P : k <= j
    <3>1. P \in SUBSET Nat
      BY <1>4
    <3> HIDE DEF P
    <3> QED
      BY <3>1, SmallestNumber
  <2>2. f[k] = IF k = 0 THEN c.gallery ELSE Gathered(f[k - 1], game.made[k], life)
    BY <1>5 DEF Gatherings
  <2>3. k \in 0 .. n /\ ~ Fine(k)
    OBVIOUS
  <2>4. CASE k = 0
    <3>1. {game.made[i] : i \in 1 .. 0} = {}
      OBVIOUS
    <3>2. Fine(0)
      BY <2>2, <2>4, <3>1 DEF CompendiumFine, IsGallery
    <3> QED
      BY <2>3, <2>4, <3>2
  <2>5. CASE k # 0
    <3>1. k \in 1 .. n /\ k - 1 \in 0 .. n /\ k - 1 \notin P
      BY <1>4, <2>1, <2>5
    <3>2. Fine(k - 1)
      BY <3>1
    <3>3. {game.made[i] : i \in 1 .. k} = {game.made[i] : i \in 1 .. k - 1} \cup {game.made[k]}
      BY <1>4, <3>1
    <3>4. f[k] = Gathered(f[k - 1], game.made[k], life)
      BY <2>2, <2>5
    <3>5. Fine(k)
      BY <3>2, <3>3, <3>4, GatheredFine
    <3> QED
      BY <2>3, <3>5
  <2> QED
    BY <2>4, <2>5
<1>8. IsGallery(f[n]) /\ IdsOf(f[n]) = IdsOf(c.gallery) \cup Range(game.made)
  <2>1. Fine(n)
    BY <1>4, <1>7
  <2>2. Range(game.made) = {game.made[i] : i \in 1 .. n}
    BY <1>4 DEF Range
  <2> QED
    BY <2>1, <2>2
<1>9. MadeOf(IdsOf(f[n]), r)
  <2>1. MadeOf(IdsOf(c.gallery), r) /\ MadeOf(Range(game.made), r)
    BY <1>3 DEF CompendiumFine, GameCurrent, IdsOf
  <2> QED
    BY <1>8, <2>1 DEF MadeOf
<1>10. DOMAIN next = {"unlocks", "gallery"} /\ next.unlocks = unlocked.unlocks /\ next.gallery = f[n]
  BY <1>1, <1>6 DEF CompendiumFine
<1>11. Unlocked(next) = Unlocked(unlocked)
  BY <1>10 DEF Unlocked
<1>12. CompendiumFine(next, r)
  BY <1>6, <1>8, <1>9, <1>10, <1>11 DEF CompendiumFine, IsGallery, IdsOf
<1> QED
  BY <1>6, <1>11, <1>12 DEF next

-----------------------------------------------------------------------------
(* What is stored is of one revision, and a page that may write is of its own. *)

SettledLife(life) ==
  /\ life.life \in Nat
  /\ life.game.rev \in Revisions
  /\ Settled(life.game, life.game.rev)

IsArchive(life) ==
  /\ DOMAIN life = {"life", "game", "ending", "target", "events"}
  /\ SettledLife(life)

\* Nothing was unlocked before the first life.
NoMore(p) == ~ Lived(p) => p.compendium = FreshCompendium

AllNative(p, lived) == \A life \in lived \cup LivesOf(p) : ~ life.game.legacy

\* The profile and the lives in the archive refer to what is of revision r, and the
\* summaries and the compendium tell of these lives.
ProfileIn(p, lived, r) ==
  /\ p.archives = {Summary(life) : life \in lived}
  /\ CompendiumFine(p.compendium, r)
  /\ \A life \in lived \cup LivesOf(p) : life.game.rev = r
  /\ \A life \in lived :
       /\ life.ending \in Contents[r].endings \cup {None}
       /\ Reached(life.game, life.ending, r) \subseteq Unlocked(p.compendium)

OnDisk(p, lived) ==
  /\ \A life \in lived : IsArchive(life)
  /\ \A life \in LivesOf(p) : SettledLife(life)
  /\ NoMore(p)
  /\ AllNative(p, lived) => \E r \in Revisions : ProfileIn(p, lived, r)

InMemory(p, lived, r) ==
  /\ OnDisk(p, lived)
  /\ \A life \in LivesOf(p) : life.game.rev = r
  /\ AllNative(p, lived) => ProfileIn(p, lived, r)

HasLegacy(p) == \E life \in LivesOf(p) : life.game.legacy

SettledSave(save) ==
  IsGame(save) /\ (save.rev = 0 \/ (save.rev \in Revisions /\ Settled(save, save.rev)))

\* Not a game that tells its revision, which could take the place of a life without.
OldSave(save) == save = None \/ save.rev = 0 \/ save.legacy

Writing == page # "closed" /\ ~ readOnly

NumbersFine ==
  lives \in Nat /\ deployed \in Revisions /\ (page # "closed" => content \in Revisions)

SaveFine == v1 # None => SettledSave(v1)

GameFine == page # "closed" => Settled(engine, content)

DiskFine == IF stored = NoProfile THEN shelf = {} ELSE OnDisk(stored, shelf)

MemoryFine == Writing => InMemory(profile, shelf, content)

\* The life of a save from before plans, wherever it is, is the same one.
Together ==
  /\ HasLegacy(stored) => OldSave(v1)
  /\ Writing => /\ HasLegacy(stored) => HasLegacy(profile)
                /\ HasLegacy(profile) => engine.legacy
                /\ engine.legacy => OldSave(v1)

Currency == NumbersFine /\ SaveFine /\ GameFine /\ DiskFine /\ MemoryFine /\ Together

-----------------------------------------------------------------------------
(* The operations on a profile, once more. *)

LEMMA LivesFacts ==
  /\ LivesOf(NoProfile) = {} /\ LivesOf(FreshProfile) = {}
  /\ \A p : p.active = NoLife => LivesOf(p) = {}
  /\ \A p : p.active # NoLife => LivesOf(p) = {p.active}
  BY DEF LivesOf, NoProfile, FreshProfile

LEMMA InMemoryOf ==
  ASSUME NEW r \in Revisions, NEW p, NEW lived, \A life \in lived : IsArchive(life),
         \A life \in LivesOf(p) : SettledLife(life) /\ life.game.rev = r,
         NoMore(p), AllNative(p, lived) => ProfileIn(p, lived, r)
  PROVE  InMemory(p, lived, r)
  BY DEF InMemory, OnDisk

LEMMA FreshInMemory == ASSUME NEW r \in Revisions PROVE InMemory(FreshProfile, {}, r)
<1>1. LivesOf(FreshProfile) = {} /\ FreshProfile.compendium = FreshCompendium
      /\ FreshProfile.archives = {}
  BY LivesFacts DEF FreshProfile
<1>2. ProfileIn(FreshProfile, {}, r)
  BY <1>1, FreshCompendiumFine DEF ProfileIn
<1> QED
  BY <1>1, <1>2, InMemoryOf DEF NoMore

\* A migrated life is the same life with a game of the new content.
LEMMA LifeMoves ==
  ASSUME NEW r \in Revisions, NEW life,
         "game" \in DOMAIN life, "target" \in DOMAIN life, SettledLife(life),
         MigratedLife(life, r) # NoLife
  PROVE  LET moved == MigratedLife(life, r) IN
         /\ DOMAIN moved = DOMAIN life
         /\ SettledLife(moved) /\ moved.game.rev = r
         /\ moved.game.legacy = life.game.legacy
         /\ moved.game = MigratedGame(life.game, r) /\ moved.game # None
         /\ "life" \in DOMAIN life => moved.life = life.life
         /\ "ending" \in DOMAIN life => moved.ending = life.ending
<1> DEFINE game == MigratedGame(life.game, r)
           target == MigratedTarget(life.target, r)
           moved == [life EXCEPT !.game = game, !.target = target]
<1>1. MigratedLife(life, r) = moved /\ game # None
  <2>1. MigratedLife(life, r) = LifeWith(life, game, r)
    BY DEF MigratedLife
  <2> HIDE DEF game
  <2> QED
    BY <2>1 DEF LifeWith
<1>2. Settled(game, r) /\ game.legacy = life.game.legacy
  BY <1>1, MigratedSettled DEF SettledLife
<1> HIDE DEF game, target
<1>3. /\ DOMAIN moved = DOMAIN life /\ moved.game = game
      /\ moved.life = life.life /\ moved.ending = life.ending
  OBVIOUS
<1> HIDE DEF moved
<1> QED
  BY <1>1, <1>2, <1>3 DEF SettledLife, Settled, game

\* The same of an archived one, whose ending is renamed too.
LEMMA ArchiveMoves ==
  ASSUME NEW r \in Revisions, NEW life, IsArchive(life), MigratedArchive(life, r) # NoLife
  PROVE  LET moved == MigratedArchive(life, r) IN
         /\ IsArchive(moved) /\ moved.game.rev = r
         /\ moved.game.legacy = life.game.legacy
         /\ life.game.rev = r => moved = life
         /\ life.game.rev # r => /\ moved.game = MigratedGame(life.game, r) /\ moved.game # None
                                 /\ moved.life = life.life
                                 /\ moved.ending = IF life.ending = None THEN None
                                                   ELSE Current("ending", life.ending, r)
                                 /\ life.ending # None => moved.ending # None
<1>1. CASE life.game.rev = r
  BY <1>1 DEF MigratedArchive
<1>2. CASE life.game.rev # r
  <2> DEFINE mid == MigratedLife(life, r)
             ending == IF life.ending = None THEN None ELSE Current("ending", life.ending, r)
             moved == [mid EXCEPT !.ending = ending]
  <2>1. MigratedArchive(life, r) = ArchiveWith(mid, ending)
    BY <1>2 DEF MigratedArchive
  <2> HIDE DEF mid, ending
  <2>2. mid # NoLife /\ ~ (mid.ending # None /\ ending = None) /\ ArchiveWith(mid, ending) = moved
    BY <2>1 DEF ArchiveWith
  <2>3. /\ DOMAIN mid = {"life", "game", "ending", "target", "events"}
        /\ SettledLife(mid) /\ mid.game.rev = r /\ mid.game.legacy = life.game.legacy
        /\ mid.game = MigratedGame(life.game, r) /\ mid.game # None
        /\ mid.life = life.life /\ mid.ending = life.ending
    <3>1. /\ DOMAIN life = {"life", "game", "ending", "target", "events"} /\ SettledLife(life)
          /\ {"game", "target", "life", "ending"} \subseteq DOMAIN life
      BY DEF IsArchive
    <3> QED
      BY <2>2, <3>1, LifeMoves DEF mid
  <2>4. /\ DOMAIN moved = DOMAIN mid /\ moved.game = mid.game /\ moved.life = mid.life
        /\ moved.ending = ending
    BY <2>3
  <2> HIDE DEF moved
  <2>5. IsArchive(moved)
    BY <2>3, <2>4 DEF IsArchive, SettledLife
  <2> QED
    BY <1>2, <2>1, <2>2, <2>3, <2>4, <2>5 DEF ending
<1> QED
  BY <1>1, <1>2

\* A summary tells of the migrated life what the migrated summary tells of the life.
LEMMA SummaryMoves ==
  ASSUME NEW r \in Revisions, NEW life, IsArchive(life), ~ life.game.legacy, life.game.rev # r,
         MigratedArchive(life, r) # NoLife
  PROVE  Summary(MigratedArchive(life, r)) = MigratedSummary(Summary(life), r)
<1> DEFINE moved == MigratedArchive(life, r)
<1>1. /\ moved.game.rev = r /\ ~ moved.game.legacy /\ moved.life = life.life
      /\ moved.ending = IF life.ending = None THEN None ELSE Current("ending", life.ending, r)
  BY ArchiveMoves
<1> HIDE DEF moved
<1>2. Summary(life) = [life |-> life.life, ending |-> life.ending, rev |-> life.game.rev]
  BY DEF Summary
<1>3. Summary(moved) = [life |-> life.life, ending |-> moved.ending, rev |-> r]
  BY <1>1 DEF Summary
<1>4. life.game.rev # 0
  BY RevisionFacts DEF IsArchive, SettledLife
<1>5. MigratedSummary(Summary(life), r) = [life |-> life.life, ending |-> moved.ending, rev |-> r]
  <2> DEFINE x == [life |-> life.life, ending |-> life.ending, rev |-> life.game.rev]
             ending == IF life.ending = None THEN None ELSE Current("ending", life.ending, r)
  <2>1. MigratedSummary(x, r) = [life |-> life.life, ending |-> ending,
                                 rev |-> IF life.game.rev = 0 THEN 0 ELSE r]
    <3>1. MigratedSummary(x, r) = [x EXCEPT !.ending = ending, !.rev = IF life.game.rev = 0 THEN 0 ELSE r]
      BY DEF MigratedSummary
    <3> HIDE DEF ending
    <3> QED
      BY <3>1
  <2> QED
    BY <1>1, <1>2, <1>4, <2>1
<1> QED
  BY <1>3, <1>5 DEF moved

\* So does the compendium.
LEMMA ArchiveReached ==
  ASSUME NEW r \in Revisions, NEW s \in Revisions, Supported(s, r), r # s,
         NEW life, IsArchive(life), ~ life.game.legacy, life.game.rev = s,
         life.ending \in Contents[s].endings \cup {None}, MigratedArchive(life, r) # NoLife
  PROVE  LET moved == MigratedArchive(life, r) IN
         /\ moved.ending \in Contents[r].endings \cup {None}
         /\ Reached(moved.game, moved.ending, r)
              \subseteq {MigratedEntry(e, r) : e \in Reached(life.game, life.ending, s)}
<1> DEFINE moved == MigratedArchive(life, r)
           made == MadeAliases(life.game.made, r)
<1>1. /\ moved.game = MigratedGame(life.game, r) /\ moved.game # None
      /\ moved.ending = IF life.ending = None THEN None ELSE Current("ending", life.ending, r)
      /\ life.ending # None => moved.ending # None
  BY ArchiveMoves
<1>2. moved.game = RemappedGame(life.game, made, r) /\ made # None
  <2> HIDE DEF moved, made
  <2>1. moved.game = RemappedGame(life.game, made, r)
    BY <1>1, RevisionFacts DEF MigratedGame, made
  <2> QED
    BY <1>1, <2>1 DEF RemappedGame
<1>3. IsGame(life.game) /\ GameCurrent(life.game, s) /\ life.game.made \in Seq(Range(life.game.made))
  BY DEF IsArchive, SettledLife, Settled
<1>4. MadeOf(Range(made), r)
  BY <1>2, <1>3, AliasesFine DEF GameCurrent
<1> HIDE DEF moved, made
<1>5. moved.ending \in Contents[r].endings \cup {None}
  <2>1. CASE life.ending = None
    BY <1>1, <2>1
  <2>2. CASE life.ending # None
    <3>1. life.ending \in Vocabulary("ending", s)
      BY <2>2, NameFacts
    <3>2. moved.ending \in Vocabulary("ending", r) \cup {None}
      BY <1>1, <2>2, <3>1, NamesResolve DEF Kinds
    <3> QED
      BY <3>2, NameFacts
  <2> QED
    BY <2>1, <2>2
<1>6. Reached(moved.game, moved.ending, r)
        \subseteq {MigratedEntry(e, r) : e \in Reached(life.game, life.ending, s)}
  BY <1>1, <1>2, <1>3, <1>4, ReachedMoves
<1> QED
  BY <1>5, <1>6 DEF moved

\* migrateProfileToCurrentContent() and migrateArchivedLifeToCurrentContent(): what
\* they give is of the new content.
LEMMA ProfileMoves ==
  ASSUME NEW r \in Revisions, NEW p, IsProfile(p), NEW lived, OnDisk(p, lived),
         MigratedProfile(p, r) # NoProfile,
         NEW after, after = {MigratedArchive(life, r) : life \in lived}, NoLife \notin after
  PROVE  LET q == MigratedProfile(p, r) IN
         /\ InMemory(q, after, r)
         /\ HasLegacy(q) <=> HasLegacy(p)
<1> DEFINE active == IF p.active = NoLife THEN NoLife ELSE MigratedLife(p.active, r)
           compendium == MigratedCompendium(p.compendium, r)
           q == MigratedProfile(p, r)
<1>1. \/ SourceRevisions(p) \subseteq {r} /\ q = p
      \/ /\ ~ (SourceRevisions(p) \subseteq {r})
         /\ q = ProfileWith(p, active, compendium, r)
  BY DEF MigratedProfile
<1>2. ASSUME NEW life \in lived
      PROVE  MigratedArchive(life, r) \in after /\ MigratedArchive(life, r) # NoLife
  OBVIOUS
<1>3. \A life \in after : IsArchive(life) /\ life.game.rev = r
  BY <1>2, ArchiveMoves DEF OnDisk
<1> HIDE DEF q, compendium, active
<1>4. ASSUME ~ (SourceRevisions(p) \subseteq {r})
      PROVE  /\ q = [active |-> active, archives |-> {MigratedSummary(s, r) : s \in p.archives},
                     compendium |-> compendium]
             /\ q.active = active /\ q.compendium = compendium
             /\ q.archives = {MigratedSummary(s, r) : s \in p.archives}
             /\ compendium # None /\ (p.active # NoLife => active # NoLife)
             /\ \A from \in SourceRevisions(p) \ {r} : Supported(from, r)
  BY <1>1, <1>4 DEF ProfileWith, q
<1>5. ASSUME p.active # NoLife
      PROVE  /\ q.active # NoLife
             /\ SettledLife(q.active) /\ q.active.game.rev = r
             /\ q.active.game.legacy = p.active.game.legacy
  <2>1. SettledLife(p.active) /\ IsLife(p.active) /\ p.active.game.rev \in SourceRevisions(p)
    BY <1>5, LivesFacts DEF OnDisk, IsProfile, SourceRevisions
  <2>2. CASE SourceRevisions(p) \subseteq {r}
    BY <1>1, <1>5, <2>1, <2>2
  <2>3. CASE ~ (SourceRevisions(p) \subseteq {r})
    <3>1. active # NoLife /\ active = MigratedLife(p.active, r) /\ q.active = active
      BY <1>4, <1>5, <2>3 DEF active
    <3> QED
      BY <2>1, <3>1, LifeMoves DEF IsLife
  <2> QED
    BY <2>2, <2>3
<1>6. p.active = NoLife => q.active = NoLife
  BY <1>1, <1>4 DEF active
<1>7. HasLegacy(q) <=> HasLegacy(p)
  BY <1>5, <1>6, LivesFacts DEF HasLegacy
<1>8. \A life \in LivesOf(q) : SettledLife(life) /\ life.game.rev = r
  BY <1>5, <1>6, LivesFacts
<1>9. NoMore(q)
  <2>1. CASE SourceRevisions(p) \subseteq {r}
    BY <1>1, <2>1 DEF OnDisk
  <2>2. CASE ~ (SourceRevisions(p) \subseteq {r})
    <3>1. Lived(p)
      BY <2>2 DEF SourceRevisions, Lived
    <3> QED
      BY <1>4, <1>5, <2>2, <3>1 DEF Lived, NoMore
  <2> QED
    BY <2>1, <2>2
<1>10. ASSUME AllNative(q, after) PROVE AllNative(p, lived)
  <2>1. ASSUME NEW life \in lived PROVE ~ life.game.legacy
    BY <1>2, <1>10, ArchiveMoves DEF AllNative, OnDisk
  <2>2. ASSUME NEW life \in LivesOf(p) PROVE ~ life.game.legacy
    BY <1>5, <1>10, LivesFacts DEF AllNative
  <2> QED
    BY <2>1, <2>2 DEF AllNative
<1>11. ASSUME AllNative(p, lived) PROVE ProfileIn(q, after, r)
  <2>1. PICK s \in Revisions : ProfileIn(p, lived, s)
    BY <1>11 DEF OnDisk
  <2>2. \A life \in lived : IsArchive(life) /\ life.game.rev = s /\ ~ life.game.legacy
    BY <1>11, <2>1 DEF AllNative, ProfileIn, OnDisk
  <2>3. \A x \in p.archives : x.rev = s
    <3>1. \A life \in lived : Summary(life).rev = s
      BY <2>2 DEF Summary
    <3> QED
      BY <2>1, <3>1 DEF ProfileIn
  <2>4. p.active # NoLife => p.active.game.rev = s
    BY <2>1, LivesFacts DEF ProfileIn
  <2>5. SourceRevisions(p) \subseteq {s} /\ s # 0
    BY <2>3, <2>4, RevisionFacts DEF SourceRevisions
  <2>6. CASE s = r
    <3>1. q = p
      BY <1>1, <2>5, <2>6
    <3>2. \A life \in lived : MigratedArchive(life, r) = life
      BY <2>2, <2>6 DEF MigratedArchive
    <3>3. after = lived
      BY <3>2
    <3> QED
      BY <2>1, <2>6, <3>1, <3>3
  <2>7. CASE s # r /\ SourceRevisions(p) \subseteq {r}
    <3>1. SourceRevisions(p) = {}
      BY <2>5, <2>7
    <3>2. p.active = NoLife
      BY <3>1 DEF SourceRevisions
    <3>3. p.archives = {}
      BY <2>3, <2>5, <3>1 DEF SourceRevisions
    <3>4. lived = {}
      BY <2>1, <3>3 DEF ProfileIn
    <3>5. after = {} /\ q = p /\ p.compendium = FreshCompendium
      BY <1>1, <2>7, <3>2, <3>3, <3>4 DEF OnDisk, NoMore, Lived
    <3> QED
      BY <3>2, <3>3, <3>5, FreshCompendiumFine, LivesFacts DEF ProfileIn
  <2>8. CASE s # r /\ ~ (SourceRevisions(p) \subseteq {r})
    <3>1. Supported(s, r)
      BY <1>4, <2>5, <2>8
    <3>2. CompendiumFine(p.compendium, s)
      BY <2>1 DEF ProfileIn
    <3>3. /\ CompendiumFine(compendium, r)
          /\ Unlocked(compendium) = {MigratedEntry(e, r) : e \in Unlocked(p.compendium)}
      BY <1>4, <2>8, <3>1, <3>2, CompendiumMoves DEF compendium
    <3>4. q.archives = {Summary(life) : life \in after}
      <4>1. \A life \in lived : Summary(MigratedArchive(life, r)) = MigratedSummary(Summary(life), r)
        BY <1>2, <2>2, <2>8, SummaryMoves
      <4>2. p.archives = {Summary(life) : life \in lived}
        BY <2>1 DEF ProfileIn
      <4>3. q.archives = {MigratedSummary(y, r) : y \in p.archives}
        BY <1>4, <2>8
      <4>4. ASSUME NEW x \in q.archives PROVE x \in {Summary(life) : life \in after}
        <5>1. PICK y \in p.archives : x = MigratedSummary(y, r)
          BY <4>3
        <5>2. PICK life \in lived : y = Summary(life)
          BY <4>2
        <5> QED
          BY <1>2, <4>1, <5>1, <5>2
      <4>5. ASSUME NEW life \in after PROVE Summary(life) \in q.archives
        <5>1. PICK old \in lived : life = MigratedArchive(old, r)
          OBVIOUS
        <5> QED
          BY <4>1, <4>2, <4>3, <5>1
      <4> QED
        BY <4>4, <4>5
    <3>5. ASSUME NEW life \in after
          PROVE  /\ life.ending \in Contents[r].endings \cup {None}
                 /\ Reached(life.game, life.ending, r) \subseteq Unlocked(compendium)
      <4>1. PICK old \in lived : life = MigratedArchive(old, r)
        OBVIOUS
      <4>2. /\ old.ending \in Contents[s].endings \cup {None}
            /\ Reached(old.game, old.ending, s) \subseteq Unlocked(p.compendium)
        BY <2>1 DEF ProfileIn
      <4>3. /\ life.ending \in Contents[r].endings \cup {None}
            /\ Reached(life.game, life.ending, r)
                 \subseteq {MigratedEntry(e, r) : e \in Reached(old.game, old.ending, s)}
        BY <1>2, <2>2, <2>8, <3>1, <4>1, <4>2, ArchiveReached
      <4> QED
        BY <3>3, <4>2, <4>3
    <3>6. \A life \in after \cup LivesOf(q) : life.game.rev = r
      BY <1>3, <1>8
    <3> QED
      BY <1>4, <2>8, <3>3, <3>4, <3>5, <3>6 DEF ProfileIn
  <2> QED
    BY <2>6, <2>7, <2>8
<1>12. InMemory(q, after, r)
  BY <1>3, <1>8, <1>9, <1>10, <1>11, InMemoryOf
<1> QED
  BY <1>7, <1>12 DEF q

\* A save of the time before profiles, whether or not it tells its revision.
LEMMA SaveMoves ==
  ASSUME NEW r \in Revisions, NEW save, SettledSave(save), MigratedGame(save, r) # None
  PROVE  LET moved == MigratedGame(save, r) IN
         /\ IsGame(moved) /\ moved.rev \in {0, r}
         /\ moved.rev = r => Settled(moved, r)
         /\ moved.rev = 0 => save.rev = 0
         /\ moved.rev = r => moved.legacy = save.legacy
<1>1. CASE save.rev = 0
  <2>1. MigratedGame(save, r) = save
    BY <1>1 DEF MigratedGame
  <2> QED
    BY <1>1, <2>1, RevisionFacts DEF SettledSave
<1>2. CASE save.rev # 0
  <2>1. save.rev \in Revisions /\ Settled(save, save.rev)
    BY <1>2 DEF SettledSave
  <2> DEFINE moved == MigratedGame(save, r)
  <2>2. Settled(moved, r) /\ moved.legacy = save.legacy
    BY <2>1, MigratedSettled
  <2>3. IsGame(moved) /\ moved.rev = r /\ r # 0
    BY <2>2, RevisionFacts DEF Settled
  <2> HIDE DEF moved
  <2> QED
    BY <2>2, <2>3 DEF moved
<1> QED
  BY <1>1, <1>2

LEMMA PlannedSettled ==
  ASSUME NEW r \in Revisions, NEW game, IsGame(game), game.rev \in {0, r},
         game.rev = r => Settled(game, r)
  PROVE  /\ Settled(Planned(game, r), r)
         /\ game.rev = 0 => Planned(game, r).legacy
         /\ game.rev = r => Planned(game, r) = game
<1>1. CASE game.rev = 0
  <2>1. Planned(game, r) = [game EXCEPT !.rev = r, !.legacy = TRUE]
    BY <1>1 DEF Planned
  <2>2. IsGame(Planned(game, r)) /\ Planned(game, r).rev = r /\ Planned(game, r).legacy = TRUE
    BY <2>1 DEF IsGame
  <2> QED
    BY <1>1, <2>2, RevisionFacts DEF Settled
<1>2. CASE game.rev # 0
  BY <1>2 DEF Planned
<1> QED
  BY <1>1, <1>2

\* migrateLegacyProfile(): the profile of a save, of the content it was loaded with.
LEMMA LegacyInMemory ==
  ASSUME NEW r \in Revisions, NEW life, IsLife(life), SettledLife(life), life.game.rev = r
  PROVE  InMemory(LegacyProfile(life, r), LegacyShelf(life), r)
<1> DEFINE entries == Reached(life.game, life.game.ended, r)
           compendium == WithUnlocks(FreshCompendium, entries, life.life)
           p == LegacyProfile(life, r)
           archived == LegacyArchive(life)
<1>1. CompendiumFine(compendium, r) /\ Unlocked(compendium) = Unlocked(FreshCompendium) \cup entries
  <2>1. entries \in SUBSET Manifest(r)
    BY DEF Reached
  <2>2. CompendiumFine(FreshCompendium, r) /\ life.life \in Nat
    BY FreshCompendiumFine DEF SettledLife
  <2> HIDE DEF entries
  <2> QED
    BY <2>1, <2>2, UnlocksFine
<1>2. p = IF life.game.ended = None
          THEN [active |-> life, archives |-> {}, compendium |-> compendium]
          ELSE [active |-> NoLife, archives |-> {Summary(archived)}, compendium |-> compendium]
  BY DEF LegacyProfile
<1>3. /\ DOMAIN archived = {"life", "game", "ending", "target", "events"}
      /\ archived.life = life.life /\ archived.game = life.game
      /\ archived.ending = life.game.ended
  BY DEF LegacyArchive
<1> HIDE DEF compendium, p
<1>4. CASE life.game.ended = None
  <2>1. p.active = life /\ p.archives = {} /\ p.compendium = compendium /\ LegacyShelf(life) = {}
    BY <1>2, <1>4 DEF LegacyShelf
  <2>2. LivesOf(p) = {life} /\ Lived(p)
    BY <2>1, LifeIsSome, LivesFacts DEF Lived
  <2>3. ProfileIn(p, {}, r)
    BY <1>1, <2>1, <2>2 DEF ProfileIn
  <2> QED
    BY <2>1, <2>2, <2>3, InMemoryOf DEF NoMore, p
<1>5. CASE life.game.ended # None
  <2>1. /\ p.active = NoLife /\ p.archives = {Summary(archived)} /\ p.compendium = compendium
        /\ LegacyShelf(life) = {archived}
    BY <1>2, <1>5 DEF LegacyShelf
  <2> HIDE DEF archived
  <2>2. LivesOf(p) = {} /\ Lived(p)
    BY <2>1, LivesFacts DEF Lived
  <2>3. IsArchive(archived)
    BY <1>3 DEF IsArchive, SettledLife
  <2>4. ASSUME AllNative(p, {archived}) PROVE ProfileIn(p, {archived}, r)
    <3>1. GameCurrent(life.game, r)
      BY <1>3, <2>4 DEF AllNative, SettledLife, Settled
    <3>2. archived.ending \in Contents[r].endings \cup {None}
      BY <1>3, <3>1 DEF GameCurrent
    <3>3. Reached(archived.game, archived.ending, r) \subseteq Unlocked(p.compendium)
      BY <1>1, <1>3, <2>1
    <3>4. \A x \in {archived} \cup LivesOf(p) : x.game.rev = r
      BY <1>3, <2>2
    <3> QED
      BY <1>1, <2>1, <3>2, <3>3, <3>4 DEF ProfileIn
  <2> QED
    BY <2>1, <2>2, <2>3, <2>4, InMemoryOf DEF NoMore, p
<1> QED
  BY <1>4, <1>5

\* archiveLife() and applyArchivedLife() of the game in memory.
LEMMA LeftInMemory ==
  ASSUME content \in Revisions, IsProfile(profile), profile.active # NoLife,
         InMemory(profile, shelf, content), Settled(engine, content),
         HasLegacy(profile) => engine.legacy,
         NEW ending \in {None, engine.ended}
  PROVE  InMemory(Left(ending), shelf \cup {Leaving(ending)}, content)
<1> DEFINE life == Leaving(ending)
           entries == Reached(life.game, life.ending, content)
           compendium == WithUnlocks(profile.compendium, entries, life.life)
           p == Left(ending)
           lived == shelf \cup {life}
<1>1. /\ DOMAIN life = {"life", "game", "ending", "target", "events"}
      /\ life.life = profile.active.life /\ life.game = engine /\ life.ending = ending
  BY DEF Leaving, Archived
<1>2. p = [active |-> NoLife, archives |-> profile.archives \cup {Summary(life)},
           compendium |-> compendium]
  BY DEF Left, WithArchive
<1> HIDE DEF compendium, p, life
<1>3. p.active = NoLife /\ p.archives = profile.archives \cup {Summary(life)}
      /\ p.compendium = compendium
  BY <1>2
<1>4. profile.active.life \in Nat /\ LivesOf(profile) = {profile.active}
  BY LivesFacts DEF InMemory, OnDisk, SettledLife
<1>5. IsArchive(life) /\ life.game.rev = content
  BY <1>1, <1>4 DEF IsArchive, SettledLife, Settled
<1>6. \A x \in lived : IsArchive(x)
  BY <1>5 DEF InMemory, OnDisk
<1>7. LivesOf(p) = {} /\ NoMore(p)
  BY <1>3, LivesFacts DEF NoMore, Lived
<1>8. ASSUME AllNative(p, lived) PROVE ProfileIn(p, lived, content)
  <2>1. ~ engine.legacy
    BY <1>1, <1>8 DEF AllNative
  <2>2. AllNative(profile, shelf)
    BY <1>8, <2>1 DEF AllNative, HasLegacy
  <2>3. ProfileIn(profile, shelf, content)
    BY <2>2 DEF InMemory
  <2>4. entries \in SUBSET Manifest(content)
    BY DEF Reached
  <2>5. /\ CompendiumFine(compendium, content)
        /\ Unlocked(compendium) = Unlocked(profile.compendium) \cup entries
    <3>1. CompendiumFine(profile.compendium, content) /\ life.life \in Nat
      BY <1>1, <1>4, <2>3 DEF ProfileIn
    <3> HIDE DEF entries
    <3> QED
      BY <2>4, <3>1, UnlocksFine DEF compendium
  <2>6. life.ending \in Contents[content].endings \cup {None}
    BY <1>1, <2>1 DEF Settled, GameCurrent
  <2>7. p.archives = {Summary(x) : x \in lived}
    BY <1>3, <2>3 DEF ProfileIn
  <2>8. ASSUME NEW x \in lived
        PROVE  /\ x.ending \in Contents[content].endings \cup {None}
               /\ Reached(x.game, x.ending, content) \subseteq Unlocked(p.compendium)
    BY <1>3, <2>3, <2>5, <2>6 DEF ProfileIn
  <2>9. \A x \in lived \cup LivesOf(p) : x.game.rev = content
    BY <1>5, <1>7, <2>3 DEF ProfileIn
  <2> QED
    BY <1>3, <2>5, <2>7, <2>8, <2>9 DEF ProfileIn
<1> HIDE DEF lived
<1>9. InMemory(p, lived, content)
  BY <1>6, <1>7, <1>8, InMemoryOf
<1> QED
  BY <1>9 DEF p, lived, life

\* beginProfileLife(): a life more, of nothing but base elements.
LEMMA BegunInMemory ==
  ASSUME content \in Revisions, NEW p, IsProfile(p), p.active = NoLife, NEW lived,
         InMemory(p, lived, content), NEW life, IsLife(life), life.life \in Nat,
         life.game = FreshGame(content)
  PROVE  /\ InMemory([p EXCEPT !.active = life], lived, content)
         /\ ~ HasLegacy([p EXCEPT !.active = life])
<1> DEFINE q == [p EXCEPT !.active = life]
<1>1. q.active = life /\ q.archives = p.archives /\ q.compendium = p.compendium
  BY DEF IsProfile
<1> HIDE DEF q
<1>2. life # NoLife /\ LivesOf(q) = {life} /\ LivesOf(p) = {}
  BY <1>1, LifeIsSome, LivesFacts
<1>3. Settled(life.game, content) /\ life.game.rev = content /\ ~ life.game.legacy
  BY FreshSettled DEF FreshGame
<1>4. SettledLife(life)
  BY <1>3 DEF SettledLife
<1>5. NoMore(q)
  BY <1>1, <1>2 DEF NoMore, Lived
<1>6. ASSUME AllNative(q, lived) PROVE ProfileIn(q, lived, content)
  <2>1. ProfileIn(p, lived, content)
    BY <1>2, <1>6 DEF AllNative, InMemory
  <2> QED
    BY <1>1, <1>2, <1>3, <2>1 DEF ProfileIn
<1>7. InMemory(q, lived, content)
  BY <1>2, <1>3, <1>4, <1>5, <1>6, InMemoryOf DEF InMemory, OnDisk
<1>8. ~ HasLegacy(q)
  BY <1>2, <1>3 DEF HasLegacy
<1> QED
  BY <1>7, <1>8 DEF q

\* saveProfile() after a turn: the game in memory becomes that of the life.
LEMMA PlayedInMemory ==
  ASSUME content \in Revisions, IsProfile(profile), profile.active # NoLife,
         InMemory(profile, shelf, content), HasLegacy(profile) => engine.legacy,
         NEW game, Settled(game, content), game.legacy = engine.legacy, NEW events, NEW p,
         p = [profile EXCEPT
                !.active = [profile.active EXCEPT !.game = game, !.events = events],
                !.compendium = LiveProgress(profile.compendium, game, profile.active.life, content)]
  PROVE  InMemory(p, shelf, content) /\ p.active.game = game /\ p.active # NoLife
<1> DEFINE life == [profile.active EXCEPT !.game = game, !.events = events]
           compendium == LiveProgress(profile.compendium, game, profile.active.life, content)
<1>1. IsLife(profile.active) /\ SettledLife(profile.active) /\ LivesOf(profile) = {profile.active}
  BY LivesFacts DEF IsProfile, InMemory, OnDisk
<1>2. IsLife(life) /\ life.game = game /\ life.life = profile.active.life
  BY <1>1 DEF IsLife
<1> HIDE DEF life, compendium
<1>3. p.active = life /\ p.archives = profile.archives /\ p.compendium = compendium
  BY DEF IsProfile, life, compendium
<1>4. life # NoLife /\ LivesOf(p) = {life} /\ NoMore(p)
  BY <1>2, <1>3, LifeIsSome, LivesFacts DEF NoMore, Lived
<1>5. SettledLife(life) /\ life.game.rev = content
  BY <1>1, <1>2 DEF SettledLife, Settled
<1>6. ASSUME AllNative(p, shelf) PROVE ProfileIn(p, shelf, content)
  <2>1. ~ game.legacy
    BY <1>2, <1>4, <1>6 DEF AllNative
  <2>2. AllNative(profile, shelf)
    BY <1>6, <2>1 DEF AllNative, HasLegacy
  <2>3. ProfileIn(profile, shelf, content)
    BY <2>2 DEF InMemory
  <2>4. /\ CompendiumFine(compendium, content)
        /\ Unlocked(profile.compendium) \subseteq Unlocked(compendium)
    BY <1>1, <2>1, <2>3, ProgressFine DEF ProfileIn, SettledLife, compendium
  <2>5. \A x \in shelf : Reached(x.game, x.ending, content) \subseteq Unlocked(p.compendium)
    BY <1>3, <2>3, <2>4 DEF ProfileIn
  <2>6. \A x \in shelf \cup LivesOf(p) : x.game.rev = content
    BY <1>4, <1>5, <2>3 DEF ProfileIn
  <2> QED
    BY <1>3, <2>3, <2>4, <2>5, <2>6 DEF ProfileIn
<1>7. InMemory(p, shelf, content)
  BY <1>4, <1>5, <1>6, InMemoryOf DEF InMemory, OnDisk
<1> QED
  BY <1>2, <1>3, <1>4, <1>7

-----------------------------------------------------------------------------
(* Turns. *)

\* What a turn may make of the game in memory.
Played(game) == Settled(game, content) /\ game.legacy = engine.legacy

\* A turn gives a game what is of its content, or an invention of what it has.
LEMMA PlaysSettled ==
  ASSUME content \in Revisions, Settled(engine, content),
         NEW ending \in Contents[content].endings \cup {None}
  PROVE  /\ Played([engine EXCEPT !.ended = ending])
         /\ \A name \in Contents[content].elements : Played([Discovered(name) EXCEPT !.ended = ending])
         /\ \A p, q \in engine.discovered : Played([Invented({p, q}) EXCEPT !.ended = ending])
<1>1. IsGame(engine) /\ engine.rev = content
  BY DEF Settled
<1>2. Played([engine EXCEPT !.ended = ending])
  <2> DEFINE game == [engine EXCEPT !.ended = ending]
  <2>1. /\ IsGame(game) /\ game.rev = content /\ game.legacy = engine.legacy
        /\ game.discovered = engine.discovered /\ game.made = engine.made
        /\ game.branches = engine.branches /\ game.ended = ending
    BY <1>1 DEF IsGame
  <2> HIDE DEF game
  <2>2. Played(game)
    BY <2>1 DEF Played, Settled, GameCurrent
  <2> QED
    BY <2>2 DEF game
<1>3. ASSUME NEW name \in Contents[content].elements
      PROVE  Played([Discovered(name) EXCEPT !.ended = ending])
  <2> DEFINE completed == {b \in DOMAIN Contents[content].branches :
                             Contents[content].branches[b] = name}
             game == [Discovered(name) EXCEPT !.ended = ending]
  <2>1. Discovered(name) = [engine EXCEPT !.discovered = engine.discovered \cup {Named(name)},
                                          !.branches = engine.branches \cup completed]
    BY DEF Discovered
  <2> HIDE DEF completed
  <2>2. /\ IsGame(game) /\ game.rev = content /\ game.legacy = engine.legacy
        /\ game.discovered = engine.discovered \cup {Named(name)} /\ game.made = engine.made
        /\ game.branches = engine.branches \cup completed /\ game.ended = ending
    BY <1>1, <2>1 DEF IsGame
  <2>3. Named(name) \in Plain(content) /\ completed \subseteq DOMAIN Contents[content].branches
    BY DEF Plain, completed
  <2> HIDE DEF game
  <2>4. Played(game)
    BY <2>2, <2>3 DEF Played, Settled, GameCurrent
  <2> QED
    BY <2>4 DEF game
<1>4. ASSUME NEW p \in engine.discovered, NEW q \in engine.discovered
      PROVE  Played([Invented({p, q}) EXCEPT !.ended = ending])
  <2> DEFINE id == Made({p, q})
             made == IF id \in Range(engine.made) THEN engine.made ELSE Append(engine.made, id)
             game == [Invented({p, q}) EXCEPT !.ended = ending]
  <2>1. Invented({p, q}) = [engine EXCEPT !.discovered = engine.discovered \cup {id}, !.made = made]
    BY DEF Invented
  <2>2. id.of = {p, q} /\ id = Made(id.of)
    BY NameFacts
  <2> HIDE DEF id, made
  <2>3. /\ IsGame(game) /\ game.rev = content /\ game.legacy = engine.legacy
        /\ game.discovered = engine.discovered \cup {id} /\ game.made = made
        /\ game.branches = engine.branches /\ game.ended = ending
    BY <1>1, <2>1 DEF IsGame
  <2> HIDE DEF game
  <2>4. ASSUME ~ engine.legacy
        PROVE  GameCurrent(game, content) /\ game.made \in Seq(Range(game.made))
    <3>1. GameCurrent(engine, content) /\ engine.made \in Seq(Range(engine.made))
      BY <2>4 DEF Settled
    <3>2. Range(made) = Range(engine.made) \cup {id} /\ made \in Seq(Range(made))
      <4>1. CASE id \in Range(engine.made)
        BY <3>1, <4>1 DEF made
      <4>2. CASE id \notin Range(engine.made)
        BY <3>1, <4>2, RangeOfAppend DEF made
      <4> QED
        BY <4>1, <4>2
    <3>3. MadeOf(Range(made), content)
      BY <2>2, <3>1, <3>2 DEF MadeOf, GameCurrent
    <3> QED
      BY <2>3, <3>1, <3>2, <3>3 DEF GameCurrent
  <2>5. Played(game)
    BY <2>3, <2>4 DEF Played, Settled
  <2> QED
    BY <2>5 DEF game
<1> QED
  BY <1>2, <1>3, <1>4

-----------------------------------------------------------------------------
(* Every step keeps it. *)

LEMMA InitCurrency == ASSUME Init PROVE Currency
<1>1. NumbersFine
  BY ContentsAssumption DEF Init, NumbersFine
<1>2. ASSUME NEW save \in LegacySaves PROVE SettledSave(save)
  <2>1. DOMAIN FreshGame(1) =
          {"rev", "legacy", "discovered", "made", "strange", "branches", "ended", "turns"}
    BY DEF FreshGame
  <2> QED
    BY <2>1, SavesAssumption DEF SettledSave, IsGame, Settled
<1>3. SaveFine
  BY <1>2 DEF Init, SaveFine
<1>4. GameFine /\ DiskFine /\ MemoryFine
  BY DEF Init, GameFine, DiskFine, MemoryFine, Writing
<1>5. Together
  BY LivesFacts DEF Init, Together, HasLegacy, Writing
<1> QED
  BY <1>1, <1>3, <1>4, <1>5 DEF Currency

\* What a load that may write has to show.
LEMMA Loaded ==
  ASSUME Currency, Opened, lives' \in Nat, readOnly' = FALSE,
         Settled(engine', deployed), InMemory(profile', shelf', deployed),
         (stored' = profile' /\ stored' # NoProfile) \/ (stored' = NoProfile /\ shelf' = {}),
         HasLegacy(profile') => engine'.legacy,
         engine'.legacy => OldSave(v1)
  PROVE  Currency'
<1>1. page' = "title" /\ content' = deployed /\ deployed' = deployed /\ v1' = v1
  BY DEF Opened
<1>2. NumbersFine' /\ SaveFine'
  BY <1>1 DEF Currency, NumbersFine, SaveFine
<1>3. GameFine' /\ MemoryFine'
  BY <1>1 DEF GameFine, MemoryFine, Writing
<1>4. DiskFine'
  <2>1. CASE stored' = NoProfile /\ shelf' = {}
    BY <2>1 DEF DiskFine
  <2>2. CASE stored' = profile' /\ stored' # NoProfile
    BY <2>2 DEF DiskFine, InMemory
  <2> QED
    BY <2>1, <2>2
<1>5. HasLegacy(stored') => HasLegacy(profile')
  BY LivesFacts DEF HasLegacy
<1>6. OldSave(v1)' <=> OldSave(v1)
  BY <1>1 DEF OldSave
<1>7. Together'
  BY <1>1, <1>5, <1>6 DEF Together
<1> QED
  BY <1>2, <1>3, <1>4, <1>7 DEF Currency

LEMMA ProfileIsSome == ASSUME NEW p, IsProfile(p) PROVE p # NoProfile
<1>1. DOMAIN NoProfile = {"active"}
  BY DEF NoProfile
<1> QED
  BY <1>1 DEF IsProfile

LEMMA FreshIsPlain == ASSUME NEW r PROVE ~ FreshGame(r).legacy
  BY DEF FreshGame

\* initializeProfile(), in each of its five ways.
LEMMA LoadCurrency == ASSUME Inv, Currency, Load PROVE Currency'
<1> DEFINE p == MigratedProfile(stored, deployed)
           after == MigratedShelf(deployed)
           game == p.active.game
<1>1. /\ Opened /\ stored # NoProfile /\ p # NoProfile /\ NoLife \notin after
      /\ stored' = p /\ shelf' = after /\ profile' = p /\ readOnly' = FALSE /\ lives' = lives
      /\ p.active = NoLife => engine' = FreshGame(deployed)
      /\ p.active # NoLife => engine' = EngineLoaded(game, deployed)
  BY DEF Load, LoadAs, Migrates, Show
<1>2. deployed \in Revisions /\ lives \in Nat
  BY DEF Currency, NumbersFine
<1>3. InMemory(p, after, deployed) /\ (HasLegacy(p) <=> HasLegacy(stored))
  <2>1. IsProfile(stored) /\ OnDisk(stored, shelf)
    BY <1>1 DEF Inv, ShapeFine, Currency, DiskFine
  <2>2. after = {MigratedArchive(life, deployed) : life \in shelf}
    BY DEF MigratedShelf
  <2> HIDE DEF after
  <2> QED
    BY <1>1, <1>2, <2>1, <2>2, ProfileMoves
<1> HIDE DEF p, after
<1>4. CASE p.active = NoLife
  <2>1. Settled(engine', deployed) /\ ~ engine'.legacy /\ ~ HasLegacy(p)
    BY <1>1, <1>2, <1>4, FreshSettled, FreshIsPlain, LivesFacts DEF HasLegacy
  <2> QED
    BY <1>1, <1>2, <1>3, <2>1, Loaded
<1>5. CASE p.active # NoLife
  <2>1. LivesOf(p) = {p.active}
    BY <1>5, LivesFacts
  <2>2. game.rev = deployed /\ Settled(game, deployed)
    BY <1>3, <2>1 DEF InMemory, OnDisk, SettledLife
  <2>3. Settled(engine', deployed) /\ engine'.legacy = game.legacy
    <3> HIDE DEF game
    <3>1. IsGame(game)
      BY <2>2 DEF Settled
    <3> QED
      BY <1>1, <1>2, <1>5, <2>2, <3>1, LoadedSettled
  <2>4. HasLegacy(p) <=> game.legacy
    BY <2>1 DEF HasLegacy
  <2>5. HasLegacy(stored) => OldSave(v1)
    BY DEF Currency, Together
  <2> HIDE DEF game
  <2> QED
    BY <1>1, <1>2, <1>3, <2>3, <2>4, <2>5, Loaded
<1> QED
  BY <1>4, <1>5

LEMMA LoadFreshCurrency == ASSUME Currency, LoadFresh PROVE Currency'
<1>1. /\ Opened /\ stored = NoProfile /\ stored' = FreshProfile /\ shelf' = shelf
      /\ profile' = FreshProfile /\ readOnly' = FALSE /\ lives' = lives
      /\ engine' = FreshGame(deployed)
  BY DEF LoadFresh, Show, FreshProfile
<1>2. deployed \in Revisions /\ lives \in Nat /\ shelf = {}
  BY <1>1 DEF Currency, NumbersFine, DiskFine
<1>3. Settled(engine', deployed) /\ ~ engine'.legacy /\ ~ HasLegacy(profile')
  BY <1>1, <1>2, FreshSettled, FreshIsPlain, LivesFacts DEF HasLegacy
<1>4. InMemory(profile', shelf', deployed)
  BY <1>1, <1>2, FreshInMemory
<1>5. FreshProfile # NoProfile
  BY FreshShape, ProfileIsSome
<1> QED
  BY <1>1, <1>2, <1>3, <1>4, <1>5, Loaded

LEMMA LoadLegacyCurrency == ASSUME Currency, LoadLegacy PROVE Currency'
<1> DEFINE moved == MigratedGame(v1, deployed)
           life == LegacyLife(v1, deployed)
           p == LegacyProfile(life, deployed)
<1>1. /\ Opened /\ v1 # None /\ moved # None /\ stored' = p /\ shelf' = LegacyShelf(life)
      /\ profile' = p /\ readOnly' = FALSE /\ lives' = lives + 1
      /\ p.active = NoLife => engine' = FreshGame(deployed)
      /\ p.active # NoLife => engine' = EngineLoaded(p.active.game, deployed)
  BY DEF LoadLegacy, Show
<1>2. deployed \in Revisions /\ lives \in Nat /\ SettledSave(v1)
  BY <1>1 DEF Currency, NumbersFine, SaveFine
<1>3. /\ IsGame(moved) /\ moved.rev \in {0, deployed}
      /\ moved.rev = deployed => Settled(moved, deployed)
      /\ moved.rev = 0 => v1.rev = 0
      /\ moved.rev = deployed => moved.legacy = v1.legacy
  BY <1>1, <1>2, SaveMoves
<1>4. life.life = lives + 1 /\ life.game = Planned(moved, deployed) /\ IsLife(life)
  BY DEF LegacyLife, IsLife
<1> HIDE DEF moved, life
<1>5. Settled(life.game, deployed) /\ (life.game.legacy => OldSave(v1))
  BY <1>2, <1>3, <1>4, PlannedSettled DEF OldSave
<1>6. SettledLife(life) /\ life.game.rev = deployed /\ IsGame(life.game)
  BY <1>2, <1>4, <1>5 DEF SettledLife, Settled
<1>7. InMemory(p, LegacyShelf(life), deployed)
  BY <1>2, <1>4, <1>6, LegacyInMemory
<1>8. p # NoProfile
  BY <1>4, LegacyShape, ProfileIsSome
<1>9. lives' \in Nat
  BY <1>1, <1>2
<1>10. /\ stored' = profile' /\ stored' # NoProfile
       /\ InMemory(profile', shelf', deployed)
  BY <1>1, <1>7, <1>8
<1>11. CASE life.game.ended = None
  <2>1. p.active = life
    BY <1>11 DEF LegacyProfile
  <2>2. life # NoLife
    BY <1>4, LifeIsSome
  <2>3. Settled(engine', deployed) /\ engine'.legacy = life.game.legacy
    BY <1>1, <1>2, <1>5, <1>6, <2>1, <2>2, LoadedSettled
  <2>4. HasLegacy(p) <=> life.game.legacy
    BY <2>1, <2>2, LivesFacts DEF HasLegacy
  <2> HIDE DEF p
  <2> QED
    BY <1>1, <1>5, <1>9, <1>10, <2>3, <2>4, Loaded
<1>12. CASE life.game.ended # None
  <2>1. p.active = NoLife
    BY <1>12 DEF LegacyProfile
  <2> HIDE DEF p
  <2>2. Settled(engine', deployed) /\ ~ engine'.legacy /\ ~ HasLegacy(p)
    BY <1>1, <1>2, <2>1, FreshSettled, FreshIsPlain, LivesFacts DEF HasLegacy
  <2> QED
    BY <1>1, <1>9, <1>10, <2>2, Loaded
<1> QED
  BY <1>11, <1>12

LEMMA LoadLegacyFailsCurrency == ASSUME Currency, LoadLegacyFails PROVE Currency'
<1>1. /\ Opened /\ stored = NoProfile /\ stored' = NoProfile /\ shelf' = shelf
      /\ profile' = FreshProfile /\ readOnly' = FALSE /\ lives' = lives
      /\ engine' = FreshGame(deployed)
  BY DEF LoadLegacyFails, ShowFresh, Show, FreshProfile
<1>2. deployed \in Revisions /\ lives \in Nat /\ shelf = {}
  BY <1>1 DEF Currency, NumbersFine, DiskFine
<1>3. Settled(engine', deployed) /\ ~ engine'.legacy /\ ~ HasLegacy(profile')
  BY <1>1, <1>2, FreshSettled, FreshIsPlain, LivesFacts DEF HasLegacy
<1>4. InMemory(profile', shelf', deployed)
  BY <1>1, <1>2, FreshInMemory
<1> QED
  BY <1>1, <1>2, <1>3, <1>4, Loaded

LEMMA LoadReadOnlyCurrency == ASSUME Currency, LoadReadOnly PROVE Currency'
<1>1. /\ page' = "title" /\ content' = deployed /\ deployed' = deployed /\ v1' = v1
      /\ stored' = stored /\ shelf' = shelf /\ readOnly' = TRUE /\ lives' = lives
      /\ engine' = FreshGame(deployed)
  BY DEF LoadReadOnly, Opened, disk
<1>2. NumbersFine' /\ SaveFine' /\ DiskFine' /\ MemoryFine'
  BY <1>1 DEF Currency, NumbersFine, SaveFine, DiskFine, MemoryFine, Writing
<1>3. GameFine'
  BY <1>1, FreshSettled DEF GameFine, Currency, NumbersFine
<1>4. Together'
  BY <1>1 DEF Currency, Together, Writing, OldSave, HasLegacy, LivesOf
<1> QED
  BY <1>2, <1>3, <1>4 DEF Currency

\* What the page in memory gives its steps.
LEMMA MemoryFacts ==
  ASSUME Inv, Currency, Writing
  PROVE  /\ content \in Revisions /\ lives \in Nat
         /\ IsProfile(profile) /\ InMemory(profile, shelf, content) /\ Settled(engine, content)
         /\ HasLegacy(stored) => HasLegacy(profile)
         /\ HasLegacy(profile) => engine.legacy
         /\ engine.legacy => OldSave(v1)
  BY DEF Inv, ShapeFine, Currency, NumbersFine, MemoryFine, GameFine, Together, Writing

\* And what an archived life leaves.
LEMMA LeftFacts ==
  ASSUME Inv, Currency, Writing, profile.active # NoLife, NEW ending \in {None, engine.ended}
  PROVE  /\ InMemory(Left(ending), shelf \cup {Leaving(ending)}, content)
         /\ IsProfile(Left(ending)) /\ Left(ending) # NoProfile /\ ~ HasLegacy(Left(ending))
<1>1. InMemory(Left(ending), shelf \cup {Leaving(ending)}, content)
  BY MemoryFacts, LeftInMemory
<1>2. IsProfile(Left(ending)) /\ Left(ending).active = NoLife
  BY MemoryFacts, LeftShape
<1> QED
  BY <1>1, <1>2, ProfileIsSome, LivesFacts DEF HasLegacy

LEMMA DeployCurrency == ASSUME Currency, NEW r \in Revisions, Deploy(r) PROVE Currency'
<1>1. /\ page = "closed" /\ page' = "closed" /\ deployed' = r
      /\ UNCHANGED <<stored, shelf, v1, lives>>
  BY DEF Deploy, disk
<1>2. NumbersFine' /\ SaveFine' /\ GameFine' /\ DiskFine' /\ MemoryFine'
  BY <1>1 DEF Currency, NumbersFine, SaveFine, GameFine, DiskFine, MemoryFine, Writing
<1>3. Together'
  BY <1>1 DEF Currency, Together, Writing, OldSave, HasLegacy, LivesOf
<1> QED
  BY <1>2, <1>3 DEF Currency

LEMMA GoneCurrency ==
  ASSUME Currency, Gone, deployed' = deployed, lives' = lives, v1' \in {v1, None},
         DiskFine', v1' = None \/ (HasLegacy(stored') => HasLegacy(stored))
  PROVE  Currency'
<1>1. page' = "closed"
  BY DEF Gone
<1>2. NumbersFine' /\ SaveFine' /\ GameFine' /\ MemoryFine'
  BY <1>1 DEF Currency, NumbersFine, SaveFine, GameFine, MemoryFine, Writing
<1>3. Together'
  BY <1>1 DEF Currency, Together, Writing, OldSave
<1> QED
  BY <1>2, <1>3 DEF Currency

LEMMA LeavingCurrency ==
  ASSUME Inv, Currency, Close \/ Restart \/ ChooseTarget
  PROVE  Currency'
<1>1. Gone /\ deployed' = deployed /\ lives' = lives /\ v1' \in {v1, None}
  BY DEF Close, Restart, ChooseTarget
<1>2. CASE stored' = stored /\ shelf' = shelf
  <2>1. DiskFine'
    BY <1>2 DEF Currency, DiskFine
  <2>2. HasLegacy(stored') => HasLegacy(stored)
    BY <1>2
  <2> QED
    BY <1>1, <2>1, <2>2, GoneCurrency
<1>3. CASE Restart /\ profile.active # NoLife
  <2>1. Writing
    BY <1>3 DEF Restart, Inv, ReadOnlyFine, Writing
  <2>2. v1' = None /\ stored' = Left(None) /\ shelf' = shelf \cup {Leaving(None)}
    BY <1>3 DEF Restart, Shelved
  <2>3. DiskFine' /\ ~ HasLegacy(stored')
    BY <1>3, <2>1, <2>2, LeftFacts DEF DiskFine, InMemory
  <2> QED
    BY <1>1, <2>2, <2>3, GoneCurrency
<1> QED
  BY <1>2, <1>3 DEF Close, Restart, ChooseTarget, Shelved, disk

\* tryLoad(): the game of the save, or that of the life.
LEMMA ContinueCurrency == ASSUME Inv, Currency, Continue PROVE Currency'
<1>1. /\ page = "title" /\ ~ readOnly /\ page' = "playing" /\ readOnly' = readOnly
      /\ UNCHANGED <<deployed, content, stored, shelf, v1, profile, lives>>
      /\ Resumable /\ engine' = EngineLoaded(Resumed, content)
  BY DEF Continue, Started, disk
<1>2. Writing /\ Writing'
  BY <1>1 DEF Writing
<1> DEFINE game == Resumed
<1>3. /\ IsGame(game) /\ game.rev \in {0, content} /\ (game.rev = content => Settled(game, content))
      /\ game.legacy \/ game.rev = 0 => OldSave(v1)
      /\ HasLegacy(profile) => game.legacy \/ game.rev = 0
  <2>1. CASE Compatible # None
    <3>1. v1 # None /\ game = MigratedGame(v1, content) /\ game # None
      BY <2>1 DEF Compatible, Resumed
    <3>2. SettledSave(v1)
      BY <3>1 DEF Currency, SaveFine
    <3>3. /\ IsGame(game) /\ game.rev \in {0, content} /\ (game.rev = content => Settled(game, content))
          /\ (game.rev = 0 => v1.rev = 0) /\ (game.rev = content => game.legacy = v1.legacy)
      BY <1>2, <3>1, <3>2, MemoryFacts, SaveMoves
    <3>4. HasLegacy(profile) => OldSave(v1)
      BY <1>2, MemoryFacts
    <3>5. content # 0
      BY <1>2, MemoryFacts, RevisionFacts
    <3>6. v1.rev = 0 => game.rev = 0
      BY <3>1 DEF MigratedGame
    <3> HIDE DEF game
    <3> QED
      BY <3>1, <3>3, <3>4, <3>5, <3>6 DEF OldSave
  <2>2. CASE Compatible = None
    <3>1. game = profile.active.game /\ profile.active # NoLife
      BY <1>1, <2>2 DEF Resumable, Resumed
    <3>2. LivesOf(profile) = {profile.active}
      BY <3>1, LivesFacts
    <3>3. Settled(game, content)
      BY <1>2, <3>1, <3>2, MemoryFacts DEF InMemory, OnDisk, SettledLife
    <3>4. HasLegacy(profile) <=> game.legacy
      BY <3>1, <3>2 DEF HasLegacy
    <3>5. HasLegacy(profile) => OldSave(v1)
      BY <1>2, MemoryFacts
    <3>6. IsGame(game) /\ game.rev = content /\ content # 0
      BY <1>2, <3>3, MemoryFacts, RevisionFacts DEF Settled
    <3> HIDE DEF game
    <3> QED
      BY <3>3, <3>4, <3>5, <3>6
  <2> QED
    BY <2>1, <2>2
<1> HIDE DEF game
<1>4. /\ Settled(engine', content)
      /\ engine'.legacy => OldSave(v1)
      /\ HasLegacy(profile) => engine'.legacy
  <2>1. engine' = EngineLoaded(game, content)
    BY <1>1 DEF game
  <2>2. content \in Revisions
    BY <1>2, MemoryFacts
  <2>3. /\ Settled(engine', content)
        /\ game.rev = 0 => engine'.legacy
        /\ game.rev = content => engine'.legacy = game.legacy
    BY <1>3, <2>1, <2>2, LoadedSettled
  <2>4. game.rev = content => content # 0
    BY <2>2, RevisionFacts
  <2> QED
    BY <1>3, <2>3, <2>4
<1>5. NumbersFine' /\ SaveFine' /\ DiskFine' /\ MemoryFine'
  BY <1>1, <1>2 DEF Currency, NumbersFine, SaveFine, DiskFine, MemoryFine, Writing
<1>6. GameFine'
  BY <1>1, <1>4 DEF GameFine
<1>7. Together'
  <2>1. OldSave(v1)' <=> OldSave(v1)
    BY <1>1 DEF OldSave
  <2>2. HasLegacy(stored') <=> HasLegacy(stored)
    BY <1>1
  <2>3. HasLegacy(profile') <=> HasLegacy(profile)
    BY <1>1
  <2>4. HasLegacy(stored) => HasLegacy(profile)
    BY <1>2, MemoryFacts
  <2> QED
    BY <1>4, <2>1, <2>2, <2>3, <2>4 DEF Together
<1> QED
  BY <1>5, <1>6, <1>7 DEF Currency

\* A new life, once the one before is archived.
LEMMA BeginLifeCurrency ==
  ASSUME Inv, Currency, Started, NEW before, IsProfile(before), before.active = NoLife,
         InMemory(before, shelf', content), BeginLife(before), v1' \in {v1, None}
  PROVE  Currency'
<1> DEFINE life == [life |-> lives + 1, game |-> FreshGame(content), target |-> wish,
                    events |-> <<>>]
           p == [before EXCEPT !.active = life]
<1>1. /\ page = "title" /\ ~ readOnly /\ page' = "playing" /\ readOnly' = readOnly
      /\ UNCHANGED <<deployed, content>> /\ lives' = lives + 1
      /\ engine' = FreshGame(content) /\ profile' = p /\ stored' = p
  BY DEF Started, BeginLife
<1>2. Writing /\ Writing'
  BY <1>1 DEF Writing
<1>3. content \in Revisions /\ lives \in Nat
  BY <1>2, MemoryFacts
<1>4. IsLife(life) /\ life.life \in Nat /\ life.game = FreshGame(content)
  BY <1>3 DEF IsLife
<1> HIDE DEF life
<1>5. InMemory(p, shelf', content) /\ ~ HasLegacy(p)
  BY <1>3, <1>4, BegunInMemory
<1>6. p # NoProfile
  <2>1. IsProfile(p)
    BY <1>4 DEF IsProfile
  <2> QED
    BY <2>1, ProfileIsSome
<1> HIDE DEF p
<1>7. NumbersFine' /\ SaveFine'
  BY <1>1, <1>3 DEF Currency, NumbersFine, SaveFine
<1>8. MemoryFine' /\ DiskFine'
  BY <1>1, <1>5, <1>6 DEF MemoryFine, DiskFine, InMemory
<1>9. GameFine'
  BY <1>1, <1>3, FreshSettled DEF GameFine
<1>10. Together'
  BY <1>1, <1>5, FreshIsPlain DEF Together
<1> QED
  BY <1>7, <1>8, <1>9, <1>10 DEF Currency

LEMMA StartingCurrency == ASSUME Inv, Currency, ContinueAnew \/ NewLife PROVE Currency'
<1>1. Started /\ Writing
  BY DEF ContinueAnew, NewLife, Started, Writing
<1>2. CASE ContinueAnew
  <2>1. BeginLife(profile) /\ profile.active = NoLife /\ shelf' = shelf /\ v1' = v1
    BY <1>2 DEF ContinueAnew, Resumable
  <2> QED
    BY <1>1, <2>1, MemoryFacts, BeginLifeCurrency
<1>3. CASE NewLife
  <2>1. BeginLife(Left(None)) /\ Shelved(None) /\ v1' = None
    BY <1>3 DEF NewLife
  <2>2. IsProfile(Left(None)) /\ Left(None).active = NoLife
    BY <1>1, MemoryFacts, LeftShape
  <2>3. InMemory(Left(None), shelf', content)
    <3>1. CASE profile.active = NoLife
      BY <1>1, <2>1, <3>1, MemoryFacts DEF Shelved, Left
    <3>2. CASE profile.active # NoLife
      BY <1>1, <2>1, <3>2, LeftFacts DEF Shelved
    <3> QED
      BY <3>1, <3>2
  <2> QED
    BY <1>1, <2>1, <2>2, <2>3, BeginLifeCurrency
<1> QED
  BY <1>2, <1>3

\* A turn, whether or not its write reaches the disk.
LEMMA TurnCurrency ==
  ASSUME Inv, Currency, page = "playing", NEW game, Played(game), NEW gave, NEW written,
         Turn(game, gave, written)
  PROVE  Currency'
<1>1. /\ page' \in {"playing", "over"} /\ readOnly' = readOnly /\ ~ readOnly
      /\ UNCHANGED <<deployed, content, shelf, lives>>
      /\ engine' = [game EXCEPT !.turns = game.turns + 1] /\ v1' \in {engine', v1}
  BY DEF Turn, Inv, ReadOnlyFine
<1>2. Writing /\ Writing'
  BY <1>1 DEF Writing
<1>3. content \in Revisions /\ IsProfile(profile) /\ InMemory(profile, shelf, content)
  BY <1>2, MemoryFacts
<1>4. Settled(engine', content) /\ engine'.legacy = engine.legacy
  <2> DEFINE next == [game EXCEPT !.turns = game.turns + 1]
  <2>1. IsGame(game)
    BY DEF Played, Settled
  <2>2. /\ IsGame(next) /\ next.rev = game.rev /\ next.legacy = game.legacy /\ next.made = game.made
        /\ next.discovered = game.discovered /\ next.branches = game.branches
        /\ next.ended = game.ended
    BY <2>1 DEF IsGame
  <2> HIDE DEF next
  <2>3. Settled(next, content) /\ next.legacy = engine.legacy
    BY <2>2 DEF Played, Settled, GameCurrent
  <2> QED
    BY <1>1, <2>3 DEF next
<1>5. SettledSave(engine')
  BY <1>3, <1>4 DEF SettledSave, Settled
<1>6. /\ InMemory(profile', shelf, content)
      /\ stored' = stored \/ (stored' = profile' /\ stored' # NoProfile)
      /\ HasLegacy(profile') => engine'.legacy
      /\ HasLegacy(stored') => HasLegacy(profile')
  <2>1. CASE profile.active = NoLife
    <3>1. profile' = profile /\ stored' = stored
      BY <2>1 DEF Turn
    <3>2. HasLegacy(stored) => HasLegacy(profile)
      BY <1>2, MemoryFacts
    <3>3. ~ HasLegacy(profile)
      BY <2>1, LivesFacts DEF HasLegacy
    <3> QED
      BY <1>3, <3>1, <3>2, <3>3
  <2>2. CASE profile.active # NoLife
    <3> DEFINE p == [profile EXCEPT
                       !.active = [profile.active EXCEPT !.game = engine', !.events = journal'],
                       !.compendium = LiveProgress(profile.compendium, engine',
                                                   profile.active.life, content)]
    <3>1. profile' = p /\ stored' \in {p, stored}
      BY <2>2 DEF Turn
    <3>2. HasLegacy(profile) => engine.legacy
      BY <1>2, MemoryFacts
    <3>3. InMemory(p, shelf, content) /\ p.active.game = engine' /\ p.active # NoLife
      BY <1>3, <1>4, <2>2, <3>2, PlayedInMemory
    <3>4. p # NoProfile
      <4>1. IsProfile(profile')
        BY TurnInv DEF Inv, ShapeFine
      <4> QED
        BY <3>1, <4>1, ProfileIsSome
    <3> HIDE DEF p
    <3>5. HasLegacy(p) <=> engine'.legacy
      BY <3>3, LivesFacts DEF HasLegacy
    <3>6. HasLegacy(stored) => engine'.legacy
      <4>1. HasLegacy(stored) => engine.legacy
        BY <1>2, MemoryFacts
      <4> QED
        BY <1>4, <4>1
    <3> QED
      BY <3>1, <3>3, <3>4, <3>5, <3>6
  <2> QED
    BY <2>1, <2>2
<1>7. engine'.legacy => OldSave(v1)'
  <2>1. engine.legacy => OldSave(v1)
    BY <1>2, MemoryFacts
  <2> QED
    BY <1>1, <1>4, <2>1 DEF OldSave
<1>8. NumbersFine' /\ GameFine' /\ MemoryFine'
  BY <1>1, <1>4, <1>6 DEF Currency, NumbersFine, GameFine, MemoryFine
<1>9. SaveFine'
  BY <1>1, <1>5 DEF Currency, SaveFine
<1>10. DiskFine'
  BY <1>1, <1>6 DEF Currency, DiskFine, InMemory
<1>11. Together'
  BY <1>6, <1>7 DEF Together
<1> QED
  BY <1>8, <1>9, <1>10, <1>11 DEF Currency

LEMMA PlayCurrency == ASSUME Inv, Currency, Play PROVE Currency'
<1>1. page = "playing" /\ Writing
  BY DEF Play, Inv, ReadOnlyFine, Writing
<1>2. content \in Revisions /\ Settled(engine, content)
  BY <1>1, MemoryFacts
<1>3. PICK written \in BOOLEAN, ending \in Contents[content].endings \cup {None} :
        Discover(written, ending) \/ Invent(written, ending) \/ Fail(written, ending)
  BY DEF Play
<1>4. \E game, gave : Played(game) /\ Turn(game, gave, written)
  <2>1. CASE Discover(written, ending)
    BY <1>2, <2>1, PlaysSettled DEF Discover
  <2>2. CASE Invent(written, ending)
    BY <1>2, <2>2, PlaysSettled DEF Invent
  <2>3. CASE Fail(written, ending)
    BY <1>2, <2>3, PlaysSettled DEF Fail
  <2> QED
    BY <1>3, <2>1, <2>2, <2>3
<1> QED
  BY <1>1, <1>4, TurnCurrency

LEMMA FinishCurrency == ASSUME Inv, Currency, Finish PROVE Currency'
<1>1. /\ page = "over" /\ page' = "playing" /\ readOnly' = readOnly /\ v1' = None
      /\ UNCHANGED <<deployed, content, engine, lives>>
      /\ profile' = Left(engine.ended) /\ Shelved(engine.ended)
      /\ stored' = IF profile.active = NoLife THEN stored ELSE profile'
  BY DEF Finish
<1>2. Writing /\ Writing'
  BY <1>1 DEF Writing, Inv, ReadOnlyFine
<1>3. /\ InMemory(profile', shelf', content) /\ DiskFine'
      /\ ~ HasLegacy(profile') /\ ~ HasLegacy(stored')
  <2>1. CASE profile.active = NoLife
    <3>1. profile' = profile /\ stored' = stored /\ shelf' = shelf
      BY <1>1, <2>1 DEF Shelved, Left
    <3>2. ~ HasLegacy(profile) /\ (HasLegacy(stored) => HasLegacy(profile))
      BY <1>2, <2>1, MemoryFacts, LivesFacts DEF HasLegacy
    <3>3. InMemory(profile, shelf, content) /\ DiskFine
      BY <1>2, MemoryFacts DEF Currency
    <3> QED
      BY <3>1, <3>2, <3>3 DEF DiskFine
  <2>2. CASE profile.active # NoLife
    <3>1. stored' = profile' /\ shelf' = shelf \cup {Leaving(engine.ended)}
      BY <1>1, <2>2 DEF Shelved
    <3>2. /\ InMemory(profile', shelf', content) /\ profile' # NoProfile /\ ~ HasLegacy(profile')
      BY <1>1, <1>2, <2>2, <3>1, LeftFacts
    <3> QED
      BY <3>1, <3>2 DEF DiskFine, InMemory
  <2> QED
    BY <2>1, <2>2
<1>4. NumbersFine' /\ SaveFine' /\ GameFine' /\ MemoryFine'
  BY <1>1, <1>3 DEF Currency, NumbersFine, SaveFine, GameFine, MemoryFine
<1>5. Together'
  BY <1>1, <1>3 DEF Together, OldSave
<1> QED
  BY <1>3, <1>4, <1>5 DEF Currency

LEMMA RetryCurrency == ASSUME Inv, Currency, RetrySaving PROVE Currency'
<1>1. /\ page \in {"playing", "over"} /\ stored = NoProfile /\ stored' = profile
      /\ UNCHANGED <<deployed, shelf, v1, page, content, readOnly, profile, engine, lives>>
  BY DEF RetrySaving
<1>2. IsProfile(profile) /\ Writing
  BY <1>1 DEF Inv, ShapeFine, ReadOnlyFine, Writing
<1>3. profile # NoProfile
  BY <1>2, ProfileIsSome
<1>4. OnDisk(profile, shelf)
  BY <1>2 DEF Currency, MemoryFine, InMemory
<1>5. DiskFine'
  BY <1>1, <1>3, <1>4 DEF DiskFine, OnDisk
<1>6. NumbersFine' /\ SaveFine' /\ GameFine' /\ MemoryFine'
  BY <1>1 DEF Currency, NumbersFine, SaveFine, GameFine, MemoryFine, Writing
<1>7. Together'
  BY <1>1, <1>2 DEF Currency, Together, Writing, OldSave
<1> QED
  BY <1>5, <1>6, <1>7 DEF Currency

LEMMA NextCurrency == ASSUME Inv, Currency, [Next]_vars PROVE Currency'
<1>1. CASE UNCHANGED vars
  <2>1. UNCHANGED <<deployed, stored, shelf, v1, page, content, readOnly, profile, engine, lives>>
    BY <1>1 DEF vars, disk
  <2>2. NumbersFine' /\ SaveFine' /\ GameFine' /\ DiskFine' /\ MemoryFine'
    BY <2>1 DEF Currency, NumbersFine, SaveFine, GameFine, DiskFine, MemoryFine, Writing
  <2>3. Together'
    BY <2>1 DEF Currency, Together, Writing, OldSave
  <2> QED
    BY <2>2, <2>3 DEF Currency
<1> QED
  BY <1>1, LoadCurrency, LoadReadOnlyCurrency, LoadFreshCurrency, LoadLegacyCurrency,
     LoadLegacyFailsCurrency, DeployCurrency, LeavingCurrency, ContinueCurrency,
     StartingCurrency, PlayCurrency, FinishCurrency, RetryCurrency
  DEF Next

-----------------------------------------------------------------------------
(* The journal of a life.  It tells of a life of n summers: its events are    *)
(* numbered as they came, and each entry of its chronicle has its attempt     *)
(* before it, in a summer that was lived and after those of the entries       *)
(* before.                                                                    *)

Tells(events, n) ==
  /\ n \in Nat
  /\ events \in Seq(Event)
  /\ \A i, j \in DOMAIN events : i < j => events[i].seq < events[j].seq
  /\ \A i \in Told(events) :
       /\ events[i].turn <= n
       /\ \E j \in DOMAIN events :
            j < i /\ events[j].kind = "attempt" /\ events[j].turn = events[i].turn
       /\ \A j \in Told(events) : i < j => events[i].turn < events[j].turn

LEMMA EventFacts ==
  ASSUME NEW events \in Seq(Event)
  PROVE  /\ Len(events) \in Nat /\ DOMAIN events = 1 .. Len(events)
         /\ \A i \in DOMAIN events :
              i \in Nat /\ events[i].seq \in Nat /\ events[i].turn \in Nat
<1>1. /\ Len(events) \in Nat /\ DOMAIN events = 1 .. Len(events)
      /\ events \in [1 .. Len(events) -> Event]
  BY LenProperties
<1>2. \A i \in DOMAIN events : events[i] \in Event
  BY <1>1
<1> QED
  BY <1>1, <1>2 DEF Event

LEMMA TellsLater ==
  ASSUME NEW n, NEW events, Tells(events, n), NEW m \in Nat, n <= m
  PROVE  Tells(events, m)
<1>1. \A i \in Told(events) : events[i].turn \in Nat
  BY EventFacts DEF Tells, Told
<1> QED
  BY <1>1 DEF Tells

LEMMA NothingTells == ASSUME NEW n \in Nat PROVE Tells(<<>>, n)
  BY DEF Tells, Told

\* A journal that tells is read in the order it was written in.
LEMMA ToldInOrder ==
  ASSUME NEW events, NEW n, Tells(events, n)
  PROVE  \A i \in Told(events) :
           /\ Attempted(events, i)
           /\ events[i].turn <= n
           /\ \A j \in Told(events) : Before(events, i, j) => events[i].turn < events[j].turn
<1>1. ASSUME NEW i \in DOMAIN events, NEW j \in DOMAIN events
      PROVE  Before(events, i, j) <=> i < j
  <2>1. /\ i \in Nat /\ j \in Nat /\ events[i].seq \in Nat /\ events[j].seq \in Nat
        /\ i < j => events[i].seq < events[j].seq
        /\ j < i => events[j].seq < events[i].seq
    BY EventFacts DEF Tells
  <2> QED
    BY <2>1 DEF Before
<1>2. Told(events) \subseteq DOMAIN events
  BY DEF Told
<1> QED
  BY <1>1, <1>2 DEF Tells, Attempted

\* Kinds of events that may be emitted of a life of n summers in its summer turn: at
\* most one entry, which has its attempt before it and a summer of its own.
Reports(kinds, n, turn) ==
  /\ kinds \in Seq(EventKinds)
  /\ \A i \in DOMAIN kinds : kinds[i] = "entry" =>
       /\ n < turn
       /\ \E j \in DOMAIN kinds : j < i /\ kinds[j] = "attempt"
       /\ \A j \in DOMAIN kinds : kinds[j] = "entry" => j = i

LEMMA TurnReports ==
  ASSUME NEW n \in Nat, NEW turn \in Nat, n < turn
  PROVE  /\ Reports(<<"attempt", "entry">> \o <<>>, n, turn)
         /\ Reports(<<"attempt", "entry">> \o <<"fate">>, n, turn)
<1> DEFINE both == <<"attempt", "entry">>
           fate == <<"fate">>
           three == both \o fate
<1>1. /\ both \in Seq(EventKinds) /\ Len(both) = 2 /\ DOMAIN both = {1, 2}
      /\ both[1] = "attempt" /\ both[2] = "entry"
      /\ fate \in Seq(EventKinds) /\ Len(fate) = 1 /\ fate[1] = "fate"
  BY DEF EventKinds
<1> HIDE DEF both, fate
<1>2. both \o <<>> = both
  BY <1>1, ConcatEmptySeq
<1>3. /\ three \in Seq(EventKinds) /\ DOMAIN three = {1, 2, 3}
      /\ three[1] = "attempt" /\ three[2] = "entry" /\ three[3] = "fate"
  <2>1. /\ three \in Seq(EventKinds) /\ Len(three) = 3
        /\ \A i \in 1 .. 3 : three[i] = IF i <= 2 THEN both[i] ELSE fate[i - 2]
    <3>1. /\ three \in Seq(EventKinds) /\ Len(three) = Len(both) + Len(fate)
          /\ \A i \in 1 .. Len(both) + Len(fate) :
               three[i] = IF i <= Len(both) THEN both[i] ELSE fate[i - Len(both)]
      BY <1>1, ConcatProperties
    <3> HIDE DEF three
    <3> QED
      BY <1>1, <3>1
  <2> HIDE DEF three
  <2>2. DOMAIN three = 1 .. 3
    BY <2>1, LenProperties
  <2> QED
    BY <1>1, <2>1, <2>2
<1> HIDE DEF three
<1>4. Reports(both, n, turn)
  BY <1>1 DEF Reports
<1>5. Reports(three, n, turn)
  BY <1>3 DEF Reports
<1> QED
  BY <1>2, <1>4, <1>5 DEF both, fate, three

LEMMA StartReports ==
  ASSUME NEW n, NEW turn
  PROVE  Reports(<<"started">>, n, turn) /\ Reports(<<"replay", "started">>, n, turn)
  BY DEF Reports, EventKinds

\* The numbers of a journal are behind that of the page.
Numbered(events) == sequence \in Nat /\ \A i \in DOMAIN events : events[i].seq <= sequence

\* emit(), of a life of n summers in its summer turn.
LEMMA EmittedTells ==
  ASSUME NEW events, NEW n, Tells(events, n), Numbered(events),
         NEW turn \in Nat, n <= turn, NEW kinds, Reports(kinds, n, turn),
         journal' = Emitted(events, kinds, turn), sequence' = sequence + Len(kinds)
  PROVE  Tells(journal', turn) /\ Numbered(journal)'
<1> DEFINE new == [i \in DOMAIN kinds |->
                     [seq |-> sequence + i, turn |-> turn, kind |-> kinds[i]]]
           next == events \o new
           l == Len(events)
           k == Len(kinds)
<1>1. kinds \in Seq(EventKinds) /\ k \in Nat /\ DOMAIN kinds = 1 .. k /\ sequence \in Nat
  BY DEF Reports, Numbered
<1>2. events \in Seq(Event) /\ l \in Nat /\ DOMAIN events = 1 .. l
  BY DEF Tells
<1>3. \A i \in 1 .. k : /\ new[i].seq = sequence + i /\ new[i].turn = turn /\ new[i].kind = kinds[i]
                        /\ new[i] \in Event
  BY <1>1 DEF Event, EventKinds
<1>4. new \in Seq(Event) /\ Len(new) = k
  <2>1. new \in [1 .. k -> Event]
    BY <1>1, <1>3
  <2> QED
    BY <1>1, <2>1
<1> HIDE DEF new
<1>5. /\ next \in Seq(Event) /\ Len(next) = l + k /\ DOMAIN next = 1 .. l + k
      /\ \A i \in 1 .. l : next[i] = events[i]
      /\ \A i \in 1 .. k : next[l + i] = new[i]
  <2> HIDE DEF l, k
  <2>1. /\ next \in Seq(Event) /\ Len(next) = l + k
        /\ \A i \in 1 .. l + k : next[i] = IF i <= l THEN events[i] ELSE new[i - l]
    <3>1. /\ next \in Seq(Event) /\ Len(next) = Len(events) + Len(new)
          /\ \A i \in 1 .. Len(events) + Len(new) :
               next[i] = IF i <= Len(events) THEN events[i] ELSE new[i - Len(events)]
      BY <1>2, <1>4, ConcatProperties
    <3> QED
      BY <1>4, <3>1 DEF l
  <2>2. DOMAIN next = 1 .. l + k
    BY <2>1, LenProperties
  <2>3. \A i \in 1 .. k : l + i \in 1 .. l + k /\ ~ (l + i <= l) /\ (l + i) - l = i
    BY <1>1, <1>2
  <2>4. \A i \in 1 .. l : i \in 1 .. l + k /\ i <= l
    BY <1>1, <1>2
  <2> QED
    BY <2>1, <2>2, <2>3, <2>4
<1> HIDE DEF next
<1>6. ASSUME NEW i \in DOMAIN next
      PROVE  \/ i \in DOMAIN events /\ next[i] = events[i]
             \/ \E h \in DOMAIN kinds :
                  /\ i = l + h /\ next[i].seq = sequence + h /\ next[i].turn = turn
                  /\ next[i].kind = kinds[h]
  <2> HIDE DEF l, k
  <2>1. i \in 1 .. l \/ (\E h \in 1 .. k : i = l + h)
    <3>1. i \in 1 .. l + k
      BY <1>5
    <3>2. i \in 1 .. l \/ (i - l \in 1 .. k /\ i = l + (i - l))
      BY <1>1, <1>2, <3>1
    <3> QED
      BY <3>2
  <2>2. CASE i \in 1 .. l
    BY <1>2, <1>5, <2>2
  <2>3. CASE \E h \in 1 .. k : i = l + h
    <3>1. PICK h \in 1 .. k : i = l + h
      BY <2>3
    <3>2. next[i] = new[h] /\ h \in DOMAIN kinds
      BY <1>1, <1>5, <3>1
    <3> QED
      BY <1>3, <3>1, <3>2
  <2> QED
    BY <2>1, <2>2, <2>3
<1>7. /\ \A i \in DOMAIN events : i \in DOMAIN next /\ next[i] = events[i] /\ i \in Nat /\ i <= l
      /\ \A h \in DOMAIN kinds :
           /\ l + h \in DOMAIN next /\ next[l + h].turn = turn /\ next[l + h].kind = kinds[h]
           /\ h \in Nat /\ h > 0
  <2> HIDE DEF l, k
  <2>1. ASSUME NEW i \in DOMAIN events
        PROVE  i \in DOMAIN next /\ next[i] = events[i] /\ i \in Nat /\ i <= l
    <3>1. i \in 1 .. l /\ i \in 1 .. l + k
      BY <1>1, <1>2
    <3> QED
      BY <1>2, <1>5, <3>1
  <2>2. ASSUME NEW h \in DOMAIN kinds
        PROVE  /\ l + h \in DOMAIN next /\ next[l + h].turn = turn
               /\ next[l + h].kind = kinds[h] /\ h \in Nat /\ h > 0
    <3>1. h \in 1 .. k
      BY <1>1
    <3>2. l + h \in 1 .. l + k /\ h \in Nat /\ h > 0
      BY <1>1, <1>2, <3>1
    <3>3. next[l + h] = new[h]
      BY <1>5, <3>1
    <3> QED
      BY <1>3, <1>5, <3>1, <3>2, <3>3
  <2> QED
    BY <2>1, <2>2
<1>8. \A i \in DOMAIN events : events[i].seq \in Nat /\ events[i].seq <= sequence
                              /\ events[i].turn \in Nat
  BY <1>2, EventFacts DEF Numbered
<1> HIDE DEF l, k
<1>9. ASSUME NEW i \in DOMAIN next, NEW j \in DOMAIN next, i < j
      PROVE  next[i].seq < next[j].seq
  BY <1>1, <1>2, <1>6, <1>7, <1>8, <1>9 DEF Tells
<1>10. ASSUME NEW i \in Told(next)
       PROVE  /\ next[i].turn <= turn
              /\ \E j \in DOMAIN next :
                   j < i /\ next[j].kind = "attempt" /\ next[j].turn = next[i].turn
              /\ \A j \in Told(next) : i < j => next[i].turn < next[j].turn
  <2>1. i \in DOMAIN next /\ next[i].kind = "entry"
    BY DEF Told
  <2>2. CASE i \in DOMAIN events /\ next[i] = events[i]
    <3>1. i \in Told(events)
      BY <2>1, <2>2 DEF Told
    <3>2. next[i].turn <= n /\ next[i].turn \in Nat /\ n \in Nat
      BY <2>2, <3>1, <1>8 DEF Tells
    <3>3. \E j \in DOMAIN next :
            j < i /\ next[j].kind = "attempt" /\ next[j].turn = next[i].turn
      BY <2>2, <3>1, <1>7 DEF Tells
    <3>4. ASSUME NEW j \in Told(next), i < j PROVE next[i].turn < next[j].turn
      <4>1. j \in DOMAIN next /\ next[j].kind = "entry"
        BY DEF Told
      <4>2. CASE j \in DOMAIN events /\ next[j] = events[j]
        <5>1. j \in Told(events)
          BY <4>1, <4>2 DEF Told
        <5> QED
          BY <2>2, <3>1, <3>4, <4>2, <5>1 DEF Tells
      <4>3. CASE \E h \in DOMAIN kinds : next[j].turn = turn /\ next[j].kind = kinds[h]
        <5>1. n < turn /\ next[j].turn = turn
          BY <4>1, <4>3 DEF Reports
        <5> QED
          BY <3>2, <5>1
      <4> QED
        BY <1>6, <4>1, <4>2, <4>3
    <3> QED
      BY <3>2, <3>3, <3>4
  <2>3. CASE \E h \in DOMAIN kinds :
               i = l + h /\ next[i].turn = turn /\ next[i].kind = kinds[h]
    <3>1. PICK h \in DOMAIN kinds : i = l + h /\ next[i].turn = turn /\ kinds[h] = "entry"
      BY <2>1, <2>3
    <3>2. PICK a \in DOMAIN kinds : a < h /\ kinds[a] = "attempt"
      BY <3>1 DEF Reports
    <3>3. /\ l + a \in DOMAIN next /\ l + a < i /\ next[l + a].kind = "attempt"
          /\ next[l + a].turn = turn
      BY <1>2, <1>7, <3>1, <3>2
    <3>4. ASSUME NEW j \in Told(next), i < j PROVE FALSE
      <4>1. j \in DOMAIN next /\ next[j].kind = "entry"
        BY DEF Told
      <4>2. j \notin DOMAIN events
        BY <1>2, <1>7, <3>1, <3>4
      <4>3. PICK g \in DOMAIN kinds : j = l + g /\ kinds[g] = "entry"
        BY <1>6, <4>1, <4>2
      <4> QED
        BY <1>2, <1>7, <3>1, <3>4, <4>3 DEF Reports
    <3> QED
      BY <3>1, <3>3, <3>4
  <2> QED
    BY <1>6, <2>1, <2>2, <2>3
<1>11. Tells(next, turn)
  BY <1>5, <1>9, <1>10 DEF Tells
<1>12. \A i \in DOMAIN next : next[i].seq <= sequence + k
  BY <1>1, <1>6, <1>8
<1>13. journal' = next /\ sequence' = sequence + k
  BY DEF Emitted, next, new, k
<1>14. sequence + k \in Nat
  BY <1>1
<1> QED
  BY <1>11, <1>12, <1>13, <1>14 DEF Numbered

-----------------------------------------------------------------------------
(* The journals on disk and in memory. *)

TurnsFine ==
  /\ sequence \in Nat
  /\ v1 # None => v1.turns \in Nat
  /\ page # "closed" => engine.turns \in Nat

ShelfTells == \A life \in shelf : Tells(life.events, life.game.turns)

\* The compatibility save is not behind the journal of the life on disk.
DiskTells ==
  \A life \in LivesOf(stored) :
    /\ Tells(life.events, life.game.turns)
    /\ v1 # None => Tells(life.events, v1.turns)

MemoryTells ==
  Writing /\ profile.active # NoLife =>
    /\ Tells(journal, engine.turns)
    /\ Numbered(journal)
    /\ \A life \in LivesOf(stored) : Tells(life.events, engine.turns)

\* Nothing was played on a page that still shows its title.
TitleFine ==
  Writing /\ page = "title" =>
    /\ stored \in {profile, NoProfile}
    /\ \A life \in LivesOf(profile) : life = stored.active /\ journal = life.events

Telling == TurnsFine /\ ShelfTells /\ DiskTells /\ MemoryTells /\ TitleFine

-----------------------------------------------------------------------------
(* A migration changes no journal and counts no summer anew. *)

LEMMA MigratedTurns ==
  ASSUME NEW game, IsGame(game), NEW r, MigratedGame(game, r) # None
  PROVE  MigratedGame(game, r).turns = game.turns
<1> DEFINE made == MadeAliases(game.made, r)
           moved == RemappedGame(game, made, r)
<1>1. MigratedGame(game, r) = game \/ MigratedGame(game, r) = moved
  BY DEF MigratedGame
<1>2. ASSUME moved # None PROVE moved.turns = game.turns
  <2> HIDE DEF made
  <2> QED
    BY <1>2 DEF RemappedGame, IsGame
<1> HIDE DEF moved
<1> QED
  BY <1>1, <1>2

LEMMA LoadedTurns ==
  ASSUME NEW game, IsGame(game), NEW r
  PROVE  /\ Planned(game, r).turns = game.turns
         /\ EngineLoaded(game, r).turns = game.turns
<1> DEFINE planned == Planned(game, r)
<1>1. IsGame(planned) /\ planned.turns = game.turns
  BY DEF Planned, IsGame
<1> HIDE DEF planned
<1>2. \E made, discovered, branches :
        EngineLoaded(game, r) = [planned EXCEPT !.made = made, !.strange = {},
                                                !.discovered = discovered, !.branches = branches]
  BY DEF EngineLoaded, planned
<1>3. EngineLoaded(game, r).turns = planned.turns
  BY <1>1, <1>2 DEF IsGame
<1> QED
  BY <1>1, <1>3 DEF planned

LEMMA MigratedEvents ==
  ASSUME NEW life, {"game", "target", "events"} \subseteq DOMAIN life, IsGame(life.game), NEW r,
         MigratedLife(life, r) # NoLife
  PROVE  /\ MigratedLife(life, r).events = life.events
         /\ MigratedLife(life, r).game.turns = life.game.turns
         /\ DOMAIN MigratedLife(life, r) = DOMAIN life
<1> DEFINE game == MigratedGame(life.game, r)
           target == MigratedTarget(life.target, r)
           moved == [life EXCEPT !.game = game, !.target = target]
<1>1. MigratedLife(life, r) = moved /\ game # None
  <2>1. MigratedLife(life, r) = LifeWith(life, game, r)
    BY DEF MigratedLife
  <2> HIDE DEF game
  <2> QED
    BY <2>1 DEF LifeWith
<1>2. game.turns = life.game.turns
  BY <1>1, MigratedTurns
<1> HIDE DEF game, target
<1> QED
  BY <1>1, <1>2

LEMMA ArchivedEvents ==
  ASSUME NEW life, IsArchive(life), NEW r, MigratedArchive(life, r) # NoLife
  PROVE  /\ MigratedArchive(life, r).events = life.events
         /\ MigratedArchive(life, r).game.turns = life.game.turns
<1>1. CASE life.game.rev = r
  BY <1>1 DEF MigratedArchive
<1>2. CASE life.game.rev # r
  <2> DEFINE mid == MigratedLife(life, r)
             ending == IF life.ending = None THEN None ELSE Current("ending", life.ending, r)
             moved == [mid EXCEPT !.ending = ending]
  <2>1. MigratedArchive(life, r) = ArchiveWith(mid, ending)
    BY <1>2 DEF MigratedArchive
  <2> HIDE DEF mid, ending
  <2>2. mid # NoLife /\ ArchiveWith(mid, ending) = moved
    BY <2>1 DEF ArchiveWith
  <2>3. /\ mid.events = life.events /\ mid.game.turns = life.game.turns
        /\ DOMAIN mid = {"life", "game", "ending", "target", "events"}
    <3>1. /\ DOMAIN life = {"life", "game", "ending", "target", "events"} /\ IsGame(life.game)
          /\ {"game", "target", "events"} \subseteq DOMAIN life
      BY DEF IsArchive, SettledLife, Settled
    <3> QED
      BY <2>2, <3>1, MigratedEvents DEF mid
  <2> QED
    BY <2>1, <2>2, <2>3
<1> QED
  BY <1>1, <1>2

LEMMA ProfileEvents ==
  ASSUME NEW p, IsProfile(p), NEW r, MigratedProfile(p, r) # NoProfile,
         \A life \in LivesOf(p) : IsGame(life.game)
  PROVE  LET q == MigratedProfile(p, r) IN
         \A life \in LivesOf(q) :
           \E old \in LivesOf(p) : life.events = old.events /\ life.game.turns = old.game.turns
<1> DEFINE active == IF p.active = NoLife THEN NoLife ELSE MigratedLife(p.active, r)
           compendium == MigratedCompendium(p.compendium, r)
           q == MigratedProfile(p, r)
<1>1. q = p \/ q = ProfileWith(p, active, compendium, r)
  BY DEF MigratedProfile
<1> HIDE DEF q, compendium, active
<1>2. CASE q = p
  BY <1>2 DEF q
<1>3. CASE q = ProfileWith(p, active, compendium, r)
  <2>1. q.active = active
    BY <1>3 DEF ProfileWith, q
  <2>2. ASSUME NEW life \in LivesOf(q)
        PROVE  \E old \in LivesOf(p) : life.events = old.events /\ life.game.turns = old.game.turns
    <3>1. life = active /\ active # NoLife
      BY <2>1 DEF LivesOf
    <3>2. p.active # NoLife /\ life = MigratedLife(p.active, r)
      BY <3>1 DEF active
    <3>3. p.active \in LivesOf(p) /\ IsGame(p.active.game) /\ IsLife(p.active)
      BY <3>2 DEF LivesOf, IsProfile
    <3>4. {"game", "target", "events"} \subseteq DOMAIN p.active
      BY <3>3 DEF IsLife
    <3> QED
      BY <3>1, <3>2, <3>3, <3>4, MigratedEvents
  <2> QED
    BY <2>2 DEF q
<1> QED
  BY <1>1, <1>2, <1>3

-----------------------------------------------------------------------------
(* Every step keeps it, in a build with inventions. *)

LEMMA InitTelling == ASSUME Init PROVE Telling
<1>1. v1 # None => v1.turns \in Nat
  BY SavesAssumption DEF Init
<1>2. LivesOf(stored) = {} /\ shelf = {} /\ page = "closed" /\ sequence = 0
  BY LivesFacts DEF Init
<1> QED
  BY <1>1, <1>2
  DEF Telling, TurnsFine, ShelfTells, DiskTells, MemoryTells, TitleFine, Writing

\* The games that are stored, or about to be.
LEMMA GamesAreGames ==
  ASSUME Currency
  PROVE  /\ v1 # None => IsGame(v1)
         /\ \A life \in shelf : IsArchive(life) /\ IsGame(life.game)
         /\ \A life \in LivesOf(stored) : IsGame(life.game)
         /\ page # "closed" => IsGame(engine)
<1>1. v1 # None => IsGame(v1)
  BY DEF Currency, SaveFine, SettledSave
<1>2. page # "closed" => IsGame(engine)
  BY DEF Currency, GameFine, Settled
<1>3. CASE stored = NoProfile
  BY <1>1, <1>2, <1>3, LivesFacts DEF Currency, DiskFine
<1>4. CASE stored # NoProfile
  BY <1>1, <1>2, <1>4 DEF Currency, DiskFine, OnDisk, IsArchive, SettledLife, Settled
<1> QED
  BY <1>3, <1>4

\* startLifeJournal() on the page of a life: its numbers are those of the journal.
LEMMA JournalResumed ==
  ASSUME NEW events, NEW n, Tells(events, n), ResumeJournal(events)
  PROVE  journal' = events /\ Numbered(journal)'
<1>1. journal' = events /\ sequence' = IF events = <<>> THEN 0 ELSE events[Len(events)].seq
  BY DEF ResumeJournal, Last
<1>2. /\ Len(events) \in Nat /\ DOMAIN events = 1 .. Len(events)
      /\ \A i \in DOMAIN events : i \in Nat /\ events[i].seq \in Nat
      /\ events \in Seq(Event)
  BY EventFacts DEF Tells
<1>3. CASE events = <<>>
  BY <1>1, <1>3 DEF Numbered
<1>4. CASE events # <<>>
  <2>1. Len(events) \in DOMAIN events
    BY <1>2, <1>4, EmptySeq
  <2>2. \A i \in DOMAIN events : i < Len(events) \/ i = Len(events)
    BY <1>2
  <2>3. \A i \in DOMAIN events : events[i].seq <= events[Len(events)].seq
    BY <1>2, <2>1, <2>2 DEF Tells
  <2> QED
    BY <1>1, <1>2, <1>4, <2>1, <2>3 DEF Numbered
<1> QED
  BY <1>3, <1>4

\* A load that may write.
LEMMA ShownTelling ==
  ASSUME Telling, Opened, readOnly' = FALSE, NEW p, Show(p),
         stored' = p \/ (stored' = NoProfile /\ p = FreshProfile),
         ShelfTells',
         \A life \in LivesOf(p) :
           /\ IsGame(life.game) /\ Tells(life.events, life.game.turns)
           /\ v1 # None => Tells(life.events, v1.turns)
  PROVE  Telling'
<1>1. page' = "title" /\ v1' = v1 /\ profile' = p
  BY DEF Opened, Show
<1>2. /\ LivesOf(NoProfile) = {} /\ LivesOf(FreshProfile) = {}
      /\ \A life \in LivesOf(stored') : life \in LivesOf(p)
  BY LivesFacts
<1>3. DiskTells'
  <2>1. ASSUME NEW life \in LivesOf(stored')
        PROVE  /\ Tells(life.events, life.game.turns)
               /\ v1 # None => Tells(life.events, v1.turns)
    BY <1>2
  <2> QED
    BY <1>1, <2>1 DEF DiskTells
<1>4. CASE p.active = NoLife
  <2>1. engine' = FreshGame(deployed) /\ sequence' = 0
    BY <1>4 DEF Show
  <2>2. LivesOf(p) = {} /\ FreshGame(deployed).turns = 0
    BY <1>4 DEF LivesOf, FreshGame
  <2>3. TurnsFine' /\ MemoryTells' /\ TitleFine'
    BY <1>1, <1>2, <1>4, <2>1, <2>2, LivesFacts DEF Telling, TurnsFine, MemoryTells, TitleFine
  <2> QED
    BY <1>3, <2>3 DEF Telling
<1>5. CASE p.active # NoLife
  <2> DEFINE life == p.active
  <2>1. LivesOf(p) = {life} /\ stored' = p
    BY <1>5, LivesFacts
  <2>2. engine' = EngineLoaded(life.game, deployed) /\ ResumeJournal(life.events)
    BY <1>5 DEF Show
  <2>3. IsGame(life.game) /\ Tells(life.events, life.game.turns)
    BY <2>1
  <2>4. engine'.turns = life.game.turns /\ life.game.turns \in Nat
    BY <2>2, <2>3, LoadedTurns DEF Tells
  <2>5. journal' = life.events /\ Numbered(journal)'
    BY <2>2, <2>3, JournalResumed
  <2> HIDE DEF life
  <2>6. TurnsFine'
    BY <1>1, <2>4, <2>5 DEF Telling, TurnsFine, Numbered
  <2>7. MemoryTells'
    BY <2>1, <2>3, <2>4, <2>5 DEF MemoryTells
  <2>8. TitleFine'
    BY <1>1, <2>1, <2>5 DEF TitleFine, life
  <2> QED
    BY <1>3, <2>6, <2>7, <2>8 DEF Telling
<1> QED
  BY <1>4, <1>5

LEMMA LoadTelling == ASSUME Inv, Currency, Telling, Load PROVE Telling'
<1> DEFINE p == MigratedProfile(stored, deployed)
<1>1. /\ Opened /\ stored # NoProfile /\ p # NoProfile /\ stored' = p /\ readOnly' = FALSE
      /\ NoLife \notin MigratedShelf(deployed) /\ shelf' = MigratedShelf(deployed) /\ Show(p)
  BY DEF Load, LoadAs, Migrates
<1>2. ShelfTells'
  <2>1. ASSUME NEW life \in shelf'
        PROVE  Tells(life.events, life.game.turns)
    <3>1. PICK old \in shelf : life = MigratedArchive(old, deployed) /\ life # NoLife
      BY <1>1 DEF MigratedShelf
    <3>2. IsArchive(old) /\ Tells(old.events, old.game.turns)
      BY GamesAreGames DEF Telling, ShelfTells
    <3> QED
      BY <3>1, <3>2, ArchivedEvents
  <2> QED
    BY <2>1 DEF ShelfTells
<1>3. ASSUME NEW life \in LivesOf(p)
      PROVE  /\ Tells(life.events, life.game.turns)
             /\ v1 # None => Tells(life.events, v1.turns)
  <2>1. IsProfile(stored) /\ \A old \in LivesOf(stored) : IsGame(old.game)
    BY <1>1, GamesAreGames DEF Inv, ShapeFine
  <2>2. PICK old \in LivesOf(stored) :
          life.events = old.events /\ life.game.turns = old.game.turns
    BY <1>1, <2>1, ProfileEvents
  <2> QED
    BY <2>2 DEF Telling, DiskTells
<1>4. \A life \in LivesOf(p) : IsGame(life.game)
  <2>1. Currency'
    BY LoadCurrency
  <2> HIDE DEF p
  <2> QED
    BY <1>1, <2>1 DEF Currency, DiskFine, OnDisk, SettledLife, Settled
<1> HIDE DEF p
<1> QED
  BY <1>1, <1>2, <1>3, <1>4, ShownTelling

LEMMA FirstLoadsTelling == ASSUME Currency, Telling, LoadFresh \/ LoadLegacyFails PROVE Telling'
<1>1. /\ Opened /\ readOnly' = FALSE /\ shelf' = shelf /\ Show(FreshProfile)
      /\ stored' = FreshProfile \/ stored' = NoProfile
  BY DEF LoadFresh, LoadLegacyFails, ShowFresh
<1>2. ShelfTells'
  BY <1>1 DEF Telling, ShelfTells
<1> QED
  BY <1>1, <1>2, ShownTelling, LivesFacts

LEMMA LegacyTelling == ASSUME Currency, Telling, LoadLegacy PROVE Telling'
<1> DEFINE moved == MigratedGame(v1, deployed)
           life == LegacyLife(v1, deployed)
           archived == LegacyArchive(life)
           p == LegacyProfile(life, deployed)
<1>1. /\ Opened /\ v1 # None /\ moved # None /\ stored' = p /\ shelf' = LegacyShelf(life)
      /\ readOnly' = FALSE /\ Show(p)
  BY DEF LoadLegacy
<1>2. life.events = <<>> /\ life.game = Planned(moved, deployed)
  BY DEF LegacyLife
<1>3. IsGame(moved) /\ moved.turns = v1.turns /\ v1.turns \in Nat
  <2>1. deployed \in Revisions /\ SettledSave(v1) /\ IsGame(v1)
    BY <1>1, GamesAreGames DEF Currency, NumbersFine, SaveFine
  <2> QED
    BY <1>1, <2>1, SaveMoves, MigratedTurns DEF Telling, TurnsFine
<1> HIDE DEF moved
<1>4. IsGame(life.game) /\ life.game.turns = v1.turns
  <2>1. IsGame(Planned(moved, deployed))
    BY <1>3 DEF Planned, IsGame
  <2> QED
    BY <1>2, <1>3, <2>1, LoadedTurns
<1>5. /\ Tells(life.events, life.game.turns) /\ Tells(life.events, v1.turns)
  BY <1>2, <1>3, <1>4, NothingTells
<1>6. ShelfTells'
  <2>1. archived.events = <<>> /\ archived.game = life.game
    BY DEF LegacyArchive
  <2>2. shelf' = {} \/ shelf' = {archived}
    BY <1>1 DEF LegacyShelf
  <2> HIDE DEF archived, life
  <2> QED
    BY <1>2, <1>5, <2>1, <2>2 DEF ShelfTells
<1>7. LivesOf(p) \subseteq {life}
  BY DEF LegacyProfile, LivesOf
<1> HIDE DEF p, life
<1> QED
  BY <1>1, <1>4, <1>5, <1>6, <1>7, ShownTelling

LEMMA IdleTelling ==
  ASSUME Telling, LoadReadOnly \/ (\E r \in Revisions : Deploy(r)) \/ Close \/ ChooseTarget
  PROVE  Telling'
<1>1. stored' = stored /\ shelf' = shelf /\ v1' \in {v1, None} /\ (page' = "closed" \/ readOnly')
  BY DEF LoadReadOnly, Opened, Deploy, Close, ChooseTarget, Gone, disk
<1>2. sequence' \in Nat /\ (page' # "closed" => engine'.turns \in Nat)
  <2>1. CASE LoadReadOnly
    BY <2>1 DEF LoadReadOnly, FreshGame
  <2>2. CASE \E r \in Revisions : Deploy(r)
    BY <2>2 DEF Deploy, Telling, TurnsFine
  <2>3. CASE Close \/ ChooseTarget
    BY <2>3 DEF Close, ChooseTarget, Gone
  <2> QED
    BY <2>1, <2>2, <2>3
<1>3. TurnsFine' /\ ShelfTells' /\ DiskTells'
  BY <1>1, <1>2 DEF Telling, TurnsFine, ShelfTells, DiskTells
<1>4. MemoryTells' /\ TitleFine'
  BY <1>1 DEF MemoryTells, TitleFine, Writing
<1> QED
  BY <1>3, <1>4 DEF Telling

\* archiveCurrentLife(): the journal in memory goes with the game in memory.
LEMMA LeavingTelling ==
  ASSUME Telling, Writing, NEW ending, Shelved(ending)
  PROVE  ShelfTells'
<1>1. CASE profile.active = NoLife
  BY <1>1 DEF Shelved, Telling, ShelfTells
<1>2. CASE profile.active # NoLife
  <2>1. shelf' = shelf \cup {Leaving(ending)}
    BY <1>2 DEF Shelved
  <2>2. Leaving(ending).events = journal /\ Leaving(ending).game = engine
    BY DEF Leaving, Archived
  <2>3. Tells(journal, engine.turns)
    BY <1>2 DEF Telling, MemoryTells
  <2> QED
    BY <2>1, <2>2, <2>3 DEF Telling, ShelfTells
<1> QED
  BY <1>1, <1>2

LEMMA RestartTelling == ASSUME Inv, Telling, Restart PROVE Telling'
<1>1. Writing /\ Shelved(None) /\ page' = "closed" /\ sequence' = 0 /\ v1' = None
      /\ stored' = IF profile.active = NoLife THEN stored ELSE Left(None)
  BY DEF Restart, Gone, Inv, ReadOnlyFine, Writing
<1>2. ShelfTells'
  BY <1>1, LeavingTelling
<1>3. DiskTells'
  <2>1. profile.active # NoLife => Left(None).active = NoLife
    BY LeftShape DEF Inv, ShapeFine
  <2>2. LivesOf(stored') \subseteq LivesOf(stored)
    BY <1>1, <2>1, LivesFacts
  <2> QED
    BY <1>1, <2>2 DEF Telling, DiskTells
<1>4. TurnsFine' /\ MemoryTells' /\ TitleFine'
  BY <1>1 DEF TurnsFine, MemoryTells, TitleFine, Writing
<1> QED
  BY <1>2, <1>3, <1>4 DEF Telling

\* The first event of a page that goes on with a life: what was played on another
\* is in the journal of its profile.
LEMMA ContinueTelling == ASSUME Inv, Currency, Telling, Continue PROVE Telling'
<1>1. /\ page = "title" /\ ~ readOnly /\ page' = "playing" /\ readOnly' = readOnly
      /\ UNCHANGED <<stored, shelf, v1, profile, content>> /\ Resumable
      /\ engine' = EngineLoaded(Resumed, content)
      /\ Emit(journal, <<"started">>, engine'.turns)
  BY DEF Continue, Started, disk
<1>2. Writing
  BY <1>1 DEF Writing
<1>3. /\ engine'.turns \in Nat
      /\ profile.active # NoLife =>
           /\ stored = profile
           /\ journal = stored.active.events
           /\ Tells(stored.active.events, engine'.turns)
  <2>1. profile.active # NoLife =>
          stored = profile /\ journal = stored.active.events /\ LivesOf(stored) = {stored.active}
    BY <1>1, <1>2, LivesFacts DEF Telling, TitleFine, NoProfile
  <2>2. CASE Compatible # None
    <3>1. v1 # None /\ Resumed = MigratedGame(v1, content) /\ Resumed # None
      BY <2>2 DEF Compatible, Resumed
    <3>2. SettledSave(v1) /\ IsGame(v1) /\ content \in Revisions
      BY <1>2, <3>1, GamesAreGames, MemoryFacts DEF Currency, SaveFine
    <3>3. IsGame(Resumed) /\ Resumed.turns = v1.turns
      BY <3>1, <3>2, SaveMoves, MigratedTurns
    <3>4. engine'.turns = v1.turns /\ v1.turns \in Nat
      BY <1>1, <3>1, <3>3, LoadedTurns DEF Telling, TurnsFine
    <3> QED
      BY <2>1, <3>1, <3>4 DEF Telling, DiskTells
  <2>3. CASE Compatible = None
    <3>1. profile.active # NoLife /\ Resumed = stored.active.game
      BY <1>1, <2>1, <2>3 DEF Resumable, Resumed
    <3>2. IsGame(Resumed)
      BY <2>1, <3>1, GamesAreGames
    <3>3. engine'.turns = stored.active.game.turns
      BY <1>1, <3>1, <3>2, LoadedTurns
    <3> QED
      BY <2>1, <3>1, <3>3 DEF Telling, DiskTells, Tells
  <2> QED
    BY <2>2, <2>3
<1>4. sequence' = sequence + Len(<<"started">>) /\ Len(<<"started">>) = 1 /\ sequence \in Nat
  BY <1>1 DEF Emit, Telling, TurnsFine
<1>5. TurnsFine' /\ ShelfTells' /\ DiskTells' /\ TitleFine'
  BY <1>1, <1>3, <1>4 DEF Telling, TurnsFine, ShelfTells, DiskTells, TitleFine
<1>6. MemoryTells'
  <2> SUFFICES ASSUME profile.active # NoLife
               PROVE  /\ Tells(journal', engine'.turns) /\ Numbered(journal)'
                      /\ \A life \in LivesOf(stored) : Tells(life.events, engine'.turns)
    BY <1>1 DEF MemoryTells
  <2>1. Tells(journal, engine'.turns) /\ Numbered(journal)
    BY <1>2, <1>3 DEF Telling, MemoryTells
  <2>2. journal # None
    BY <2>1, JournalAssumption DEF Tells
  <2>3. journal' = Emitted(journal, <<"started">>, engine'.turns)
    BY <1>1, <2>2 DEF Emit
  <2>4. Tells(journal', engine'.turns) /\ Numbered(journal)'
    <3> DEFINE turn == engine'.turns
               kinds == <<"started">>
    <3>1. turn \in Nat /\ turn <= turn
      BY <1>3
    <3>2. Reports(kinds, turn, turn)
      BY StartReports
    <3> HIDE DEF turn, kinds
    <3>3. /\ Tells(journal, turn) /\ journal' = Emitted(journal, kinds, turn)
          /\ sequence' = sequence + Len(kinds)
      BY <1>4, <2>1, <2>3 DEF turn, kinds
    <3>4. Tells(journal', turn) /\ Numbered(journal)'
      BY <2>1, <3>1, <3>2, <3>3, EmittedTells
    <3> QED
      BY <3>4 DEF turn
  <2>5. LivesOf(stored) = {stored.active}
    BY <1>3, LivesFacts
  <2> QED
    BY <1>3, <2>4, <2>5
<1> QED
  BY <1>5, <1>6 DEF Telling

\* A new life has a journal of its own, on with the numbers of the page.
LEMMA BeginLifeTelling ==
  ASSUME Currency, Telling, Started, NEW before, IsProfile(before), BeginLife(before),
         ShelfTells', v1' \in {v1, None}
  PROVE  Telling'
<1> DEFINE life == [life |-> lives + 1, game |-> FreshGame(content), target |-> wish,
                    events |-> <<>>]
           p == [before EXCEPT !.active = life]
           kinds == IF wish = None THEN <<"started">> ELSE <<"replay", "started">>
<1>1. /\ page = "title" /\ page' = "playing"
      /\ engine' = FreshGame(content) /\ profile' = p /\ stored' = p
      /\ Emit(<<>>, kinds, 0)
  BY DEF Started, BeginLife
<1>2. life.events = <<>> /\ life.game = FreshGame(content) /\ FreshGame(content).turns = 0
  BY DEF FreshGame
<1>3. LivesOf(p) = {life}
  <2>1. IsLife(life)
    BY DEF IsLife
  <2> HIDE DEF life
  <2> QED
    BY <2>1, LifeIsSome, LivesFacts DEF IsProfile
<1> HIDE DEF life, p
<1>4. Tells(<<>>, 0) /\ (v1' # None => Tells(<<>>, v1.turns) /\ v1' = v1)
  BY NothingTells DEF Telling, TurnsFine
<1>5. /\ Reports(kinds, 0, 0) /\ Len(kinds) \in Nat
      /\ sequence' = sequence + Len(kinds) /\ sequence \in Nat
  BY <1>1, StartReports DEF Emit, Telling, TurnsFine
<1>6. Tells(journal', 0) /\ Numbered(journal)'
  <2>1. <<>> # None
    <3>1. <<>> \in Seq(Event)
      BY EmptySeq
    <3> QED
      BY <3>1, JournalAssumption
  <2>2. journal' = Emitted(<<>>, kinds, 0)
    BY <1>1, <2>1 DEF Emit
  <2>3. Numbered(<<>>)
    BY <1>5 DEF Numbered
  <2> HIDE DEF kinds
  <2>4. \A zero \in Nat : Tells(<<>>, zero) /\ Reports(kinds, zero, zero)
                          /\ journal' = Emitted(<<>>, kinds, zero)
                          => Tells(journal', zero) /\ Numbered(journal)'
    <3> TAKE zero \in Nat
    <3>1. zero <= zero
      OBVIOUS
    <3> QED
      BY <1>5, <2>3, <3>1, EmittedTells
  <2> QED
    BY <1>4, <1>5, <2>2, <2>4
<1>7. TurnsFine'
  BY <1>1, <1>2, <1>5 DEF Telling, TurnsFine
<1>8. DiskTells'
  BY <1>1, <1>2, <1>3, <1>4 DEF DiskTells
<1>9. MemoryTells'
  BY <1>1, <1>2, <1>3, <1>4, <1>6 DEF MemoryTells
<1>10. TitleFine'
  BY <1>1 DEF TitleFine
<1> QED
  BY <1>7, <1>8, <1>9, <1>10 DEF Telling

LEMMA StartingTelling == ASSUME Inv, Currency, Telling, ContinueAnew \/ NewLife PROVE Telling'
<1>1. Started /\ Writing
  BY DEF ContinueAnew, NewLife, Started, Writing
<1>2. CASE ContinueAnew
  <2>1. BeginLife(profile) /\ shelf' = shelf /\ v1' = v1
    BY <1>2 DEF ContinueAnew
  <2>2. ShelfTells'
    BY <2>1 DEF Telling, ShelfTells
  <2> QED
    BY <1>1, <2>1, <2>2, MemoryFacts, BeginLifeTelling
<1>3. CASE NewLife
  <2>1. BeginLife(Left(None)) /\ Shelved(None) /\ v1' = None
    BY <1>3 DEF NewLife
  <2>2. IsProfile(Left(None))
    BY <1>1, MemoryFacts, LeftShape
  <2>3. ShelfTells'
    BY <1>1, <2>1, LeavingTelling
  <2> QED
    BY <1>1, <2>1, <2>2, <2>3, BeginLifeTelling
<1> QED
  BY <1>2, <1>3

\* Whatever is played, the summers are those that were lived so far.
LEMMA PlaysOn ==
  ASSUME IsGame(engine), Play
  PROVE  \E game, gave, written :
           IsGame(game) /\ game.turns = engine.turns /\ Turn(game, gave, written)
<1>1. PICK written \in BOOLEAN, ending \in Contents[content].endings \cup {None} :
        Discover(written, ending) \/ Invent(written, ending) \/ Fail(written, ending)
  BY DEF Play
<1>2. CASE Discover(written, ending)
  <2>1. PICK name : Turn([Discovered(name) EXCEPT !.ended = ending], TRUE, written)
    BY <1>2 DEF Discover
  <2>2. LET game == [Discovered(name) EXCEPT !.ended = ending]
        IN  IsGame(game) /\ game.turns = engine.turns
    BY DEF Discovered, IsGame
  <2> QED
    BY <2>1, <2>2
<1>3. CASE Invent(written, ending)
  <2>1. PICK p, q : Turn([Invented({p, q}) EXCEPT !.ended = ending], TRUE, written)
    BY <1>3 DEF Invent
  <2>2. LET game == [Invented({p, q}) EXCEPT !.ended = ending]
        IN  IsGame(game) /\ game.turns = engine.turns
    BY DEF Invented, IsGame
  <2> QED
    BY <2>1, <2>2
<1>4. CASE Fail(written, ending)
  <2>1. LET game == [engine EXCEPT !.ended = ending]
        IN  IsGame(game) /\ game.turns = engine.turns
    BY DEF IsGame
  <2> QED
    BY <1>4, <2>1 DEF Fail
<1> QED
  BY <1>1, <1>2, <1>3, <1>4

\* A turn writes the compatibility save with the journal, even one that gave nothing:
\* so no page goes on from before what its journal tells.
LEMMA TurnTelling ==
  ASSUME Generated, Inv, Currency, Telling, page = "playing",
         NEW game, IsGame(game), game.turns = engine.turns, NEW gave, NEW written,
         Turn(game, gave, written)
  PROVE  Telling'
<1> DEFINE turn == engine'.turns
           kinds == <<"attempt", "entry">> \o IF game.ended = None THEN <<>> ELSE <<"fate">>
<1>1. /\ page' \in {"playing", "over"} /\ readOnly' = readOnly /\ ~ readOnly
      /\ shelf' = shelf /\ engine' = [game EXCEPT !.turns = game.turns + 1]
      /\ v1' = engine' /\ Emit(journal, kinds, turn)
  BY DEF Turn, Inv, ReadOnlyFine
<1>2. turn = engine.turns + 1 /\ engine.turns \in Nat /\ turn \in Nat /\ engine.turns < turn
  <2>1. turn = engine.turns + 1
    BY <1>1 DEF IsGame
  <2>2. engine.turns \in Nat
    BY DEF Telling, TurnsFine
  <2> HIDE DEF turn
  <2> QED
    BY <2>1, <2>2
<1>3. /\ Reports(kinds, engine.turns, turn) /\ Len(kinds) \in Nat
      /\ sequence' = sequence + Len(kinds) /\ sequence \in Nat
  <2>1. Reports(kinds, engine.turns, turn)
    BY <1>2, TurnReports
  <2> HIDE DEF kinds, turn
  <2> QED
    BY <1>1, <2>1, LenProperties DEF Reports, Emit, Telling, TurnsFine
<1>4. TurnsFine' /\ ShelfTells' /\ TitleFine'
  BY <1>1, <1>2, <1>3 DEF Telling, TurnsFine, ShelfTells, TitleFine
<1> HIDE DEF kinds
<1>5. CASE profile.active = NoLife
  <2>1. profile' = profile /\ stored' = stored /\ stored.active = NoLife
    BY <1>1, <1>5 DEF Turn, Inv, InStep, NoProfile, Writing
  <2>2. LivesOf(stored') = {}
    BY <2>1, LivesFacts
  <2> QED
    BY <1>4, <1>5, <2>1, <2>2 DEF Telling, DiskTells, MemoryTells
<1>6. CASE profile.active # NoLife
  <2> DEFINE life == [profile.active EXCEPT !.game = engine', !.events = journal']
             compendium == LiveProgress(profile.compendium, engine', profile.active.life, content)
             p == [profile EXCEPT !.active = life, !.compendium = compendium]
  <2>1. profile' = p /\ stored' \in {p, stored}
    BY <1>6 DEF Turn
  <2>2. /\ Tells(journal, engine.turns) /\ Numbered(journal)
        /\ \A old \in LivesOf(stored) : Tells(old.events, engine.turns)
    BY <1>1, <1>6 DEF Telling, MemoryTells, Writing
  <2>3. journal' = Emitted(journal, kinds, turn)
    BY <1>1, <2>2, JournalAssumption DEF Emit, Tells
  <2>4. Tells(journal', turn) /\ Numbered(journal)'
    <3>1. engine.turns <= turn
      BY <1>2
    <3> HIDE DEF turn
    <3> QED
      BY <1>2, <1>3, <2>2, <2>3, <3>1, EmittedTells
  <2>5. /\ IsLife(profile.active) /\ IsProfile(profile)
    BY <1>6 DEF Inv, ShapeFine, IsProfile
  <2>6. LivesOf(p) = {life} /\ life.game = engine' /\ life.events = journal'
    <3>1. IsLife(life) /\ life.game = engine' /\ life.events = journal'
      BY <2>5 DEF IsLife
    <3> HIDE DEF life, compendium
    <3>2. p.active = life
      BY <2>5 DEF IsProfile
    <3> QED
      BY <3>1, <3>2, LifeIsSome, LivesFacts
  <2> HIDE DEF life, p
  <2>7. ASSUME NEW old \in LivesOf(stored') PROVE Tells(old.events, turn)
                                                  /\ Tells(old.events, old.game.turns)
    <3>1. CASE old \in LivesOf(stored)
      <4>1. Tells(old.events, engine.turns) /\ Tells(old.events, old.game.turns)
        BY <2>2, <3>1 DEF Telling, DiskTells
      <4>2. engine.turns <= turn
        BY <1>2
      <4> HIDE DEF turn
      <4> QED
        BY <1>2, <4>1, <4>2, TellsLater
    <3>2. CASE stored' = p
      BY <2>4, <2>6, <3>2
    <3> QED
      BY <2>1, <3>1, <3>2
  <2>8. DiskTells'
    BY <1>1, <2>7 DEF DiskTells
  <2>9. MemoryTells'
    BY <2>4, <2>7 DEF MemoryTells
  <2> QED
    BY <1>4, <2>8, <2>9 DEF Telling
<1> QED
  BY <1>5, <1>6

\* archiveCurrentLife() with the ending: the life is on the shelf, with its journal.
LEMMA FinishTelling == ASSUME Inv, Telling, Finish PROVE Telling'
<1>1. /\ page = "over" /\ page' = "playing" /\ readOnly' = readOnly /\ v1' = None
      /\ UNCHANGED <<engine, sequence>> /\ Shelved(engine.ended)
      /\ profile' = Left(engine.ended)
      /\ stored' = IF profile.active = NoLife THEN stored ELSE profile'
  BY DEF Finish
<1>2. Writing
  BY <1>1 DEF Writing, Inv, ReadOnlyFine
<1>3. ShelfTells'
  BY <1>1, <1>2, LeavingTelling
<1>4. Left(engine.ended).active = NoLife
  BY LeftShape DEF Inv, ShapeFine
<1>5. LivesOf(stored') \subseteq LivesOf(stored)
  BY <1>1, <1>4, LivesFacts
<1>6. DiskTells'
  BY <1>1, <1>5 DEF Telling, DiskTells
<1>7. TurnsFine' /\ MemoryTells' /\ TitleFine'
  BY <1>1, <1>4 DEF Telling, TurnsFine, MemoryTells, TitleFine
<1> QED
  BY <1>3, <1>6, <1>7 DEF Telling

\* What is stored by hand has no life to tell of.
LEMMA RetryTelling == ASSUME Inv, Telling, RetrySaving PROVE Telling'
<1>1. /\ page \in {"playing", "over"} /\ stored = NoProfile /\ stored' = profile
      /\ UNCHANGED <<shelf, v1, page, readOnly, profile, engine, journal, sequence>>
  BY DEF RetrySaving
<1>2. profile.active = NoLife
  BY <1>1 DEF Inv, InStep, ReadOnlyFine, Lived, NoProfile
<1>3. LivesOf(profile) = {}
  BY <1>2, LivesFacts
<1>4. TurnsFine' /\ ShelfTells' /\ DiskTells'
  BY <1>1, <1>3 DEF Telling, TurnsFine, ShelfTells, DiskTells
<1>5. MemoryTells' /\ TitleFine'
  BY <1>1, <1>2 DEF MemoryTells, TitleFine
<1> QED
  BY <1>4, <1>5 DEF Telling

LEMMA NextTelling == ASSUME Generated, Inv, Currency, Telling, [Next]_vars PROVE Telling'
<1>1. CASE UNCHANGED vars
  <2>1. UNCHANGED <<stored, shelf, v1, page, readOnly, profile, engine, journal, sequence>>
    BY <1>1 DEF vars, disk
  <2>2. Writing' = Writing /\ Numbered(journal)' = Numbered(journal)
    BY <2>1 DEF Writing, Numbered
  <2> QED
    BY <2>1, <2>2
    DEF Telling, TurnsFine, ShelfTells, DiskTells, MemoryTells, TitleFine
<1>2. CASE Play
  <2>1. page = "playing" /\ IsGame(engine)
    BY <1>2, GamesAreGames DEF Play
  <2> QED
    BY <1>2, <2>1, PlaysOn, TurnTelling
<1> QED
  BY <1>1, <1>2, LoadTelling, FirstLoadsTelling, LegacyTelling, IdleTelling, RestartTelling,
     ContinueTelling, StartingTelling, FinishTelling, RetryTelling
  DEF Next

-----------------------------------------------------------------------------
(* The theorems. *)

\* The invariant holds through every load, turn, ending and deployment.
THEOREM Invariance == Spec => [](Inv /\ Currency)
<1>1. Init => Inv /\ Currency
  BY InitInv, InitCurrency
<1>2. Inv /\ Currency /\ [Next]_vars => (Inv /\ Currency)'
  BY NextInv, NextCurrency
<1> QED
  BY <1>1, <1>2, PTL DEF Spec

\* migrateProfileToCurrentContent() and migrateArchivedLifeToCurrentContent() leave
\* no name of an older revision behind: a game, an archived life, an invention or
\* an entry of the compendium that the page shows is of its own content.
THEOREM NothingIsLeftBehind == Spec => []RefsCurrent
<1>1. Inv /\ Currency => RefsCurrent
  <2> SUFFICES ASSUME Inv, Currency, page # "closed", ~ readOnly, Native(profile)
               PROVE  /\ \A life \in shelf \cup LivesOf(profile) : GameCurrent(life.game, content)
                      /\ \A life \in shelf : life.ending \in Contents[content].endings \cup {None}
                      /\ \A e \in Unlocked(profile.compendium) : e.name \in Vocabulary(e.kind, content)
                      /\ MadeOf({g.id : g \in Range(profile.compendium.gallery)}, content)
    BY DEF RefsCurrent
  <2>1. InMemory(profile, shelf, content)
    BY DEF Currency, MemoryFine, Writing
  <2>2. ProfileIn(profile, shelf, content)
    BY <2>1 DEF InMemory, AllNative, Native
  <2>3. \A life \in shelf \cup LivesOf(profile) : GameCurrent(life.game, content)
    <3>1. \A life \in shelf \cup LivesOf(profile) :
            Settled(life.game, life.game.rev) /\ life.game.rev = content /\ ~ life.game.legacy
      BY <2>1, <2>2 DEF InMemory, OnDisk, IsArchive, SettledLife, ProfileIn, Native
    <3> QED
      BY <3>1 DEF Settled
  <2> QED
    BY <2>2, <2>3 DEF ProfileIn, CompendiumFine, IsEntry
<1> QED
  BY <1>1, Invariance, PTL

\* The summaries tell of the archived lives and of no others, and the compendium has
\* what each of them reached, whatever was renamed or merged since.
THEOREM SummariesAgree == Spec => []ArchivesAgree
<1>1. Inv /\ Currency => ArchivesAgree
  <2> SUFFICES ASSUME Inv, Currency, page # "closed", ~ readOnly, Native(profile)
               PROVE  ProfileIn(profile, shelf, content)
    BY DEF ArchivesAgree, ProfileIn
  <2>1. InMemory(profile, shelf, content)
    BY DEF Currency, MemoryFine, Writing
  <2> QED
    BY <2>1 DEF InMemory, AllNative, Native
<1> QED
  BY <1>1, Invariance, PTL

\* initializeProfile() stores no empty profile beside a save of the time before
\* profiles, nor does a turn, an ending or a lost write make one of it later: of all
\* that a page does, only the button that retries the saving can.
THEOREM SavesAreSeen == Spec => []LegacyNotShadowed
<1>1. Inv => LegacyNotShadowed
  BY DEF Inv
<1> QED
  BY <1>1, Invariance, PTL

\* While profileMigrationError keeps a page read-only, no step of it writes: not
\* the profile, nor an archive, nor a save, nor a target.
THEOREM ReadOnlyKeeps == Spec => ReadOnlyIsUntouched
<1>1. ASSUME Inv, [Next]_vars
      PROVE  [readOnly' => UNCHANGED <<disk, v1, wish>>]_vars
  <2> SUFFICES ASSUME readOnly', Next PROVE UNCHANGED <<disk, v1, wish>>
    BY <1>1
  <2>1. CASE Load \/ LoadFresh \/ LoadLegacy \/ LoadLegacyFails
    BY <2>1 DEF Load, LoadAs, Migrates, LoadFresh, LoadLegacy, LoadLegacyFails
  <2>2. CASE LoadReadOnly
    BY <2>2 DEF LoadReadOnly, Opened
  <2>3. CASE \E r \in Revisions : Deploy(r)
    BY <2>3 DEF Deploy
  <2>4. CASE Close \/ ChooseTarget \/ Restart
    BY <2>4 DEF Close, ChooseTarget, Restart, Gone
  <2>5. CASE Continue \/ ContinueAnew \/ NewLife
    BY <2>5 DEF Continue, ContinueAnew, NewLife, Started
  <2>6. CASE Play
    <3>1. page = "playing" /\ readOnly' = readOnly
      BY <2>6 DEF Play, Discover, Invent, Fail, Turn
    <3> QED
      BY <1>1, <3>1 DEF Inv, ReadOnlyFine
  <2>7. CASE Finish
    <3>1. page = "over" /\ readOnly' = readOnly
      BY <2>7 DEF Finish
    <3> QED
      BY <1>1, <3>1 DEF Inv, ReadOnlyFine
  <2>8. CASE RetrySaving
    <3>1. page # "title" /\ readOnly' = readOnly
      BY <2>8 DEF RetrySaving
    <3> QED
      BY <1>1, <3>1 DEF Inv, ReadOnlyFine
  <2> QED
    BY <2>1, <2>2, <2>3, <2>4, <2>5, <2>6, <2>7, <2>8 DEF Next
<1> QED
  BY <1>1, Invariance, PTL DEF Spec, ReadOnlyIsUntouched

\* In a build with inventions, the chronicle of every archived life tells its turns in
\* their order, each once and with its attempt, whatever was deployed, lost and resumed
\* while it was lived (startLifeJournal(), chronicleEntriesForArchive()).
THEOREM ChroniclesAreInOrder == ASSUME Generated PROVE Spec => []ChronicleInOrder
<1>1. Init => Telling
  BY InitTelling
<1>2. Inv /\ Currency /\ Telling /\ [Next]_vars => Telling'
  BY NextTelling
<1>3. Telling => ChronicleInOrder
  BY ToldInOrder DEF Telling, ShelfTells, ChronicleInOrder
<1> QED
  BY <1>1, <1>2, <1>3, Invariance, PTL DEF Spec

=============================================================================
