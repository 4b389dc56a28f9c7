----------------------------- MODULE Revisions -----------------------------
(***************************************************************************)
(* The profile of a player across revisions of the content (initialize-    *)
(* Profile() of ui/main.ts, core/content-migrations.ts, core/save.ts,      *)
(* core/compendium.ts, core/replay.ts and the life journal of              *)
(* product/events.ts).  Each deployment may rename, merge or drop what a   *)
(* stored life, an archived one, the compendium and a replay target refer  *)
(* to; a page keeps the content it was loaded with.                        *)
(*                                                                         *)
(* A load's writes may fail and a turn's may be lost with its page; the     *)
(* other failures of writes are ProfileArchive's.                          *)
(* What an element is made of does not change with its name.               *)
(***************************************************************************)
EXTENDS Naturals, SequencesExt

CONSTANTS
  Contents,      \* for each revision: elements, base, endings, branches with the
                 \* element that completes each, and how
                 \* to get there: supported revisions, the aliases of each kind, and
                 \* the estranged: inventions that come out otherwise there
  LegacySaves,   \* saves of the time before profiles that a player may bring
  TargetKinds,   \* the kinds of replay target that are chosen: "branch", "ending"
  Generated,     \* GENERATED_GAMEPLAY_ENABLED: the build has inventions
  MaxLives,      \* bound on lives begun
  MaxTurns,      \* bound on the turns played
  MaxDeploys,    \* bound on deployments
  None

Revisions == DOMAIN Contents

VARIABLES
  deployed,   \* the revision the server delivers
  deploys,    \* deployments so far
  \* IndexedDB.
  stored,     \* the profile, or NoProfile
  shelf,      \* the archived lives
  \* Local and session storage.
  v1,         \* SAVE_KEY
  wish,       \* REPLAY_TARGET_KEY
  \* The page.
  page,       \* "closed", "title", "playing", or "over" when a game has ended here
  content,    \* the revision it was built from
  readOnly,   \* profileMigrationError
  profile,    \* the profile in memory
  engine,     \* the game in memory
  journal,    \* lifeEvents of the event bus, or None
  sequence,   \* the number of its last event
  lives,      \* lives begun
  turns,      \* turns played
  retried     \* history: the profile on disk was stored by hand, and no life begun since

disk == <<stored, shelf>>
vars == <<deployed, deploys, disk, v1, wish, page, content, readOnly, profile, engine,
          journal, sequence, lives, turns, retried>>

-----------------------------------------------------------------------------
(* Names: those of the content, and inventions named after their parents.   *)

Named(name) == [name |-> name, of |-> {}]
Made(parents) == [name |-> "", of |-> parents]

Kinds == {"discovery", "branch", "ending"}

\* The names of a kind in revision r, and the aliases that lead to them.
Vocabulary(kind, r) ==
  CASE kind = "discovery" -> Contents[r].elements
    [] kind = "branch" -> DOMAIN Contents[r].branches
    [] kind = "ending" -> Contents[r].endings

Aliases(kind, r) ==
  CASE kind = "discovery" -> Contents[r].elementAliases
    [] kind = "branch" -> Contents[r].branchAliases
    [] kind = "ending" -> Contents[r].endingAliases

\* resolveAlias(): follows the aliases of a kind until a name of the content, each
\* alias at most once.
Follow(name, kind, r) ==
  IF name \in Vocabulary(kind, r) \/ name \notin DOMAIN Aliases(kind, r) THEN name
  ELSE Aliases(kind, r)[name]

Resolve(name, kind, r) ==
  LET last == FoldSet(LAMBDA a, n : Follow(n, kind, r), name, DOMAIN Aliases(kind, r))
  IN IF last \in Vocabulary(kind, r) THEN last ELSE None

\* The names of every revision in revision r.
CurrentNames ==
  [r \in Revisions |->
     [kind \in Kinds |->
        [name \in UNION {Vocabulary(kind, s) : s \in Revisions} |-> Resolve(name, kind, r)]]]

Current(kind, name, r) == CurrentNames[r][kind][name]

\* Revisions are counted from the first, and nothing they name is nameless.
ASSUME ContentsAssumption ==
  /\ Revisions \subseteq Nat \ {0} /\ 1 \in Revisions
  /\ \A r \in Revisions :
       /\ Contents[r].base \subseteq Contents[r].elements
       /\ "" \notin Contents[r].elements
       /\ None \notin UNION {Vocabulary(kind, r) : kind \in Kinds}

\* What Karl wakes up among does not become something to be found.  No tool sees to
\* it: the compendium of a life that had it from the start would not count it.
ASSUME BaseAssumption ==
  \A r \in Revisions : \A s \in Revisions \cap Contents[r].supported :
    \A e \in Contents[s].base : Current("discovery", e, r) \in Contents[r].base \cup {None}

\* An id of an element in revision r, where the inventions of its game are
\* renamed by made: one that is not renamed has no name there.
Reference(id, made, r) ==
  IF id \in DOMAIN made THEN made[id]
  ELSE IF id.of # {} THEN None
  ELSE LET name == Current("discovery", id.name, r)
       IN IF name = None THEN None ELSE Named(name)

Put(f, x, y) == [z \in DOMAIN f \cup {x} |-> IF z = x THEN y ELSE f[z]]

\* Mutant: an invention keeps its name.
RenamedNot(made, id, r) == IF made = None THEN None ELSE Put(made, id, id)

\* One invention more: it gets the name of its renamed parents, and must not get
\* that of another one.
Renamed(made, id, r) ==
  IF made = None \/ id \in DOMAIN made THEN made
  ELSE LET parents == {Reference(p, made, r) : p \in id.of}
           new == Made(parents)
       IN IF None \in parents \/ (new \in Range(made) /\ id # new) THEN None
          ELSE Put(made, id, new)

\* migrateImprovisedElements(): parents are made before their children, so that one
\* pass is enough.
MadeAliases(ids, r) ==
  LET made[n \in 0 .. Len(ids)] == IF n = 0 THEN <<>> ELSE Renamed(made[n - 1], ids[n], r)
  IN  made[Len(ids)]

-----------------------------------------------------------------------------
(* Games. *)

\* A game of a content, with all of its base elements.
FreshGame(r) ==
  [rev |-> r, legacy |-> FALSE, discovered |-> {Named(e) : e \in Contents[r].base},
   made |-> <<>>, strange |-> {}, branches |-> {}, ended |-> None, turns |-> 0]

\* migrationsFor(): whether content r takes over what is of an older revision.
Supported(from, r) == from \in Contents[r].supported

\* migratePlan(): what a life of the older revision was begun with has names in r.
PlanMoves(from, r) ==
  /\ \A e \in Contents[from].base : Current("discovery", e, r) # None
  /\ \A b \in DOMAIN Contents[from].branches : Current("branch", b, r) # None

\* remapGameState(): the game in revision r, with its inventions renamed by made, if
\* they could be.  They keep the looks, the kind and the name they were made with.
RemappedGame(game, made, r) ==
  LET discovered == {Reference(id, made, r) : id \in game.discovered}
      branches == {Current("branch", b, r) : b \in game.branches}
      ended == IF game.ended = None THEN None ELSE Current("ending", game.ended, r)
  IN IF \/ made = None \/ None \in discovered \/ None \in branches
        \/ (game.ended # None /\ ended = None)
     THEN None
     ELSE [game EXCEPT !.rev = r, !.discovered = discovered, !.branches = branches,
                       !.ended = ended, !.made = [i \in DOMAIN @ |-> made[@[i]]],
                       !.strange = Range(made) \cap Contents[r].estranged]

\* migrateGameStateToCurrentContent(): the game in revision r, or None where the
\* code throws.  rev = 0 is a save without a plan, which it leaves alone.
MigratedGame(game, r) ==
  IF game.rev \in {0, r} THEN game
  ELSE IF ~ Supported(game.rev, r) \/ ~ PlanMoves(game.rev, r) THEN None
       ELSE RemappedGame(game, MadeAliases(game.made, r), r)

\* legacyLifePlan() for a save that has no plan.
Planned(game, r) == IF game.rev = 0 THEN [game EXCEPT !.rev = r, !.legacy = TRUE] ELSE game

\* Mutant: an invention is made of elements of the content.
KeptOfContent(kept, id, game, r) ==
  IF \A p \in id.of : p.name \in Contents[r].elements THEN Append(kept, id) ELSE kept

\* sanitizeImprovisedRegistry(): an invention that is there twice, has two equal
\* parents, was not discovered, was made of one that is not kept or is not what its
\* parents make in this content, is dropped.
Kept(kept, id, game, r) ==
  IF /\ Cardinality(id.of) = 2
     /\ id \notin game.strange
     /\ id \in game.discovered
     /\ Cardinality({i \in DOMAIN game.made : game.made[i] = id}) = 1
     /\ \A p \in id.of : p.name \in Contents[r].elements \/ p \in Range(kept)
  THEN Append(kept, id) ELSE kept

\* Engine.loadState() of a migrated game.
EngineLoaded(game, r) ==
  LET kept[n \in 0 .. Len(game.made)] ==
        IF n = 0 THEN <<>> ELSE Kept(kept[n - 1], game.made[n], game, r)
      made == kept[Len(game.made)]
  IN
  [Planned(game, r) EXCEPT
     !.made = made,
     !.strange = {},
     !.discovered = {id \in @ : id.name \in Contents[r].elements \/ id \in Range(made)},
     !.branches = @ \cap DOMAIN Contents[r].branches]

-----------------------------------------------------------------------------
(* The compendium: unlocked entries with the life that was first, and the   *)
(* gallery of inventions.                                                   *)

FreshCompendium == [unlocks |-> {}, gallery |-> <<>>]

Entry(kind, name) == [kind |-> kind, name |-> name]

\* completionKeys(): what the manifest of revision r counts.
Manifest(r) ==
  {Entry("discovery", e) : e \in Contents[r].elements \ Contents[r].base}
  \cup {Entry("branch", b) : b \in DOMAIN Contents[r].branches}
  \cup {Entry("ending", e) : e \in Contents[r].endings}

\* The entries a game has reached (applyLiveProgress(), completionKeysForArchive()).
Reached(game, ending, r) ==
  Manifest(r) \cap ({Entry("discovery", id.name) : id \in game.discovered}
                    \cup {Entry("branch", b) : b \in game.branches}
                    \cup {Entry("ending", ending)})

Unlocked(compendium) == {u.entry : u \in compendium.unlocks}

\* applyCompletionUnlocks(): who was first stays first.
WithUnlocks(compendium, entries, life) ==
  [compendium EXCEPT
     !.unlocks = @ \cup {[entry |-> e, life |-> life] : e \in entries \ Unlocked(compendium)}]

\* One invention of a life more, unless the gallery has it.
Gathered(gallery, id, life) ==
  IF \E g \in Range(gallery) : g.id = id THEN gallery
  ELSE Append(gallery, [id |-> id, life |-> life])

\* applyLiveProgress() with its gallery.
LiveProgress(compendium, game, life, r) ==
  LET gallery[n \in 0 .. Len(game.made)] ==
        IF n = 0 THEN compendium.gallery ELSE Gathered(gallery[n - 1], game.made[n], life)
  IN [WithUnlocks(compendium, Reached(game, game.ended, r), life) EXCEPT
        !.gallery = gallery[Len(game.made)]]

MigratedEntry(entry, r) ==
  LET name == Current(entry.kind, entry.name, r)
  IN IF name = None THEN None ELSE Entry(entry.kind, name)

\* migrateArchivedInventions(), by the same rules as the inventions of a game.
MigratedGallery(gallery, made) ==
  [i \in DOMAIN gallery |-> [gallery[i] EXCEPT !.id = made[@]]]

GalleryAliases(gallery, r) == MadeAliases([i \in DOMAIN gallery |-> gallery[i].id], r)

\* migrateCompendium(): of two entries that become one, the older is kept.
Merged(unlocks) ==
  {u \in unlocks : \A w \in unlocks : w.entry = u.entry => u.life <= w.life}

CompendiumOf(compendium, made, r) ==
  IF made = None \/ \E u \in compendium.unlocks : MigratedEntry(u.entry, r) = None THEN None
  ELSE [unlocks |-> Merged({[u EXCEPT !.entry = MigratedEntry(@, r)] : u \in compendium.unlocks}),
        gallery |-> MigratedGallery(compendium.gallery, made)]

MigratedCompendium(compendium, r) ==
  CompendiumOf(compendium, GalleryAliases(compendium.gallery, r), r)

\* selectReplayTargets(): the open branches and endings.  Its areas of discoveries
\* name nothing that a revision renames.
ReplayTargets(compendium, r) ==
  {e \in Manifest(r) \ Unlocked(compendium) : e.kind \in TargetKinds}

\* migrateReplayTarget().
MigratedTarget(target, r) ==
  IF target = None THEN None ELSE MigratedEntry(target, r)

\* Whether a replay target is lost by a migration.
TargetLost(target, r) == target # None /\ MigratedTarget(target, r) = None

-----------------------------------------------------------------------------
(* The profile and the archive. *)

\* What is no life: the active one of a profile that has none, and the life of a
\* migration that throws.
NoLife == [life |-> 0]

FreshProfile == [active |-> NoLife, archives |-> {}, compendium |-> FreshCompendium]

\* archiveSummary(): the seed of a legacy life does not tell its revision.
Summary(life) ==
  [life |-> life.life, ending |-> life.ending,
   rev |-> IF life.game.legacy THEN 0 ELSE life.game.rev]

\* archiveLife() and applyArchivedLife() of the active life, with the game and
\* the journal in memory.
Archived(p, game, ending, events) ==
  [life |-> p.active.life, game |-> game, ending |-> ending, target |-> p.active.target,
   events |-> events]

WithArchive(p, life, r) ==
  [active |-> NoLife, archives |-> p.archives \cup {Summary(life)},
   compendium |-> WithUnlocks(p.compendium, Reached(life.game, life.ending, r), life.life)]

\* A life in revision r with the game it has there, NoLife where its migration throws.
LifeWith(life, game, r) ==
  IF game = None \/ TargetLost(life.target, r) THEN NoLife
  ELSE [life EXCEPT !.game = game, !.target = MigratedTarget(@, r)]

MigratedLife(life, r) == LifeWith(life, MigratedGame(life.game, r), r)

\* Mutant: the ending keeps its name.
SummaryUnmapped(s, r) == [s EXCEPT !.rev = IF @ = 0 THEN 0 ELSE r]

\* migrateArchiveSummary().
MigratedSummary(s, r) ==
  [s EXCEPT !.ending = IF @ = None THEN None ELSE Current("ending", @, r),
            !.rev = IF @ = 0 THEN 0 ELSE r]

\* The revisions a profile has something of; a legacy summary tells none.
SourceRevisions(p) ==
  ({s.rev : s \in p.archives} \ {0})
  \cup (IF p.active = NoLife THEN {} ELSE {p.active.game.rev})

\* What is no profile: an empty store, and the profile of a migration that throws.
NoProfile == [active |-> NoLife]

\* migrateProfileToCurrentContent(), NoProfile where it throws.
ProfileWith(p, active, compendium, r) ==
  IF \/ \E from \in SourceRevisions(p) \ {r} : ~ Supported(from, r)
     \/ (p.active # NoLife /\ active = NoLife)
     \/ \E s \in p.archives : s.ending # None /\ MigratedSummary(s, r).ending = None
     \/ compendium = None
  THEN NoProfile
  ELSE [active |-> active, archives |-> {MigratedSummary(s, r) : s \in p.archives},
        compendium |-> compendium]

MigratedProfile(p, r) ==
  IF SourceRevisions(p) \subseteq {r} THEN p
  ELSE ProfileWith(p, IF p.active = NoLife THEN NoLife ELSE MigratedLife(p.active, r),
                   MigratedCompendium(p.compendium, r), r)

\* migrateArchivedLifeToCurrentContent(), NoLife where it throws.
ArchiveWith(life, ending) ==
  IF life = NoLife \/ (life.ending # None /\ ending = None) THEN NoLife
  ELSE [life EXCEPT !.ending = ending]

MigratedArchive(life, r) ==
  IF life.game.rev = r THEN life
  ELSE ArchiveWith(MigratedLife(life, r),
                   IF life.ending = None THEN None ELSE Current("ending", life.ending, r))

MigratedShelf(r) == {MigratedArchive(life, r) : life \in shelf}

\* migrateLegacyProfile(): the profile of a save, and its archive if it had ended.
LegacyLife(save, r) ==
  [life |-> lives + 1, game |-> Planned(MigratedGame(save, r), r), target |-> None,
   events |-> <<>>]

LegacyArchive(life) ==
  [life |-> life.life, game |-> life.game, ending |-> life.game.ended, target |-> None,
   events |-> <<>>]

LegacyProfile(life, r) ==
  LET compendium == WithUnlocks(FreshCompendium, Reached(life.game, life.game.ended, r), life.life)
  IN IF life.game.ended = None
     THEN [active |-> life, archives |-> {}, compendium |-> compendium]
     ELSE [active |-> NoLife, archives |-> {Summary(LegacyArchive(life))}, compendium |-> compendium]

LegacyShelf(life) == IF life.game.ended = None THEN {} ELSE {LegacyArchive(life)}

-----------------------------------------------------------------------------
(* The journal of a life. *)

\* What the numbering and the chronicle look at.
EventKinds == {"started", "replay", "attempt", "entry", "fate"}

Event == [seq : Nat, turn : Nat, kind : EventKinds]

\* That there is no journal is not a journal.
ASSUME JournalAssumption == None \notin Seq(Event)

\* emit(): the next number, in the journal of the life if there is one.
Emitted(events, kinds, turn) ==
  events \o [i \in DOMAIN kinds |-> [seq |-> sequence + i, turn |-> turn, kind |-> kinds[i]]]

Emit(events, kinds, turn) ==
  /\ journal' = IF events = None THEN None ELSE Emitted(events, kinds, turn)
  /\ sequence' = sequence + Len(kinds)

\* Mutant: the numbers of a page begin anew.
ResumeNumbersAnew(events) == journal' = events /\ sequence' = 0

\* startLifeJournal() on a new page: on with the numbers of the life.
ResumeJournal(events) ==
  /\ journal' = events
  /\ sequence' = IF events = <<>> THEN 0 ELSE Last(events).seq

\* chronicleEntriesForArchive() goes through a journal by the numbers of its events,
\* and where these are equal as they came.
Before(events, i, j) ==
  events[i].seq < events[j].seq \/ (events[i].seq = events[j].seq /\ i < j)

\* The turns that it tells of, and whether it knows what was attempted in one.
Told(events) == {i \in DOMAIN events : events[i].kind = "entry"}

Attempted(events, i) ==
  \E j \in DOMAIN events :
    events[j].kind = "attempt" /\ events[j].turn = events[i].turn /\ Before(events, j, i)

-----------------------------------------------------------------------------
(* Loading the page. *)

Init ==
  /\ deployed = 1
  /\ deploys = 0
  /\ stored = NoProfile
  /\ shelf = {}
  /\ v1 \in LegacySaves \cup {None}
  /\ wish = None
  /\ page = "closed"
  /\ content = None
  /\ readOnly = FALSE
  /\ profile = FreshProfile
  /\ engine = None
  /\ journal = None
  /\ sequence = 0
  /\ lives = 0
  /\ turns = 0
  /\ retried = FALSE

\* What a page shows of a profile: the engine with the active life, if any.
Show(p) ==
  /\ profile' = p
  /\ IF p.active = NoLife
     THEN engine' = FreshGame(deployed) /\ journal' = None /\ sequence' = 0
     ELSE engine' = EngineLoaded(p.active.game, deployed) /\ ResumeJournal(p.active.events)

\* A new page, from what is deployed.
Opened ==
  /\ page = "closed"
  /\ page' = "title"
  /\ content' = deployed
  /\ UNCHANGED <<deployed, deploys, v1, wish, retried>>

\* Mutant: the profile is written before the archives are looked at.
MigratesEarly(p, archives) ==
  /\ readOnly' = (NoLife \in archives)
  /\ stored' = p
  /\ shelf' = IF NoLife \in archives THEN shelf ELSE archives

\* replaceAll(), in one transaction, if all of it could be migrated.
Migrates(p, archives) ==
  /\ readOnly' = FALSE
  /\ NoLife \notin archives
  /\ stored' = p
  /\ shelf' = archives

\* initializeProfile() with a profile.
LoadAs(p) ==
  /\ p # NoProfile
  /\ Migrates(p, MigratedShelf(deployed))
  /\ Show(p)

Load ==
  /\ Opened
  /\ stored # NoProfile
  /\ LoadAs(MigratedProfile(stored, deployed))
  /\ UNCHANGED <<lives, turns>>

\* The same where a migration throws, or the write of what it has changed fails.
LoadReadOnly ==
  /\ Opened
  /\ stored # NoProfile
  /\ <<MigratedProfile(stored, deployed), MigratedShelf(deployed)>> # disk
  /\ readOnly' = TRUE
  /\ profile' = stored
  /\ engine' = FreshGame(deployed)
  /\ journal' = None
  /\ sequence' = 0
  /\ UNCHANGED <<disk, lives, turns>>

\* The first page of a player without a save.
LoadFresh ==
  /\ Opened
  /\ stored = NoProfile
  /\ v1 = None
  /\ readOnly' = FALSE
  /\ stored' = FreshProfile
  /\ Show(FreshProfile)
  /\ UNCHANGED <<shelf, lives, turns>>

\* A save of the time before profiles becomes one.
LoadLegacy ==
  /\ Opened
  /\ stored = NoProfile
  /\ v1 # None
  /\ MigratedGame(v1, deployed) # None
  /\ readOnly' = FALSE
  /\ stored' = LegacyProfile(LegacyLife(v1, deployed), deployed)
  /\ shelf' = LegacyShelf(LegacyLife(v1, deployed))
  /\ Show(stored')
  /\ lives' = lives + 1
  /\ UNCHANGED turns

\* Mutant: the empty profile is stored too.
ShowFreshAndStore == stored' = FreshProfile /\ Show(FreshProfile)

\* The page goes on without a profile on disk.
ShowFresh == Show(FreshProfile) /\ UNCHANGED stored

\* It cannot be migrated, or the write fails: the save is left where it is.
LoadLegacyFails ==
  /\ Opened
  /\ stored = NoProfile
  /\ v1 # None
  /\ readOnly' = FALSE
  /\ ShowFresh
  /\ UNCHANGED <<shelf, lives, turns>>

\* The next revision, or the one before again.  A page does not notice: it may as
\* well be closed.
Deploy(r) ==
  /\ page = "closed"
  /\ deploys < MaxDeploys
  /\ r \in {deployed - 1, deployed + 1}
  /\ deployed' = r
  /\ deploys' = deploys + 1
  /\ UNCHANGED <<disk, v1, wish, page, content, readOnly, profile, engine, journal,
                 sequence, lives, turns, retried>>

\* The page is closed, or reloaded: its memory is gone.
Gone ==
  /\ page # "closed"
  /\ page' = "closed"
  /\ content' = None
  /\ readOnly' = FALSE
  /\ profile' = FreshProfile
  /\ engine' = None
  /\ journal' = None
  /\ sequence' = 0

Close ==
  /\ Gone
  /\ UNCHANGED <<deployed, deploys, disk, v1, wish, lives, turns, retried>>

-----------------------------------------------------------------------------
(* Playing. *)

\* tryLoad(): the compatibility save first, then the profile.
Compatible == IF v1 = None THEN None ELSE MigratedGame(v1, content)

Resumable == Compatible # None \/ profile.active # NoLife

Resumed == IF Compatible # None THEN Compatible ELSE profile.active.game

\* The title is left for a game.
Started ==
  /\ page = "title"
  /\ ~ readOnly
  /\ page' = "playing"
  /\ UNCHANGED <<deployed, deploys, content, readOnly>>

\* startGame(true).
Continue ==
  /\ Started
  /\ Resumable
  /\ engine' = EngineLoaded(Resumed, content)
  /\ Emit(journal, <<"started">>, engine'.turns)
  /\ UNCHANGED <<disk, v1, wish, profile, lives, turns, retried>>

\* beginProfileLife() with the target that was chosen, and what startGame(false)
\* emits.
BeginLife(before) ==
  /\ lives < MaxLives
  /\ profile' = [before EXCEPT !.active =
                   [life |-> lives + 1, game |-> FreshGame(content), target |-> wish,
                    events |-> <<>>]]
  /\ stored' = profile'
  /\ engine' = FreshGame(content)
  /\ wish' = None
  /\ Emit(<<>>, IF wish = None THEN <<"started">> ELSE <<"replay", "started">>, 0)
  /\ lives' = lives + 1
  /\ retried' = FALSE
  /\ UNCHANGED turns

\* startGame(true) where nothing could be resumed: the save stays where it is.
ContinueAnew ==
  /\ Started
  /\ v1 # None
  /\ ~ Resumable
  /\ BeginLife(profile)
  /\ UNCHANGED <<shelf, v1>>

\* archiveCurrentLife() of the game in memory, if it is of the profile: its life,
\* the profile after it, and the writes.
Leaving(ending) == Archived(profile, engine, ending, journal)

Left(ending) ==
  IF profile.active = NoLife THEN profile ELSE WithArchive(profile, Leaving(ending), content)

Shelved(ending) == shelf' = IF profile.active = NoLife THEN shelf ELSE shelf \cup {Leaving(ending)}

\* The button for a new life: clearSave(), then startGame(false).
NewLife ==
  /\ Started
  /\ BeginLife(Left(None))
  /\ Shelved(None)
  /\ v1' = None

\* The buttons in the game: clearSave(), then a reload.
Restart ==
  /\ page \in {"playing", "over"}
  /\ Gone
  /\ stored' = IF profile.active = NoLife THEN stored ELSE Left(None)
  /\ Shelved(None)
  /\ v1' = None
  /\ UNCHANGED <<deployed, deploys, wish, lives, turns, retried>>

\* performCombine(): the turn, its events, the compendium and the saves.  The save
\* of a turn that gave nothing is the profile's alone in a build without inventions
\* (shouldPersistAttemptState()), and the profile's may be lost with the page.
Turn(game, gave, written) ==
  /\ engine.ended = None
  /\ turns < MaxTurns
  /\ turns' = turns + 1
  /\ engine' = [game EXCEPT !.turns = @ + 1]
  /\ Emit(journal, <<"attempt", "entry">> \o IF game.ended = None THEN <<>> ELSE <<"fate">>,
          engine'.turns)
  /\ profile' = IF profile.active = NoLife THEN profile
                ELSE [profile EXCEPT
                        !.active = [@ EXCEPT !.game = engine', !.events = journal'],
                        !.compendium = LiveProgress(@, engine', profile.active.life, content)]
  /\ stored' = IF written /\ profile.active # NoLife THEN profile' ELSE stored
  /\ v1' = IF gave \/ Generated \/ game.ended # None THEN engine' ELSE v1
  /\ page' = IF game.ended = None THEN page ELSE "over"
  /\ UNCHANGED <<deployed, deploys, shelf, wish, content, readOnly, lives, retried>>

\* An element of the content, with the branches it completes.
Discovered(name) ==
  LET completed == {b \in DOMAIN Contents[content].branches : Contents[content].branches[b] = name} IN
  [engine EXCEPT !.discovered = @ \cup {Named(name)}, !.branches = @ \cup completed]

\* An invention, or the one of these parents once more.
Invented(parents) ==
  [engine EXCEPT !.discovered = @ \cup {Made(parents)},
                 !.made = IF Made(parents) \in Range(@) THEN @ ELSE Append(@, Made(parents))]

Discover(written, ending) ==
  \E name \in Contents[content].elements :
    /\ Named(name) \notin engine.discovered
    /\ Turn([Discovered(name) EXCEPT !.ended = ending], TRUE, written)

Invent(written, ending) ==
  \E p, q \in engine.discovered :
    /\ Generated
    /\ p # q
    /\ p.of = {} \/ q.of = {}
    /\ Turn([Invented({p, q}) EXCEPT !.ended = ending], TRUE, written)

Fail(written, ending) == Turn([engine EXCEPT !.ended = ending], FALSE, written)

Play ==
  page = "playing" /\ \E written \in BOOLEAN, ending \in Contents[content].endings \cup {None} :
    \/ Discover(written, ending)
    \/ Invent(written, ending)
    \/ Fail(written, ending)

\* archiveCurrentLife() with the ending, on the page that has played it.
Finish ==
  /\ page = "over"
  /\ page' = "playing"
  /\ profile' = Left(engine.ended)
  /\ stored' = IF profile.active = NoLife THEN stored ELSE profile'
  /\ Shelved(engine.ended)
  /\ v1' = None
  /\ journal' = None
  /\ UNCHANGED <<deployed, deploys, wish, content, readOnly, engine, sequence, lives, turns,
                 retried>>

\* A path still open is chosen in the book, and the page reloads.
ChooseTarget ==
  /\ Gone
  /\ ~ readOnly
  /\ wish' \in ReplayTargets(profile.compendium, content)
  /\ v1' = None
  /\ UNCHANGED <<deployed, deploys, disk, lives, turns, retried>>

\* The button "Retry saving" under the error of a save that was not taken over, which
\* the title covers: the profile in memory is stored, empty or not.
RetrySaving ==
  /\ page \in {"playing", "over"}
  /\ stored = NoProfile
  /\ stored' = profile
  /\ retried' = TRUE
  /\ UNCHANGED <<deployed, deploys, shelf, v1, wish, page, content, readOnly, profile,
                 engine, journal, sequence, lives, turns>>

Next ==
  \/ Load \/ LoadReadOnly \/ LoadFresh \/ LoadLegacy \/ LoadLegacyFails
  \/ \E r \in Revisions : Deploy(r)
  \/ Close \/ Continue \/ ContinueAnew \/ NewLife \/ Restart
  \/ Play \/ Finish \/ ChooseTarget \/ RetrySaving

Spec == Init /\ [][Next]_vars

-----------------------------------------------------------------------------
(* Properties. *)

LivesOf(p) == IF p.active = NoLife THEN {} ELSE {p.active}

\* No life was brought by a save of the time before plans: what such a save names
\* is taken over as it is.
Native(p) == \A life \in shelf \cup LivesOf(p) : ~ life.game.legacy

\* Elements of the content, and inventions made of them and of each other.
Plain(r) == {Named(e) : e \in Contents[r].elements}

MadeOf(ids, r) ==
  \A id \in ids : id = Made(id.of) /\ id.of # {} /\ id.of \subseteq Plain(r) \cup ids

GameCurrent(game, r) ==
  /\ game.rev = r
  /\ game.discovered \subseteq Plain(r) \cup Range(game.made)
  /\ MadeOf(Range(game.made), r)
  /\ game.branches \subseteq DOMAIN Contents[r].branches
  /\ game.ended \in Contents[r].endings \cup {None}

\* A save counts its summers, and one that tells its revision was written by a page of
\* that revision.
ASSUME SavesAssumption ==
  \A save \in LegacySaves :
    /\ DOMAIN save = DOMAIN FreshGame(1)
    /\ save.made \in Seq(Range(save.made))
    /\ save.turns \in Nat
    /\ save.rev = 0 \/ (save.rev \in Revisions /\ GameCurrent(save, save.rev))

\* After a load that is not read-only, whatever the profile and the archive refer
\* to, an invention's parents included, is of the content of the page: no name of an
\* older revision is left, under which the engine would not know it
\* (content-migrations.ts:31-54, tests/content-migrations.test.ts:134).
RefsCurrent ==
  page # "closed" /\ ~ readOnly /\ Native(profile) =>
    /\ \A life \in shelf \cup LivesOf(profile) : GameCurrent(life.game, content)
    /\ \A life \in shelf : life.ending \in Contents[content].endings \cup {None}
    /\ \A e \in Unlocked(profile.compendium) : e.name \in Vocabulary(e.kind, content)
    /\ MadeOf({g.id : g \in Range(profile.compendium.gallery)}, content)

\* The summaries of the profile and the archived lives agree, and the compendium
\* counts whatever an archived life has reached, across renames, merges and lost
\* writes (life.ts:161-193, content-migrations.ts:421-457 and 492-588).
ArchivesAgree ==
  page # "closed" /\ ~ readOnly /\ Native(profile) =>
    /\ profile.archives = {Summary(life) : life \in shelf}
    /\ \A life \in shelf :
         Reached(life.game, life.ending, content) \subseteq Unlocked(profile.compendium)

\* A player whose content cannot be migrated loses nothing: not a byte is written
\* while the page is read-only, from the load on (main.ts:310-314, 2245-2253).
ReadOnlyIsUntouched == [][readOnly' => UNCHANGED <<disk, v1, wish>>]_vars

\* Of what the inventions of a game were made of, no two elements become one in
\* revision r or had become one before, and none of them comes out otherwise there.
ComesApart(game, r) ==
  /\ IsInjective(game.made)
  /\ \A made \in Range(game.made) : Cardinality(made.of) = 2
  /\ \A p, q \in {id.name : id \in UNION {made.of : made \in Range(game.made)}} \ {""} :
       p # q => Current("discovery", p, r) # Current("discovery", q, r)
  /\ MigratedGame(game, r).strange = {}

\* A life of a profile that is loaded arrives in the engine: what was found of the
\* content, its branches and its ending under their present names, and all of its
\* inventions, unless two things that they were made of have become one or one of them
\* no longer comes out of its parents.  Of the inventions of such a life nothing is said:
\* some are lost (improvise.ts:285, engine.ts:258-334, content-migrations.ts:105-174).
LifeArrives ==
  [][Load /\ stored.active # NoLife /\ Native(stored) =>
       LET old == stored.active.game
           found == {id.name : id \in old.discovered} \ {""}
       IN /\ {Named(Current("discovery", e, content')) : e \in found} \subseteq engine'.discovered
          /\ {Current("branch", b, content') : b \in old.branches} = engine'.branches
          /\ old.ended # None => engine'.ended = Current("ending", old.ended, content')
          /\ ComesApart(old, content') =>
               /\ Len(engine'.made) = Len(old.made)
               /\ Range(engine'.made) \subseteq engine'.discovered]_vars

\* A page that could not take over the save of a life from before profiles stores no
\* empty profile beside it, which would keep later pages from taking it over
\* (main.ts:368-371), however long it is played on: until the player presses the
\* button that stores it, which main.ts:2411-2418 does not keep from it.
LegacyNotShadowed ==
  stored # NoProfile /\ v1 # None /\ ~ retried =>
    stored.active # NoLife \/ stored.archives # {}

\* The chronicle of a life tells its turns in their order, each once and with its
\* attempt, over reloads that resume the journal (events.ts:239-246,
\* chronicle.ts:58-125; PRODUCT.md:331 "can reconstruct what this Karl tried").
ChronicleInOrder ==
  \A life \in shelf : \A i \in Told(life.events) :
    /\ Attempted(life.events, i)
    /\ life.events[i].turn <= life.game.turns
    /\ \A j \in Told(life.events) :
         Before(life.events, i, j) => life.events[i].turn < life.events[j].turn

=============================================================================
