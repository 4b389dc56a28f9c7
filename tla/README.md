# The Ascent of Karl, in TLA+

*The Ascent of Karl* is a browser game in TypeScript. A player combines
elements, each combination costs Karl a summer, and at most fifty summers later
his life ends. Online, a Cloudflare Worker is the authority: a `Run` Durable
Object keeps each life and one global `Coordinator` Durable Object pays for
model calls out of daily budgets. These modules specify the parts where order,
failure and concurrency decide whether the program is right. Every definition
is translated from the source; `PROJECT.json` names the lines of each.

## Inventory

| Part | State it keeps | Operations | What is hard | What makes it right |
| --- | --- | --- | --- | --- |
| Narrator pipeline (`worker/src/coordinator.ts`, `budget.ts`, `limiter.ts`, `cleanup.ts`, `stats.ts`, `concurrency.ts`) | durable: rate windows, line cache, a daily budget for the world and one per address, demand statistics, the cleanup alarm; in memory: the gate and the calls in flight | `decide()`, `alarm()` | requests interleave between gate and model call; eviction loses memory; the writes of a reservation are separate; midnight | no budget is passed, a line is paid for once, nobody waits for a call that is gone, records agree |
| Improvise, generated, commentary and speech pipelines (`improvise.ts`, `generated.ts`, `runtime-commentary.ts`, `runtime-tts.ts`) | their own budgets, windows, caches, tallies | one `decide…()` each, `alarm()` | as above, with timeouts; two share their rate slots; two update a tally when the call has ended | as above |
| Run creation quota (`coordinator-do.ts:782`) | rolling hour per address and for the world | reserve | a clock read before the gate; a slot without a run | never more than the quota an hour |
| Edge (`index.ts`, `run-auth.ts`) | none | routing, capability tokens | order of init and response | only verified requests reach a run |
| Run object (`run-do.ts`) | durable: revision, state, status, log of answers, rate stamps, commentary, alarm; in memory: the gate, commentary in flight | init, GET, DELETE, attempt, commentary, audio, `alarm()` | repeated, lost, late requests; commentary written a model call later; the alarm outside the gate; eviction between two writes | each attempt is played at most once, on the state its player saw, and answered again as before |
| Online session of a tab (`ui/main.ts`, `ui/session-client.ts`) | run credentials (shared by local storage), revision, engine state, the screen, `activePlayBlocked` | start, continue, attempt, outage, reconnect, leave | several tabs; answers after a time-out; several attempts under way in one tab | a tab never shows what the life is not |
| Engine (`core/engine.ts`, `challenge.ts`, `branches.ts`, `generated-effects.ts`) | discoveries, summers, age, problems, challenge clock, ending, branches, inventions | `combine`, `attempt`, `attemptGenerated`, `improvise`, late names, load | many rules in one turn, in an order that matters; a registry whose members name each other | an ended life stays ended; a refused turn costs nothing; nothing is reached that was not earned |
| Rules (`core/verdict.ts`, `improvise.ts`, `solves.ts`, `generated-candidates.ts`, `generated-validator.ts`) | none | verdict of a pair, fallback element, tags, proposals | the order of many rules | the engine's properties |
| Narrator's voice (`narrator/narrator.ts`) | which lines were told, counters, hints given, defiance, calls to Karl | `react()`, `opening()`, introductions, load | counters that skip; lines that may be said once; a reload between turns | hints and defiance climb in their order |
| Beats of the page (`ui/main.ts`, `ui/audio.ts`, `ui/runtime-commentary-client.ts`) | the queue of beats, the beat on stage with its promise, the pause, the sound that plays, the fetched commentaries | `say()`, `sayAfter()`, fetch, cancel, mute, conflict | timers, promises and media events of earlier beats that fire later | a beat that waits is served, and an ended life gets to the archive |
| Lives and profile (`core/life.ts`, `core/compendium.ts`, `persistence/*`, `ui/main.ts`) | active life, archives, compendium, a serial write queue | begin, persist, archive | queued snapshots, two stores, an ending that waits for its last line | each life is archived once, with the right outcome |
| Late copy (`ui/improvise-client.ts`, `narrator/live.ts`) | the texts asked for, the selection whose text may come late | prefetch, apply | answers for an older turn or life | late copy never replaces newer |
| Saves, migrations, compendium, chronicle (`core/content-migrations.ts`, `save.ts`, `compendium.ts`, `replay.ts`, `chronicle.ts`, `product/events.ts`) | two saves of one life, archives, unlocked entries, a gallery, a replay target, a journal | load, migrate, play, archive | each deployment may rename, merge or drop what they name; writes are lost apart | nothing stored names what the content has not; nothing is lost for what cannot be migrated |
| Rendering, tools | little | pure functions | — | held by the repository's tests |

The parts meet in few places. A tab talks to the edge by HTTP; the edge checks
and forwards to the `Run` object of the life or to the `Coordinator`; the `Run`
object calls the `Coordinator` while it holds its own gate for a generated
proposal, and without the gate for a commentary. Nothing calls back. In the page
`main.ts` drives everything: it asks the engine (or the run) for a turn, the
narrator for its beats, and the profile for a snapshot.

## Modules

| Module | Models | Notes |
| --- | --- | --- |
| `Metering` | `budget.ts`, `limiter.ts`, `cleanup.ts` | the pure rules: dates, rolling windows, budget records, what is stale |
| `DailyBudget` | — | what a budget promises, abstractly: a day's calls are charged to the world and to an address within two limits |
| `Narrator` | `coordinator.ts` `decide()`, the narrator's part of `alarm()` | EXTENDS `Metering` |
| `MeteringProofs` | — | lemmas on rolling windows, records and finite sums |
| `NarratorProofs` | — | theorems on `Narrator` |
| `Services` | the four other pipelines, the creation quota, their part of `alarm()` | EXTENDS `Metering`; one copy of `DailyBudget` for each service |
| `ServicesProofs` | — | theorems on `Services` |
| `RunObject` | `run-do.ts` | the actions of one Durable Object |
| `OnlineLife` | — | what a life played online promises, abstractly: begun once, one turn at a time, never back once gone |
| `RunSession` | `main.ts` (online play), `session-client.ts` | EXTENDS `RunObject`: tabs, network and object together; implements `OnlineLife` |
| `SessionProofs` | — | theorems on `RunSession` |
| `Taxonomy` | `verdict.ts`, `improvise.ts`, `solves.ts`, `generated-*.ts` | the pure rules of elements and pairs |
| `Lifespan` | — | what a life promises, abstractly: summers pass, an ending is final |
| `Engine` | `engine.ts`, `challenge.ts`, `branches.ts`, `generated-effects.ts` | EXTENDS `Taxonomy`; implements `Lifespan` |
| `EngineProofs` | — | theorems on `Engine` and `Voice`, for every content |
| `Voice` | `narrator.ts` | what is said, and what is remembered of it |
| `Stage` | `say()` and the queue of `main.ts`, `audio.ts`, `runtime-commentary-client.ts` | when it is said |
| `StageProofs` | — | theorems on `Stage` |
| `ProfileArchive` | `main.ts` 221–470 and `startGame()`, `life.ts`, `persistence/*` | lives, the profile and the archive of one page |
| `ProfileProofs` | — | theorems on `ProfileArchive` |
| `Revisions` | `content-migrations.ts`, `save.ts`, `compendium.ts`, `replay.ts`, `chronicle.ts`, the journal of `events.ts`, `initializeProfile()` | what is stored, across revisions of the content |
| `RevisionsProofs` | — | theorems on `Revisions` |
| `MCNarrator`, `MCRunSession`, `MCServices`, `MCEngine`, `MCVoice`, `MCProfile`, `MCRevisions` | — | bounds, small contents and symmetry for TLC |

### Narrator

`Init` is an empty store. A request is a process: `RateSlot` and `RateLimited`
are `reserveRateLimitSlot()`, `BadBody` the validation, `Decide` the body of the
gate. Each body under the gate awaits storage only, so nothing of the object
comes between (`SerialGate`, and Cloudflare's input gates) and it is one action;
what can come between its separate writes is an eviction, and
`EvictWhileReserving` is that action, with the clock as it was when the first
write was made. `SecondRead` is the second look at the clock that `decide()`
takes for the address's budget: midnight may have passed since the first.
`UpstreamOk` and `UpstreamFailed` end a model call outside the gate and answer
everybody in `Waiters`. `Cleanup` is the alarm, which takes no gate, and may stop
after any of its sweeps; `Reschedule` is its `finally`. Three history variables
record what the code does not: the true number of calls started, and those an
eviction prevented.

### Services

The four younger pipelines have two shapes. *Shared* services (inventions,
proposals) have a cache and calls in flight that a second request joins; *single*
ones (commentary, speech) call once for each request and write the outcome to a
tally when it has ended. A service takes its rate slots from a list (`ListOf`):
inventions and proposals use the same, whatever else they keep apart. The clock
is the one a request reads before it waits for the gate; nobody reads it twice
(unlike `Narrator`). `Cleanup` is again the alarm with its sweeps in their order,
and the run-creation quota is a list of its own kind, which the alarm rewrites or
deletes.
`ImplementsDailyBudgets` instantiates `DailyBudget` once per service.

### RunObject and RunSession

A game state is the sequence of the attempts that made it, so two states are
equal exactly when the same turns led to them. What the engine decides (a
canonical combination, a proposal to ask for, a refusal, an early ending) is a
choice; only `TurnLimit` is the engine's. Unlike the Coordinator's, this gate is
held while the object waits: for a body (`pc = "parsing"`) and for a proposal
(`pc = "proposing"`). `job` is the handler that holds it, with the copy of the
run that it read first and will write back. Everything of the object that takes
the gate asks for `GateFree`; `RetentionAlarm`, `Evict` and the passing of time
do not, as in the code. `CommitCut` and `StartLife(complete = FALSE)` are the
eviction between `put` and `setAlarm`.

Rate stamps are counted: `fresh` of them are younger than a minute, and
`MinutePasses(n)` lets the n oldest leave the window, in the store and in the
handler's copy alike. The alarm may fire whenever it is set, which is more than
the code allows (thirty days or seven) and so covers every order.

A request is lost by never being delivered, delivered twice by `Admit(m, TRUE)`,
and any order is possible because requests and responses are sets. A tab that
gives up (`GiveUp`: four seconds, or a broken connection) closes the connection,
and no answer to it is heard (`Reply`, `Close`). `Submit` asks only for an open,
unfinished life on the screen: emptying a slot re-opens the button
(`main.ts:1172`) while an attempt is under way, so a tab may have several. An
answer is adopted whatever the screen shows by then, as `performCombine()` does.
`basis` remembers on which view an attempt was made.

`OnlineLife` is what all this amounts to: a life that begins, is played one turn
after the other by attempts of their own until it is over, and may vanish for
good. The life is `LifeView`: the copy that a handler under the gate will write back,
or else what is stored. So an alarm that deletes the stored run while an attempt is
under way ends nothing yet: a turn that is played writes the life back, an answer
without one, or an eviction, ends it.

### Taxonomy, Lifespan and Engine

An element is a record of the facts the rules read (kind, stuff, scale, doing,
tags); the recipes, problems, gates, fates and branches are constants that
`MCEngine` fills with a content of seven things. `Turn` is one attempt, made in
any of the four ways the code has (`combine`, the classic run's; `attempt`, which
may improvise; `attemptGenerated`, which takes a model's proposal; `improvise`),
and then the bookkeeping that follows each of them in the code's order: discovery
and age, solved problems, the challenge clock, spawned problems, branches, and
the ending that is found first. A refused turn (`TurnAllowed`) changes nothing.
An invention may be made under its template name or, when it has come, under a written
one. The page asks for the text of a pair when it is selected (`Prefetched`), has it at
hand in later attempts of the same act (`WrittenNames`), and lets it come late, as
`Rename`, only while nothing else was selected (`CopiesAfter`, which is
`CopyGenerationGuard`); `copies` remembers both. `Load` is a reload: what was saved after
the last turn is read back through `sanitizeImprovisedRegistry()`, which keeps an
invention only if its parents are known and its name still passes
(`Accepted`). The hash that chooses a problem to spawn is any choice, the order
of two elements does not matter, and the id that breaks ties in string order is
an arbitrary but fixed one. An improvised attempt costs one summer. The content's
`invention-consequences.json` has no rules today, so that generated effects are
modelled but only this instance has any.

`Lifespan` is what the rest of the program believes of a life: summers only fall,
an ended life does not change, what is discovered stays discovered unless a
reload drops an invention.

### Voice

The module extends `Engine`: the turns it speaks of are the engine's. `Attempt` is
`performCombine()` from the attempt to what is said of it. `Counted` is what
`updateCounters()` does with it; `React` tries the rules of `react()` in the order of the code
(`??` is "or else"), each with the counter, memory or flag it changes on the way;
`FollowUp` is the second line after a discovery, a step of the ladder of defiance
or a pull. A rule is the set of the things it may say, so that what the code draws
(from a pool without the last line, or by a rotating index) is any of them. `Opened`
is what `startGame()` says once there is sound, `Banner` the introduction of a new age
when its banner is put away. `inventing` is the build: with inventions every turn is
saved, without them a turn that gives nothing is not (`Kept`), nor is a banner. `saved` is
the compatibility save, game and narrator together, and `Reload` resumes it
(`Resumed`) even when the profile is a turn ahead. `undone` counts the reloads that took back a hint so. A
line written for the pair (`OfLive`) may have arrived or not; written names are asked
for in `Engine`'s own runs only.

### Stage

One action per event of the page: `Open` (the opening beat), `Answer` (a turn's
reply, its pull and its fetched commentary), `Conflict` (the run was elsewhere
and the scene is drawn anew), `ToggleMute`, `CloseBanner`, and what time and the
browser bring: `TextTyped`, `SoundEnds`, `PlayRejected` (autoplay refused, the
sound waits for a gesture), `TimerFires` (the pause between beats), `Continue` (a
callback of a promise that was settled), `CommentArrives`, `AudioArrives`,
`CommentFails`, `Deadline`. A *generation* names the promise `currentBeatDone`;
a continuation chained to an older one may run at any time later, as promises do.
Streams and synthesized speech are merged as "spoken"; with reduced motion the
text is typed at once. `awaited` is the commentary that an ending waits for, and
`archived` says that it no longer does.

### ProfileArchive

A life is a profile's name for a game. Offline the game is what the engine
holds; online it is a run on the server, and the module keeps each run's state
(`server`), because it outlives the life that played it. `stored` and `shelf` are
the two IndexedDB stores, `saved` and `creds` two keys of local storage; the rest
is the page's memory, which `FreshPage` sets anew on every load. `queue` is
`profileWrites`: its head is the write in progress, and each of `SaveDone`,
`FinalizeDone` and `WriteFails` is the end of one transaction together with what
the awaiting function does next. The buttons stay enabled meanwhile, so that several
calls of one function may be under way, and each goes on by itself: `clearing` counts
those that wait past their archive, by what they do next (`Followers`), `starting` the
`createRun()` calls, `telling` the endings that wait for their last commentary. The
queue has one archive for each `Clear`. `Underway` is all that is on its way to
begin a life or to leave one, and `MaxUnderway` its bound; the history variable
`beside` has the lives that were begun while something else of it was under way.
`Beat` is `persistActiveLife()` called by a narrator beat or by late copy, at any time.
A turn is a number and an ending: what is played does not matter here, and the
attempts under way of `RunSession` are one step (`PlayOnline`) or none
(`PlayUnheard`).

### Revisions

A *content* is a revision's elements, endings and branches and the aliases that
lead to it from the revisions it supports. `Load` is `initializeProfile()`: the
profile, the archived lives and the replay target are migrated together and
written in one transaction, or the page is read-only (`LoadReadOnly`);
`LoadLegacy` and `LoadLegacyFails` take over a save from before profiles. When that
fails the page goes on with an empty profile in memory, and `RetrySaving` is the button
that stores it, once the title that covers it is left. Between
loads a `Turn` writes the compatibility save and the profile, in that order, and
the second may be lost with its page (`written`). An invention is named after its
parents, so its name is the set of theirs, and `MadeAliases` renames a registry in
its order. Migrated inventions keep the looks and the name that their old parents gave
them, and the engine drops what its parents do not make (`Kept`): which inventions come
out otherwise in a content is its `estranged`, and those of a game that was migrated to it are
`strange`. `Finish`, `NewLife` and `Restart` archive; `Told`, `Attempted` and `Before`
are what the book later tells of an archived life.

Simplified: writes of a new life and of archives succeed (`ProfileArchive` has
their failures); what Karl wakes up among stays that (`BaseAssumption`); a deployment is of
the next or the previous revision and comes while the page is closed, which loses
nothing since a page never looks at the server again; areas of discovery are no
replay targets, since they name nothing.

## Runs

| Run | Instance | Shows |
| --- | --- | --- |
| `narrator` | two requests, two addresses, one line, three days of a tick each | `WorldRecordIsExact`, `CleanupScheduled`, `RateHonoured`, `PaidOnce`, `NoOrphanedWaiter`, and `ImplementsDailyBudget`: every step is one of `DailyBudget` or a stutter |
| `services` | two addresses, three requests of three services and the creation quota, three days | `ServiceRatesHonoured`, `CreationsWithinQuota`, `ImplementsDailyBudgets` |
| `session` | two tabs, two attempts, a life of two summers, one attempt a minute | `PlayedAsSeen`, `TabsShowThePast`, `AnswersAreOwn`, `DeletedStaysDeleted`, and `ImplementsOnlineLife`: every step is one of `OnlineLife` or a stutter |
| `session_lines` | one tab, two attempts, a line for the opening and each attempt, two attempts a minute, fair | `RetriesAreAnswered`, `RetentionHolds`, `LinesAreKept`, `GateIsFreed` |
| `life` | a content of seven things, four summers, every way of attempting, reloads | `RegistryClosed`, `AgesAreEarned`, `OnlyTheEmptyHandedDie`, `BranchesExact`, `EndingsAreEarned`, and `ImplementsLifespan` |
| `inventions` | the same content with written names and without a model | a violation: see *Findings* |
| `voice` | five summers over five pairs, two reloads, with inventions and without | `DefianceFromBelow`, `HintsClimb` |
| `stage` | the opening and one attempt, each with a commentary and a pull, an introduction, fair | `QueueIsServed`, `GivenUpStaysUnsaid`, `BeatsInTurn`, `EveryBeatEnds`, `EndedLifeIsArchived` |
| `profile` | offline three lives of two turns; online two runs and two lives of one turn; two starts or leavings under way, three queued writes | `SummariesAreBacked`, `StoredLifeSurvives`, `ShelfIsImmutable` |
| `profile_twice` | online, as above | a violation: see *Findings* |
| `revisions` | three revisions, two deployments, two lives, two turns | `RefsCurrent`, `LifeArrives`, `ArchivesAgree`, `ReadOnlyIsUntouched`, `LegacyNotShadowed`, `ChronicleInOrder` |
| `chronicle` | two lives and two turns in a build without inventions | a violation: see *Findings* |

Why these bounds are enough.

* *Narrator and services.* A hazard involves at most two requests (one ahead of
  the other), two addresses (one over its share, one not) and a midnight; the
  third day is needed for the sweep, which spares yesterday and deletes the day
  before. Days of one tick leave no two moments of a day apart, which `DateOf`
  could tell but no rule does. Speech has the shape of commentary and is served
  by no run of its own (an instance of all four services with two requests
  passes too). A creation quota of two for the world never binds before the
  addresses' own quota of one each.
* *Session.* Two tabs and two attempts: one that overtakes, repeats or outdates the
  other. The code's limits stand in the proportion that matters: fifty turns
  fit in fifty entries of the answer log and, with the opening, in fifty-one lines
  of commentary (`LifeFitsAssumption`), and the instances make both bounds tight,
  so that an off-by-one shows. Three attempts with two tabs do not finish in five
  minutes; three with one tab show nothing new.
* *Engine and voice.* A content of seven things has one of each rule: a recipe, a
  gate, an act, a challenge that fails in two summers, a branch of each kind, an
  ending by combination, by branch and by age. Four summers let an invention be
  made of an invention (`MaxDepth`, `RunCap`) and be made again. The voice's counters
  are shortened (`HintStart`, cooldowns) so that each ladder is climbed to its top
  in five summers; with two reloads a hint may be given three times.
* *Stage.* The opening and one attempt make five beats wait behind each other, and
  a second attempt adds only more of the same kind; the safety properties are
  proved for any number.
* *Profile.* A life, the one that follows it, and a write of one queued behind a
  write of the other; a third life offline lets a resurrected first meet both, and two
  calls under way are enough for one to overtake the other.
  Online a second turn adds nothing, since any turn may be the last.
* *Revisions.* The second revision renames one of each kind and merges two
  elements, so that two inventions may meet in one name, and makes something else of two
  that it renames, so that a migrated invention is not what its parents make; the third renames again
  (so that aliases chain) and merges what an invention is made of; going back is unsupported, as today. Two turns are an invention and what
  follows it, or a turn in each of two lives. Replay targets are endings only,
  since a branch is lost in the same way.

Deadlock is checked in `narrator`, `life`, `inventions`, `revisions` and
`chronicle`. Elsewhere the system may stop: the bounded arrivals of `services` end,
a run may be deleted and its tabs gone, a life of `voice` and the beats of
`stage` end, and every life of `profile` may have been begun and left. Tabs,
attempts, requests, addresses and keys are interchangeable in the runs without
liveness; the runs with it use no symmetry.

## Fairness

`session_lines` assumes weak fairness of `GateStep`, the steps of the handler that
holds the gate. The edge has read the whole body before it forwards (`index.ts`), so
parsing ends; the Coordinator answers a proposal or gives up after four seconds
(`generated-model.ts:119`); the rest is storage.

`stage` assumes weak fairness of what the browser brings by itself: a settled
promise's callback (`Continue`), a timer (`TimerFires`), the typing of a text
(`TextTyped`), the end of a sound that plays (`SoundEnds`), and for each commentary an
answer or its time-out (`CommentArrives \/ CommentFails`, 2.5 s; `AudioArrives`,
0.5 s) and the deadline of its presentation (8 s,
`runtime-commentary-client.ts:30`). That a sound that was begun ends or fails is the
media element's promise; that it may begin is the click on the title, which
resumes the audio context. No fairness is assumed of a gesture: a beat that the
browser refused to play may be held for ever, and `EveryBeatEnds` excepts it.

No fairness is assumed of tabs, of the network or of the player, nor in
`narrator`: its model call has no time-out (`model.ts:201`), so the code does not
promise that a waiting request is answered, and no liveness is stated.

## Findings

* `inventions`: an invention is made before its written text has come, another is made
  of it, and then the first pair is attempted again: `attempt()` renames the reused
  invention (`engine.ts:629-637`). The next load drops the second one, with its own
  children, when its old name does not pass the contract of names.
  `docs/design/improvisation-balance.md:28` says a reload cannot reset the use of
  inventions. (`enhanceImprovisedCopy()` renames too, but only before anything else is
  selected, and so before there is a child.)
* `profile_twice`: the ended run of an archived life can be continued, as a new life
  of the profile, and is archived again as abandoned (`PRODUCT.md:388`).
* `chronicle`: in a build without inventions, as the published pages are
  (`tools/build_pages.mjs:49-61`), a turn that gives nothing is saved in the
  profile and not in the compatibility save, which a reload prefers. The life goes
  on a turn behind its own journal, and its chronicle tells one summer twice
  (`PRODUCT.md:331`).

### Observations

What no document speaks of, but a reader of the modules will meet:

* `decide()` of the narrator reads the clock again for the address's budget
  (`coordinator.ts:91` and 267), so that midnight may put one call on two dates.
  `improvise.ts` reads it once, and a test holds it to that.
* Online, an ended life that is left before its last commentary was presented is
  archived as abandoned (`main.ts:1900`), and when another life takes its place in
  that time the ending is archived for that one. No property speaks of it.
* The title's buttons stay enabled while the life before is archived: of two clicks on
  *new life* each begins one (`main.ts:2224-2234`), and the second overwrites the first,
  which is in no archive. Online a slow `createRun()` may do the same to a life that was
  continued meanwhile. `StoredLifeSurvives` therefore excepts lives in `beside`.
* A snapshot queued behind the archive of its life makes that life active again on
  disk, and every later archive of it fails as a duplicate; the archive itself is
  never harmed (`ShelfIsImmutable`).
* A discovery may be met with silence when no line is left (`narrator.ts:994`, which
  `tests/narrator.test.ts:372` excepts); lines of some pools do come twice in a row,
  though `narrator.ts:56` says never.
* A beat held for a gesture stays held after both of `initAudio()`'s
  once-listeners were used up (`audio.ts:138` and 166). A commentary that was queued
  may be presented in a later turn, and unmuting re-types a text that the next
  beat may then cut (`main.ts:954-966`), although the queue is there so that no
  beat overwrites the one before it (`main.ts:746-749`). `BeatsInTurn` excepts a text
  that is typed again.
* A challenge that fails overwrites an ending that an invention unlocked earlier in the same
  turn (`engine.ts:850`).
* In a build without inventions a reload may take back the turn that gave a hint, which is
  then given again; `HintsClimb` allows it once for each such reload.
* A second answer under way shortens `quietUntil` (`live.ts:65`), and a line that
  `clean()` rejects is asked for again.
* A merge of two inventions is refused only when the later one's name changes
  (`content-migrations.ts:133`): otherwise both become one entry twice, and the
  engine then drops both with their children (`engine.ts:258-334`). It also drops an
  invention whose two parents became one (`improvise.ts:285`), and one whose looks, kind or
  name are not what its renamed parents make. `LifeArrives` says what is left: a life
  with none of these arrives with all of its inventions.
* A profile that has nothing but summaries of legacy lives is not migrated, while
  its archives are; a legacy life that is archived later counts as a full one;
  archived events are not migrated, so a chronicle names elements as they were
  called; a replay target chosen just before a deployment is not migrated either.
* Where a save from before profiles cannot be migrated the page says it is left
  intact, which holds until the next life's first turn overwrites it. The button *Retry
  saving* beside that message stores the empty profile (`main.ts:2411-2418`; its guard looks
  only at the other kind of error), and from then on no page takes the save over,
  which is what the comment at `main.ts:370` wants to prevent.
* `migrations.json` supports no older revision today, so any change of content makes
  the profiles of the one before read-only.

## Proofs

Everything is proved for any sets of addresses, lines, requests, tabs and attempts,
any limits, any number of lives and any content that satisfy the assumptions
(`ASSUME`) of the modules. What is assumed is what the program checks or its files
say: `env.ts` turns every configured number into a positive one, or for a budget
into one that may be zero; `tools/validate.py` and the content files give what
`Engine` assumes of recipes, acts, facts and endings, and `Voice` of the script. Three
assumptions are enforced by nothing. The alarm sweeps the lists of commentary and speech with the
narrator's window, which must not be the shorter one (`WindowAssumption` of
`Services`; `wrangler.toml` gives them the same). And what Karl wakes up among
must not become, under an alias, something to be found (`BaseAssumption` of
`Revisions`): the compendium of a life that had it from the start would not count it.
And the ladders of `narrator.json` must be written as they are (`LaddersAssumption` of
`Voice`): a step of the ladder of defiance is on that of one act, as the narrator remembers a
step by its number alone, and a line of a ladder or a hint is said for nothing else.

**`MeteringProofs`** has what the two budget modules share. `Covered(granted, stamps,
now, w)` says that a list has a stamp for everything let through in its window;
`AccountAt` says that a record of the day counts all that was charged on it, and that
nothing was charged to a date ahead. Each is shown to survive a step of the clock, a
slot or a charge taken, a sweep, and an eviction in the middle. The sums over
finite sets, which are defined by recursion, are proved to be monotone and additive
from their one-element step.

**`NarratorProofs`**: `TypeCorrect`; `BudgetsHold` (`WithinDailyBudgets`: no date has more
calls charged than the limits allow); `RecordExact`; `RatesHold`;
`CleanupIsScheduled`; `CallsShared` (`PaidOnce`); `CallsAnswered` (`NoOrphanedWaiter`);
`Refinement` (`Spec` implements `DailyBudget`). `WithinDailyBudgets` speaks of history (the calls
charged to each date) while the guards of `decide()` speak of the stored record, so
it is not inductive: `AccountAt` is what joins the two, for the world (whose record is
never deleted) and for an address (whose record is swept only once its date is two
days old, so that no charge can be made on that date again). `RateHonoured` is joined
to the stored stamps by `Covered` in the same way: a sweep may delete a list only when
none of its stamps counts. The refinement follows since a charge is made only when
the record of its day, which is what history counts, is below the limit.

**`ServicesProofs`**: `RatesHold`, `QuotaHolds` and `Refinement`, which is one `DailyBudget`
for each of the four services. The invariant has an account for every record, and
for every list the stamps let through of whichever service took them. For the
creation quota it says that the record covers each address's runs and, in the world's
stamps, the sum over all addresses: this is why the alarm may delete the whole record
when the world's stamps are old, though it looks at no address's.

**`SessionProofs`**: the safety properties of `session` and `session_lines`, among them
`Refinement` (the run implements `OnlineLife`), and three more: `PlayedOnly`, which the
refinement implies as well (no attempt is in the stored life twice),
`ConflictsHaveAState` (the 409 of an ended run, which carries no state, never meets a
tab that waits) and `RateIsCapped` (slots taken within a minute). The invariant
follows one object, *the life*: what the handler under the gate will write
back, or else what is stored. Every state that a tab, an answer, the log of
answers or a `basis` holds is a *stage* of it: a prefix that is over only if the
life was then. The log holds each turn with its own stage, turns are distinct, an
attempt whose proposal is awaited was found playable, and a tab never attempts on
a life it knows to be over. `RateIsCapped` counts stamps against the slots of
history. For `RetriesAreAnswered` and `LinesAreKept` the log and the lines must never
be trimmed: their entries are distinct and each belongs to a turn (or the
opening), so that their number is bounded by the pigeonhole principle, with
`LifeFitsAssumption`. For the refinement each step is shown to begin the life, to play a
turn that the life has not had, or to leave the life as it is or end it.

**`StageProofs`**: `QueueServed`, `GivenUpUnsaid`, `QueuedBeatsWait`. The pause belongs to the
beat on stage and begins only when that is done; no continuation is chained to a
generation that has not come; a commentary is asked for and queued once.

**`ProfileProofs`**: `TypeCorrect`, `ArchiveBacksProfile`, `ShelfKeeps` and `LivesSurvive`,
each for both builds. The invariant is about the queue of writes and about who is on
the way to begin or to leave a life. The page still owes a life (`Alive`) when it is in no
archive and was not begun beside another. Every waiting write about such a life is about
the one of the page, and once the disk or a write further ahead has such a life,
only that life waits to be saved (`Carries`); so no save can push it off the disk, and the write
that clears it is the one that puts it on the shelf. Whoever waits to begin a life or to
reload finds a page that owes none (`PageFine`): he waited for the archive of the life
that was there, and what came in its place was begun beside him. Each profile in
memory, on disk or in the queue names as archived only lives on the shelf or, for an archive
that waits, its own (`Backed`).

**`EngineProofs`**: all that the run `life` checks, for every content: `RegistryStaysClosed`,
`NoAgeIsSkipped`, `NoneDiesArmed`, `BranchesFollowFacts`, `FatesAreEarned` and
`Refinement` (the engine implements `Lifespan`). A turn is followed through its three
parts: what the attempt makes, how the challenge clock goes, what `completeTurn()`
records. What had to be added to make the invariant inductive is the reason why
the code is right:
the age is at most one more than the age-ups among the discoveries, so that an act
exists for it (`Ages`, with `ActsAssumption`); a life
without summers is over; a failed challenge ends the life, so that nothing comes
into its hands afterwards (`EmptyHanded`); what an invention was credited with, a need or
a threat, is still recorded as solved (`Earned`), which ties the counter that unlocks
fates to real achievements; and a triggered branch is only lost by facts that
never go away. For the reload, `Accepted` is a union of generations, an invention's
parents before itself; that they close at some generation, and that a kept child
has kept parents, is proved by taking the smallest generation that breaks it.

The same module proves what the run `voice` checks, for both builds: `LadderFromBelow` (`DefianceFromBelow`) and
`HintsInOrder` (`HintsClimb`). Neither is inductive, as what was heard is history. `Score`
joins the two: the hints below the `hintLevel` of a problem were heard, and any hint at
most once more for each reload that took one back (which `Kept` rules out in a build with
inventions); the lines heard of the ladders are those of the steps in `tiers`, each was
heard once, as a step is only said in a turn that is saved, and with a step all the
lower ones of its ladder are in `tiers` and none is above `defiance`. That each turn keeps
the score is shown for each rule of `react()` and `followUp()` by what it may do to the
narrator: nothing that counts (`Ordinary`, with a line that is on no ladder), one hint
given (`Hinted`) or one step climbed (`Climbed`). Whichever rule speaks, what is heard is in step
with what is remembered.

**`RevisionsProofs`**: `NothingIsLeftBehind` (`RefsCurrent`), `SummariesAgree`
(`ArchivesAgree`), `SavesAreSeen` (`LegacyNotShadowed`) and `ReadOnlyKeeps`
(`ReadOnlyIsUntouched`), for any content, any aliases and any order of deployments.
The first two speak of a page that is open; what makes them inductive is that the
disk, between pages, is of *some* revision (`OnDisk`), every game, archived life and
entry on it of the same one. A load moves it to the page's (`ProfileMoves`), from
what each migration does: the registry of inventions stays closed under parents when
its names are exchanged one after the other (`AliasesFine`), an archived life has
reached nothing under its new names that it had not reached under the old ones
(`ReachedMoves`), and merging unlocks loses no entry (`MergedKeeps`). Games from
before plans are taken over as they are; `Together` is why none of what they
name gets into a profile that has no such life: the life on disk, the life in memory, the
engine and the compatibility save are of that game together, or not at all. For the other two the profile in
memory and on disk may differ by a lost turn, but never in whether there is a life or
which were archived; a migration keeps a life if there is one, and each summary; and
a read-only page never leaves its title. What the button *Retry saving* stores is
excepted by the history variable `retried`.

`ChroniclesAreInOrder` (`ChronicleInOrder`) has the constant `Generated` as its hypothesis: in
a build without inventions it is false, as the run `chronicle` shows, and the proof says where.
A journal tells of *n* summers (`Tells`) when its events are numbered as they came and each
entry has its attempt before it, in a summer up to *n* and after those of the entries before.
`Telling` says which summers those are: the journal in memory tells of the game in
memory, that on disk of the game beside it and of whatever else a page could go on from,
the compatibility save (`DiskTells`) and the game of the open page, whose last turns the disk may
not have. With inventions every turn writes that save, even one that gave nothing, so
that it is never behind the journal on disk and a resumed life goes on in a summer that its
journal has not told of.

Only model-checked:

* `GateIsFreed`, `EveryBeatEnds` and `EndedLifeIsArchived`, which are liveness;
* `LifeArrives`, whose proof would follow each single invention through the
  registry's migration and its reading back.

The provers cannot instantiate the library's induction schemes. Where a
recursion runs over a finite set, a registry, a gallery or the generations of
inventions the proofs take the smallest counterexample instead. What chains of aliases
lead to (`Resolve`) enters the proofs only as a name of the content or none. The
inductive invariants of `Engine` and `Revisions` were checked by TLC on the instances of
`life` and `revisions` as well.

## What is left out

Texts, rendering and the content itself with its tools; the edge's token checks and
the rotation of a run's capability; the audio bytes of a line. `RunSession` has one
life: a new life is another run, and the late answer of an old life adopted by a
new one (`main.ts:1722` compares no run id) needs two. `Voice` reads the needs of a
"useless" line from a pool, and merges pools that are chosen alike. Late copy and
live lines are fetched only where `VITE_NARRATOR_URL` and `VITE_IMPROVISE_URL` are set,
which the published pages leave empty. Of a tab's several loads of one run
`RunSession` hears one answer. The parts without a module are listed in
`PROJECT.json` with the reason.

## Plan

1. The desk of live lines, with the edge in front of the pipelines.
2. A second life in `RunSession`; two tabs of one profile in `ProfileArchive`.
3. The remaining derivations (seed, rarity, viability) against references.
