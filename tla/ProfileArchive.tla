--------------------------- MODULE ProfileArchive ---------------------------
(***************************************************************************)
(* The lives of a player, as one page of the browser keeps them (the       *)
(* profile functions of ui/main.ts, core/life.ts and persistence/): the    *)
(* profile and the archive of IndexedDB behind a serial write queue, the   *)
(* compatibility save and the run credentials of local storage, and what   *)
(* the page has in memory.  A life is a profile's name for a game; online, *)
(* the game itself is a run on the server.                                 *)
(*                                                                         *)
(* The stores have been initialised; legacy and content migrations are     *)
(* left out.                                                               *)
(***************************************************************************)
EXTENDS Integers, Sequences, FiniteSets

CONSTANTS
  Builds,      \* the values of onlineRequired: one for each build of the page
  MaxGames,    \* for each build, bound on games begun
  MaxLives,    \* for each build, bound on lives begun
  MaxTurns,    \* for each build, turns of a game
  MaxQueue,    \* bound on writes waiting
  MaxUnderway  \* bound on what is on its way to begin a life or to leave one

ASSUME BoundsAssumption ==
  /\ Builds \subseteq BOOLEAN
  /\ {MaxGames, MaxLives, MaxTurns} \subseteq [Builds -> Nat]
  /\ {MaxQueue, MaxUnderway} \subseteq Nat

VARIABLES
  online,     \* the build: onlineRequired
  \* IndexedDB.
  stored,     \* the profile
  shelf,      \* archived lives
  \* Local storage.
  saved,      \* SAVE_KEY
  creds,      \* the run of RUN_CREDENTIALS_KEY, 0 for none
  \* The server.
  server,     \* the state of each run
  \* The page.
  profile,    \* the profile in memory
  engine,     \* the game in memory
  screen,     \* what the player sees
  queue,      \* profileWrites
  telling,    \* how many endings wait for their last commentary to be presented
  clearing,   \* who waits past its archive, by what it is to be followed by
  starting,   \* createRun() calls under way
  \* Names given out.
  games, lives,
  \* History: the lives that began while another was being begun or left.
  beside

disk == <<stored, shelf, saved, creds>>
page == <<profile, engine, screen, queue, telling, clearing, starting>>
vars == <<online, disk, server, page, games, lives, beside>>

NewGame(id) == [id |-> id, turns |-> 0, ended |-> FALSE]
NoGame == NewGame(0)

NoLife == [life |-> 0, game |-> NoGame]

\* What clearSave() is followed by: a reload, or the start of a new life.
Followers == {"reload", "new"}

\* The archive of an ending is followed by the removal of the saves.
Nobody == [f \in Followers \cup {"forget"} |-> 0]

Init ==
  /\ online \in Builds
  /\ stored = [active |-> NoLife, archives |-> {}]
  /\ shelf = {}
  /\ saved = NoGame
  /\ creds = 0
  /\ server = [g \in 1 .. MaxGames[online] |-> NoGame]
  /\ profile = stored
  /\ engine = NoGame
  /\ screen = "title"
  /\ queue = <<>>
  /\ telling = 0
  /\ clearing = Nobody
  /\ starting = 0
  /\ games = 0
  /\ lives = 0
  /\ beside = {}

OnShelf(l) == \E r \in shelf : r.life = l

-----------------------------------------------------------------------------
(* The writes of profileWrites. *)

SaveWrite(p) == IF p.active.life = 0 THEN <<>> ELSE <<[op |-> "save", profile |-> p]>>

\* persistActiveLife() with the game g in the engine.
Persisted(p, g) == IF p.active.life = 0 THEN p ELSE [p EXCEPT !.active.game = g]

\* archiveLife() and applyArchivedLife(), and who waits for the write.
FinalWrite(p, g, outcome, follower) ==
  [op |-> "finalize",
   profile |-> [active |-> NoLife, archives |-> p.archives \cup {p.active.life}],
   record |-> [life |-> p.active.life, outcome |-> outcome, game |-> g],
   follower |-> follower]

Enqueue(writes) ==
  /\ Len(queue) + Len(writes) <= MaxQueue
  /\ queue' = queue \o writes

SaveDone ==
  /\ queue # <<>>
  /\ Head(queue).op = "save"
  /\ stored' = Head(queue).profile
  /\ queue' = Tail(queue)
  /\ UNCHANGED <<shelf, saved, creds, server, profile, engine, screen, telling,
                 clearing, starting, games, lives, beside>>

\* Mutant: put() in place of add().
PutOnShelf(r) == shelf' = {q \in shelf : q.life # r.life} \cup {r}

\* add() of the archive store rejects a life it has, and aborts the transaction.
AddToShelf(r) ==
  /\ ~ OnShelf(r.life)
  /\ shelf' = shelf \cup {r}

\* finalizeLife() committed: one transaction on both stores.  Then the page
\* forgets the life, and whoever waits goes on.
FinalizeDone ==
  /\ queue # <<>>
  /\ Head(queue).op = "finalize"
  /\ AddToShelf(Head(queue).record)
  /\ stored' = Head(queue).profile
  /\ profile' = Head(queue).profile
  /\ queue' = Tail(queue)
  /\ clearing' = [clearing EXCEPT ![Head(queue).follower] = @ + 1]
  /\ UNCHANGED <<saved, creds, server, engine, screen, telling, starting, games,
                 lives, beside>>

\* Mutant: clearSave() does not look at the result of the archive.
GoesOnAfterFailure(w) ==
  /\ clearing' = IF w.op = "finalize" THEN [clearing EXCEPT ![w.follower] = @ + 1] ELSE clearing
  /\ UNCHANGED profile

\* Mutant: the next profile is taken over before the write is known to be done.
ForgetsAfterFailure(w) ==
  /\ profile' = IF w.op = "finalize" THEN w.profile ELSE profile
  /\ UNCHANGED clearing

\* if (!archived) return false
StopsAfterFailure(w) == UNCHANGED <<profile, clearing>>

\* The transaction aborts: out of quota, or a life that is archived already.
WriteFails ==
  /\ queue # <<>>
  /\ queue' = Tail(queue)
  /\ StopsAfterFailure(Head(queue))
  /\ UNCHANGED <<disk, server, engine, screen, telling, starting, games, lives,
                 beside>>

-----------------------------------------------------------------------------
(* Beginning and continuing: beginProfileLife() and startGame(). *)

\* What is on its way to begin a life or to leave one: runs asked for, archives
\* waiting to be written, and those who waited for one and have not gone on.
Underway ==
  starting + clearing["new"] + clearing["reload"]
    + Cardinality({i \in DOMAIN queue : queue[i].op = "finalize"})

\* A life in the profile for the game g, with so many others under way.  One
\* that has ended already is not saved again as it is shown, and the profile keeps
\* the game as it began.
Begin(g, others) ==
  LET kept == IF g.ended THEN NewGame(g.id) ELSE g
      p == [profile EXCEPT !.active = [life |-> lives + 1, game |-> kept]]
  IN
  /\ lives < MaxLives[online]
  /\ lives' = lives + 1
  /\ profile' = p
  /\ engine' = g
  /\ Enqueue(SaveWrite(p))
  /\ beside' = IF others > 0 THEN beside \cup {lives + 1} ELSE beside

Show(g) ==
  /\ screen' = IF g.ended THEN "ending" ELSE "playing"
  /\ saved' = IF g.ended THEN saved ELSE g

\* The life of the profile goes on as the game g.
Resume(g) ==
  /\ engine' = g
  /\ profile' = IF g.ended THEN profile ELSE Persisted(profile, g)
  /\ IF g.ended THEN UNCHANGED queue ELSE Enqueue(SaveWrite(Persisted(profile, g)))
  /\ UNCHANGED <<lives, beside>>

HasSave == (online /\ creds # 0) \/ profile.active.life # 0 \/ saved # NoGame

\* tryLoad(): the compatibility save comes first.
Continue ==
  LET g == IF saved # NoGame THEN saved ELSE profile.active.game IN
  /\ ~ online
  /\ screen = "title"
  /\ HasSave
  /\ Resume(g)
  /\ Show(g)
  /\ UNCHANGED <<stored, shelf, creds, server, telling, clearing, starting, games>>

\* loadRun(): the server has the last word on the game.
ContinueOnline ==
  LET g == server[creds] IN
  /\ online
  /\ screen = "title"
  /\ creds # 0
  /\ g # NoGame
  /\ IF profile.active.life = 0 THEN Begin(g, Underway) ELSE Resume(g)
  /\ Show(g)
  /\ UNCHANGED <<stored, shelf, creds, server, telling, clearing, starting, games>>

\* loadRun() failed, or the run is gone.
ContinueFails ==
  /\ online
  /\ screen = "title"
  /\ creds # 0
  /\ screen' = "outage"
  /\ UNCHANGED <<disk, server, profile, engine, queue, telling, clearing, starting,
                 games, lives, beside>>

\* Continue without credentials: a new run is asked for.
ContinueAnew ==
  /\ online
  /\ screen = "title"
  /\ creds = 0
  /\ HasSave
  /\ Underway < MaxUnderway
  /\ starting' = starting + 1
  /\ UNCHANGED <<disk, server, profile, engine, screen, queue, telling, clearing,
                 games, lives, beside>>

CreateRun ==
  /\ starting > 0
  /\ screen # "outage"
  /\ games < MaxGames[online]
  /\ games' = games + 1
  /\ starting' = starting - 1
  /\ server' = [server EXCEPT ![games + 1] = NewGame(games + 1)]
  /\ creds' = games + 1
  /\ Begin(NewGame(games + 1), Underway - 1)
  /\ Show(NewGame(games + 1))
  /\ UNCHANGED <<stored, shelf, telling, clearing>>

\* Play is blocked when the answer comes: the run is kept, no life begins.
CreateRunBlocked ==
  /\ starting > 0
  /\ screen = "outage"
  /\ games < MaxGames[online]
  /\ games' = games + 1
  /\ starting' = starting - 1
  /\ server' = [server EXCEPT ![games + 1] = NewGame(games + 1)]
  /\ creds' = games + 1
  /\ engine' = NewGame(games + 1)
  /\ UNCHANGED <<stored, shelf, saved, profile, screen, queue, telling, clearing,
                 lives, beside>>

CreateFails ==
  /\ starting > 0
  /\ starting' = starting - 1
  /\ screen' = "outage"
  /\ UNCHANGED <<disk, server, profile, engine, queue, telling, clearing, games,
                 lives, beside>>

\* establishSession()
Reconnect ==
  /\ screen = "outage"
  /\ screen' = "title"
  /\ UNCHANGED <<disk, server, profile, engine, queue, telling, clearing, starting,
                 games, lives, beside>>

-----------------------------------------------------------------------------
(* Playing: performCombine() and the beats of the narrator. *)

\* The game after one more turn; its last summer ends it.
After(g, ended) == [g EXCEPT !.turns = @ + 1, !.ended = ended \/ g.turns + 1 = MaxTurns[online]]

\* A turn offline.  One that finds nothing is not always in the compatibility
\* save.  No commentary delays the archive of an ending.
Play(kept, ended) ==
  LET g == After(engine, ended)
      p == Persisted(profile, g)
  IN
  /\ ~ online
  /\ screen = "playing"
  /\ engine' = g
  /\ profile' = p
  /\ screen' = IF g.ended THEN "ending" ELSE "playing"
  /\ IF g.ended /\ p.active.life # 0
       THEN Enqueue(SaveWrite(p) \o <<FinalWrite(p, g, "ending", "forget")>>)
       ELSE Enqueue(SaveWrite(p))
  /\ saved' = CASE g.ended /\ p.active.life = 0 -> NoGame
                [] g.ended \/ kept -> g
                [] OTHER -> saved
  /\ UNCHANGED <<stored, shelf, creds, server, telling, clearing, starting, games,
                 lives, beside>>

\* A turn online, whose ending waits for its commentary.
PlayOnline(ended) ==
  LET g == After(engine, ended)
      p == Persisted(profile, g)
  IN
  /\ online
  /\ screen = "playing"
  /\ creds # 0
  /\ server[creds] = engine
  /\ server' = [server EXCEPT ![creds] = g]
  /\ engine' = g
  /\ profile' = p
  /\ saved' = g
  /\ screen' = IF g.ended THEN "ending" ELSE "playing"
  /\ telling' = telling + (IF g.ended THEN 1 ELSE 0)
  /\ Enqueue(SaveWrite(p))
  /\ UNCHANGED <<stored, shelf, creds, clearing, starting, games, lives, beside>>

\* The answer is lost: the server has played the turn, or it has not.
PlayUnheard(ended, played) ==
  /\ online
  /\ screen = "playing"
  /\ played => creds # 0 /\ server[creds] = engine
  /\ server' = IF played THEN [server EXCEPT ![creds] = After(engine, ended)] ELSE server
  /\ screen' = "outage"
  /\ UNCHANGED <<disk, profile, engine, queue, telling, clearing, starting, games,
                 lives, beside>>

\* A beat is presented, or late copy arrives: persistActiveLife() once more.
Beat ==
  /\ screen \in {"playing", "ending"}
  /\ profile.active.life # 0
  /\ profile' = Persisted(profile, engine)
  /\ Enqueue(SaveWrite(profile'))
  /\ UNCHANGED <<disk, server, engine, screen, telling, clearing, starting, games,
                 lives, beside>>

\* The commentary of the ending was presented, failed or timed out.
Told ==
  /\ telling > 0
  /\ telling' = telling - 1
  /\ IF profile.active.life = 0
       THEN /\ saved' = NoGame
            /\ UNCHANGED queue
       ELSE /\ Enqueue(<<FinalWrite(profile, engine, "ending", "forget")>>)
            /\ UNCHANGED saved
  /\ UNCHANGED <<stored, shelf, creds, server, profile, engine, screen, clearing,
                 starting, games, lives, beside>>

\* The archive of an ending is done: the compatibility saves go.
Forget ==
  /\ clearing["forget"] > 0
  /\ clearing' = [clearing EXCEPT !["forget"] = @ - 1]
  /\ saved' = NoGame
  /\ UNCHANGED <<stored, shelf, creds, server, profile, engine, screen, queue,
                 telling, starting, games, lives, beside>>

-----------------------------------------------------------------------------
(* Leaving: clearSave() and reloads. *)

\* A new life, offline.
StartNew(others) ==
  LET g == NewGame(games + 1) IN
  /\ games < MaxGames[online]
  /\ games' = games + 1
  /\ Begin(g, others)
  /\ Show(g)
  /\ UNCHANGED <<stored, shelf, creds, server, telling, starting>>

\* "Live again", "Start over" and the title's new life, with a life to archive: the
\* buttons stay enabled, and each of them waits for an archive of its own.
Clear(follower) ==
  /\ screen \in (IF follower = "new" THEN {"title"} ELSE {"playing", "ending"})
  /\ Underway < MaxUnderway
  /\ profile.active.life # 0
  /\ Enqueue(<<FinalWrite(profile, engine, "abandoned", follower)>>)
  /\ UNCHANGED <<disk, server, profile, engine, screen, telling, clearing, starting,
                 games, lives, beside>>

\* The same without one: offline a new life starts at once.
ClearNothing(follower) ==
  /\ screen \in (IF follower = "new" THEN {"title"} ELSE {"playing", "ending"})
  /\ Underway < MaxUnderway
  /\ profile.active.life = 0
  /\ IF follower = "new" /\ ~ online
       THEN /\ StartNew(Underway)
            /\ UNCHANGED clearing
       ELSE /\ clearing' = [clearing EXCEPT ![follower] = @ + 1]
            /\ UNCHANGED <<disk, server, profile, engine, screen, queue, telling, starting,
                 games, lives, beside>>

\* A page just loaded: initializeProfile().
FreshPage ==
  /\ profile' = stored
  /\ engine' = stored.active.game
  /\ screen' = "title"
  /\ queue' = <<>>
  /\ telling' = 0
  /\ clearing' = Nobody
  /\ starting' = 0

\* deleteRun() is answered, or fails; the credentials and the saves go.
DropRun(deleted) ==
  /\ creds' = 0
  /\ server' = IF deleted /\ creds # 0 THEN [server EXCEPT ![creds] = NoGame] ELSE server

ClearedReload(deleted) ==
  /\ clearing["reload"] > 0
  /\ DropRun(deleted)
  /\ saved' = NoGame
  /\ FreshPage
  /\ UNCHANGED <<stored, shelf, games, lives, beside>>

\* Each goes on by itself.
ClearedNew ==
  /\ ~ online
  /\ clearing["new"] > 0
  /\ clearing' = [clearing EXCEPT !["new"] = @ - 1]
  /\ StartNew(Underway - 1)

ClearedNewOnline(deleted) ==
  /\ online
  /\ clearing["new"] > 0
  /\ clearing' = [clearing EXCEPT !["new"] = @ - 1]
  /\ DropRun(deleted)
  /\ saved' = NoGame
  /\ starting' = IF screen = "outage" THEN starting ELSE starting + 1
  /\ UNCHANGED <<stored, shelf, profile, engine, screen, queue, telling, games,
                 lives, beside>>

\* The player reloads, or the page is closed and opened again.
Reload ==
  /\ FreshPage
  /\ UNCHANGED <<disk, server, games, lives, beside>>

\* A replay target is chosen in the book.
ChooseReplay ==
  /\ screen = "playing"
  /\ saved' = NoGame
  /\ FreshPage
  /\ UNCHANGED <<stored, shelf, creds, server, games, lives, beside>>

Step ==
  \/ SaveDone \/ FinalizeDone \/ WriteFails
  \/ Continue \/ ContinueOnline \/ ContinueFails \/ ContinueAnew
  \/ CreateRun \/ CreateRunBlocked \/ CreateFails \/ Reconnect
  \/ \E kept, ended \in BOOLEAN : Play(kept, ended)
  \/ \E ended \in BOOLEAN : PlayOnline(ended)
  \/ \E ended, played \in BOOLEAN : PlayUnheard(ended, played)
  \/ Beat \/ Told \/ Forget
  \/ \E follower \in Followers : Clear(follower) \/ ClearNothing(follower)
  \/ ClearedNew
  \/ \E deleted \in BOOLEAN : ClearedReload(deleted) \/ ClearedNewOnline(deleted)
  \/ Reload \/ ChooseReplay

\* The build never changes.
Next == Step /\ UNCHANGED online

Spec == Init /\ [][Next]_vars

-----------------------------------------------------------------------------
(* What the profile promises. *)

\* An archived life is never changed nor removed, whatever is queued behind its
\* archive and however often it is archived (finalizeLife(), add semantics).
ShelfIsImmutable ==
  [][/\ shelf \subseteq shelf'
     /\ \A r, q \in shelf' : r.life = q.life => r = q]_vars

\* The profile on disk names no archived life that the archive does not have: the
\* next profile of a failed archive never reaches the disk (archiveCurrentLife(),
\* finalizeLife()).
SummariesAreBacked == \A l \in stored.archives : OnShelf(l)

\* A life that reached the disk leaves it only for the archive: no new life, no
\* failed write and no reload in between loses it (clearSave(), beginProfileLife()).
\* The exception is a life begun while another was being begun or left: the buttons
\* stay enabled, and of two new lives the second overwrites the first unarchived.
StoredLifeSurvives ==
  [][LET l == stored.active.life IN
       l # 0 /\ stored'.active.life # l
         => l \in beside \/ \E r \in shelf' : r.life = l]_vars

\* What PRODUCT.md says of an ending: the completed life is archived once.
CompletedArchivedOnce ==
  \A r, q \in shelf : r.game.ended /\ q.game.id = r.game.id => q = r
=============================================================================
