---------------------------- MODULE ProfileProofs ----------------------------
(***************************************************************************)
(* Theorems about the lives of a player, for every number of games, lives, *)
(* turns and writes waiting, and for both builds of the page.              *)
(*                                                                         *)
(* The argument is about the queue of writes and about who is on the way   *)
(* to begin or to leave a life.  Whatever is written, fails or is queued   *)
(* behind an archive, every waiting write that is about a life the page    *)
(* still owes is about the one it is living, once the disk has that life   *)
(* nothing but it is waiting to be saved, and whoever is to begin another  *)
(* finds a page that owes none.                                            *)
(***************************************************************************)
EXTENDS ProfileArchive, FiniteSetTheorems, TLAPS

-----------------------------------------------------------------------------
(* The inductive invariant. *)

Game == [id : Nat, turns : Nat, ended : BOOLEAN]

Profile == [active : [life : Nat, game : Game], archives : SUBSET Nat]

Record == [life : Nat, outcome : {"ending", "abandoned"}, game : Game]

SaveWrites == [op : {"save"}, profile : Profile]

FinalWrites ==
  [op : {"finalize"}, profile : Profile, record : Record, follower : Followers \cup {"forget"}]

Writes == SaveWrites \cup FinalWrites

\* Every variable holds a value of its kind.
TypeOK ==
  /\ online \in Builds
  /\ stored \in Profile
  /\ shelf \subseteq Record
  /\ saved \in Game
  /\ creds \in 0 .. MaxGames[online]
  /\ server \in [1 .. MaxGames[online] -> Game]
  /\ profile \in Profile
  /\ engine \in Game
  /\ screen \in {"title", "playing", "ending", "outage"}
  /\ queue \in Seq(Writes)
  /\ telling \in Nat
  /\ clearing \in [Followers \cup {"forget"} -> Nat]
  /\ starting \in Nat
  /\ games \in 0 .. MaxGames[online]
  /\ lives \in Nat
  /\ beside \subseteq Nat

\* The life a waiting write is about.
LifeOf(w) == IF w.op = "save" THEN w.profile.active.life ELSE w.record.life

\* A life the page owes: it was begun with nothing else on its way, and it is not
\* archived.
Alive(l) == l # 0 /\ l \notin beside /\ ~ OnShelf(l)

\* The shelf has one record of a life.
OneRecordEach == \A r, q \in shelf : r.life = q.life => r = q

\* Every life a profile names as archived is on the shelf, or goes there with it.
Backed(p, together) == \A l \in p.archives : OnShelf(l) \/ l \in together

\* A waiting write is about a life, names no archived life that the shelf will
\* not have with it, and leaves the profile without a life if it archives one.
WriteFine(w) ==
  /\ LifeOf(w) # 0
  /\ w.op = "finalize" => w.profile.active.life = 0
  /\ Backed(w.profile, IF w.op = "save" THEN {} ELSE {w.record.life})

\* Of a queue and the life of the page: a waiting write about a life still owed is
\* about that life; once the disk has one, or a write ahead, nothing but it is
\* waiting to be saved; and while the page owes its life, no other is archived.
Carries(q, l) ==
  /\ \A n \in DOMAIN q : Alive(LifeOf(q[n])) => LifeOf(q[n]) = l
  /\ \A n \in DOMAIN q : q[n].op = "save" =>
       /\ Alive(stored.active.life) => LifeOf(q[n]) = l
       /\ \A m \in DOMAIN q :
            m < n /\ q[m].op = "save" /\ Alive(LifeOf(q[m])) => LifeOf(q[n]) = l
  /\ \A n \in DOMAIN q : q[n].op = "finalize" /\ Alive(l) => LifeOf(q[n]) = l

QueueFine(q, l) ==
  /\ \A n \in DOMAIN q : WriteFine(q[n])
  /\ Carries(q, l)

\* Someone is past an archive, or waits for a run.
Leaving == starting > 0 \/ clearing["new"] > 0 \/ clearing["reload"] > 0

\* Whoever is to begin a life finds that the page owes none, as does a page online
\* without a run; and the life on disk, if it is owed, is the page's.
PageFine ==
  /\ Leaving => ~ Alive(profile.active.life)
  /\ online /\ creds = 0 => ~ Alive(profile.active.life)
  /\ Alive(stored.active.life) => stored.active.life = profile.active.life

Inv ==
  /\ TypeOK
  /\ OneRecordEach
  /\ Backed(stored, {})
  /\ Backed(profile, {})
  /\ QueueFine(queue, profile.active.life)
  /\ PageFine

-----------------------------------------------------------------------------
(* The types of what is computed. *)

LEMMA Bounds ==
  ASSUME online \in Builds
  PROVE  MaxGames[online] \in Nat /\ MaxLives[online] \in Nat /\ MaxTurns[online] \in Nat
  BY BoundsAssumption

LEMMA GameTypes ==
  /\ \A n \in Nat : NewGame(n) \in Game /\ ~ NewGame(n).ended
  /\ NoGame \in Game
  /\ \A g \in Game, ended \in BOOLEAN : After(g, ended) \in Game
<1>1. \A n \in Nat : NewGame(n) \in Game /\ ~ NewGame(n).ended
  BY DEF NewGame, Game
<1>2. NoGame \in Game
  BY <1>1 DEF NoGame
<1>3. ASSUME NEW g \in Game, NEW ended \in BOOLEAN
      PROVE  After(g, ended) \in Game
  <2>1. (ended \/ g.turns + 1 = MaxTurns[online]) \in BOOLEAN
    OBVIOUS
  <2>2. g.turns + 1 \in Nat
    BY DEF Game
  <2>3. \A n, over : n \in Nat /\ over \in BOOLEAN
                       => [g EXCEPT !.turns = n, !.ended = over] \in Game
    BY DEF Game
  <2>4. After(g, ended) = [g EXCEPT !.turns = g.turns + 1,
                                    !.ended = (ended \/ g.turns + 1 = MaxTurns[online])]
    BY Zenon DEF After
  <2> DEFINE over == ended \/ g.turns + 1 = MaxTurns[online]
             turns == g.turns + 1
  <2>5. over \in BOOLEAN /\ turns \in Nat
    BY <2>1, <2>2
  <2>6. After(g, ended) = [g EXCEPT !.turns = turns, !.ended = over]
    BY <2>4
  <2>7. [g EXCEPT !.turns = turns, !.ended = over] \in Game
    <3> HIDE DEF over, turns
    <3> QED
      BY <2>5 DEF Game
  <2> QED
    BY <2>6, <2>7, Zenon
<1> QED
  BY <1>1, <1>2, <1>3

LEMMA PersistedType ==
  ASSUME NEW p \in Profile, NEW g \in Game
  PROVE  /\ Persisted(p, g) \in Profile
         /\ Persisted(p, g).active.life = p.active.life
         /\ Persisted(p, g).archives = p.archives
  BY DEF Persisted, Profile

\* What waits is one write of the profile, or none for a page without a life.
LEMMA SaveType ==
  ASSUME NEW p \in Profile
  PROVE  /\ SaveWrite(p) \in Seq(Writes)
         /\ [op |-> "save", profile |-> p] \in Writes
         /\ p.active.life # 0 => SaveWrite(p) = <<[op |-> "save", profile |-> p]>>
         /\ p.active.life = 0 => SaveWrite(p) = <<>>
<1>1. [op |-> "save", profile |-> p] \in Writes
  BY DEF Writes, SaveWrites
<1> QED
  BY <1>1 DEF SaveWrite

LEMMA FinalType ==
  ASSUME NEW p \in Profile, NEW g \in Game, NEW outcome \in {"ending", "abandoned"},
         NEW follower \in Followers \cup {"forget"}
  PROVE  /\ FinalWrite(p, g, outcome, follower) \in Writes
         /\ <<FinalWrite(p, g, outcome, follower)>> \in Seq(Writes)
<1>1. NoLife \in [life : Nat, game : Game]
  BY GameTypes DEF NoLife
<1>2. p.archives \cup {p.active.life} \in SUBSET Nat
  BY DEF Profile
<1>3. [active |-> NoLife, archives |-> p.archives \cup {p.active.life}] \in Profile
  BY <1>1, <1>2 DEF Profile
<1>4. [life |-> p.active.life, outcome |-> outcome, game |-> g] \in Record
  BY DEF Profile, Record
<1>5. FinalWrite(p, g, outcome, follower) \in Writes
  BY <1>3, <1>4 DEF FinalWrite, Writes, FinalWrites
<1> QED
  BY <1>5

LEMMA EnqueueType ==
  ASSUME queue \in Seq(Writes), NEW writes \in Seq(Writes), Enqueue(writes)
  PROVE  queue' \in Seq(Writes)
  BY DEF Enqueue

\* What is written first is of one kind or the other.
LEMMA HeadType ==
  ASSUME queue \in Seq(Writes), queue # <<>>
  PROVE  /\ Head(queue) \in Writes
         /\ Head(queue).profile \in Profile
         /\ Head(queue).op = "finalize" => Head(queue) \in FinalWrites
         /\ Head(queue).op = "save" => Head(queue) \in SaveWrites
         /\ Tail(queue) \in Seq(Writes)
<1>1. Head(queue) \in Writes /\ Tail(queue) \in Seq(Writes)
  OBVIOUS
<1> QED
  BY <1>1 DEF Writes, SaveWrites, FinalWrites

-----------------------------------------------------------------------------
(* Every step keeps every variable in its type. *)

LEMMA InitInv == Init => Inv
<1> SUFFICES ASSUME Init PROVE Inv
  OBVIOUS
<1> USE DEF Init
<1>1. MaxGames[online] \in Nat
  BY Bounds
<1>2. NoLife \in [life : Nat, game : Game] /\ NoLife.life = 0 /\ NoGame \in Game
  BY GameTypes DEF NoLife
<1>3. stored \in Profile
  BY <1>2 DEF Profile
<1>4. TypeOK
  <2>1. creds \in 0 .. MaxGames[online] /\ games \in 0 .. MaxGames[online]
    BY <1>1
  <2>2. server \in [1 .. MaxGames[online] -> Game]
    BY <1>2
  <2>3. queue \in Seq(Writes)
    OBVIOUS
  <2> QED
    BY <1>2, <1>3, <2>1, <2>2, <2>3 DEF TypeOK, Nobody
<1>5. OneRecordEach
  BY DEF OneRecordEach
<1>6. Backed(stored, {}) /\ Backed(profile, {})
  BY DEF Backed
<1>7. QueueFine(queue, profile.active.life)
  BY DEF QueueFine, Carries
<1>8. PageFine
  BY <1>2 DEF PageFine, Alive
<1> QED
  BY <1>4, <1>5, <1>6, <1>7, <1>8 DEF Inv

LEMMA FreshType ==
  ASSUME TypeOK, FreshPage
  PROVE  /\ profile' \in Profile /\ engine' \in Game
         /\ screen' \in {"title", "playing", "ending", "outage"}
         /\ queue' \in Seq(Writes) /\ telling' \in Nat
         /\ clearing' \in [Followers \cup {"forget"} -> Nat] /\ starting' \in Nat
<1>1. stored.active.game \in Game
  BY DEF TypeOK, Profile
<1>2. <<>> \in Seq(Writes)
  OBVIOUS
<1>3. 0 \in Nat /\ Nobody \in [Followers \cup {"forget"} -> Nat]
  BY DEF Nobody
<1> QED
  BY <1>1, <1>2, <1>3, Zenon DEF TypeOK, FreshPage

LEMMA ShowType ==
  ASSUME TypeOK, NEW g \in Game, Show(g)
  PROVE  /\ screen' \in {"title", "playing", "ending", "outage"}
         /\ saved' \in Game
  BY DEF TypeOK, Show

\* A life that begins is the page's, with no archived life more.
LEMMA BeginType ==
  ASSUME TypeOK, NEW g \in Game, NEW others, Begin(g, others)
  PROVE  /\ profile' \in Profile
         /\ profile'.active.life = lives + 1
         /\ profile'.archives = profile.archives
         /\ queue' = queue \o <<[op |-> "save", profile |-> profile']>>
         /\ queue' \in Seq(Writes)
         /\ engine' \in Game
         /\ lives' \in Nat
         /\ beside' = (IF others > 0 THEN beside \cup {lives + 1} ELSE beside)
         /\ beside' \subseteq Nat
<1> DEFINE kept == IF g.ended THEN NewGame(g.id) ELSE g
           p == [profile EXCEPT !.active = [life |-> lives + 1, game |-> kept]]
<1>1. profile \in Profile /\ lives \in Nat /\ queue \in Seq(Writes)
  BY DEF TypeOK
<1>2. kept \in Game
  BY GameTypes DEF Game
<1>3. /\ p \in Profile
      /\ p.active.life = lives + 1 /\ p.active.life # 0
      /\ p.archives = profile.archives
  <2> HIDE DEF kept
  <2> QED
    BY <1>1, <1>2 DEF Profile
<1>4. /\ profile' = p /\ lives' = lives + 1 /\ engine' = g
      /\ Enqueue(SaveWrite(p))
      /\ beside' = (IF others > 0 THEN beside \cup {lives + 1} ELSE beside)
  BY DEF Begin
<1> HIDE DEF p
<1>5. SaveWrite(p) = <<[op |-> "save", profile |-> p]>> /\ SaveWrite(p) \in Seq(Writes)
  BY <1>3, SaveType
<1>6. queue' = queue \o SaveWrite(p) /\ queue' \in Seq(Writes)
  BY <1>1, <1>4, <1>5, EnqueueType DEF Enqueue
<1>7. beside' \subseteq Nat
  BY <1>1, <1>4 DEF TypeOK
<1> QED
  BY <1>1, <1>3, <1>4, <1>5, <1>6, <1>7

LEMMA ResumeType ==
  ASSUME TypeOK, NEW g \in Game, Resume(g)
  PROVE  /\ profile' \in Profile
         /\ queue' \in Seq(Writes)
         /\ engine' \in Game
         /\ lives' \in Nat
         /\ beside' \subseteq Nat
<1>1. profile \in Profile /\ queue \in Seq(Writes)
  BY DEF TypeOK
<1>2. Persisted(profile, g) \in Profile
  BY <1>1, PersistedType
<1>3. SaveWrite(Persisted(profile, g)) \in Seq(Writes)
  BY <1>2, SaveType
<1> QED
  BY <1>1, <1>2, <1>3, EnqueueType DEF Resume, TypeOK

LEMMA StartType ==
  ASSUME TypeOK, NEW others, StartNew(others), online' = online
  PROVE  /\ profile' \in Profile
         /\ queue' \in Seq(Writes)
         /\ engine' \in Game
         /\ lives' \in Nat
         /\ beside' \subseteq Nat
         /\ screen' \in {"title", "playing", "ending", "outage"}
         /\ saved' \in Game
         /\ games' \in 0 .. MaxGames[online]
<1> DEFINE g == NewGame(games + 1)
<1>1. games \in 0 .. MaxGames[online] /\ MaxGames[online] \in Nat
  BY Bounds DEF TypeOK
<1>2. g \in Game /\ Begin(g, others) /\ Show(g)
  BY <1>1, GameTypes DEF StartNew
<1> HIDE DEF g
<1> QED
  BY <1>1, <1>2, BeginType, ShowType DEF StartNew

LEMMA TypeStep == TypeOK /\ [Next]_vars => TypeOK'
<1> SUFFICES ASSUME TypeOK, Next PROVE TypeOK'
  BY DEF vars, disk, page, TypeOK
<1> USE DEF TypeOK
<1>0. /\ online' = online
      /\ MaxGames[online] \in Nat /\ MaxGames[online]' = MaxGames[online]
  BY Bounds DEF Next
<1>g. /\ \A n \in Nat : NewGame(n) \in Game
      /\ NoGame \in Game
      /\ \A g \in Game, ended \in BOOLEAN : After(g, ended) \in Game
      /\ creds # 0 => server[creds] \in Game
      /\ profile.active.game \in Game
      /\ games + 1 \in Nat
  <2>1. creds # 0 => server[creds] \in Game
    BY <1>0
  <2>2. profile.active.game \in Game
    BY DEF Profile
  <2>3. games + 1 \in Nat
    BY <1>0
  <2> QED
    BY <2>1, <2>2, <2>3, GameTypes
<1>c. \A f \in Followers \cup {"forget"} :
        /\ [clearing EXCEPT ![f] = @ + 1] \in [Followers \cup {"forget"} -> Nat]
        /\ clearing[f] > 0
             => [clearing EXCEPT ![f] = @ - 1] \in [Followers \cup {"forget"} -> Nat]
  OBVIOUS
<1>f. Followers = {"reload", "new"}
  BY DEF Followers
<1>r. ASSUME NEW deleted \in BOOLEAN, DropRun(deleted)
      PROVE  creds' \in 0 .. MaxGames[online] /\ server' \in [1 .. MaxGames[online] -> Game]
  BY <1>0, <1>g, <1>r DEF DropRun
<1>1. CASE SaveDone
  BY <1>0, <1>1, HeadType DEF SaveDone
<1>2. CASE FinalizeDone
  <2>1. /\ Head(queue).record \in Record
        /\ Head(queue).follower \in Followers \cup {"forget"}
        /\ Head(queue).profile \in Profile
        /\ Tail(queue) \in Seq(Writes)
    BY <1>2, HeadType DEF FinalizeDone, FinalWrites
  <2>2. shelf' \subseteq Record
    BY <1>2, <2>1 DEF FinalizeDone, AddToShelf
  <2> QED
    BY <1>0, <1>2, <1>c, <2>1, <2>2 DEF FinalizeDone
<1>3. CASE WriteFails
  BY <1>0, <1>3, HeadType DEF WriteFails, StopsAfterFailure, disk
<1>4. CASE Continue
  <2> DEFINE g == IF saved # NoGame THEN saved ELSE profile.active.game
  <2>1. g \in Game
    BY <1>g
  <2>2. Resume(g) /\ Show(g)
    BY <1>4 DEF Continue
  <2> HIDE DEF g
  <2> QED
    BY <1>0, <1>4, <2>1, <2>2, ResumeType, ShowType DEF Continue
<1>5. CASE ContinueOnline
  <2> DEFINE g == server[creds]
  <2>1. g \in Game
    BY <1>5, <1>g DEF ContinueOnline
  <2>2. Show(g) /\ (Begin(g, Underway) \/ Resume(g))
    BY <1>5 DEF ContinueOnline
  <2>3. /\ profile' \in Profile
        /\ queue' \in Seq(Writes)
        /\ engine' \in Game
        /\ lives' \in Nat
        /\ beside' \subseteq Nat
    <3> HIDE DEF g, TypeOK
    <3> QED
      BY <2>1, <2>2, ResumeType, BeginType
  <2>4. /\ screen' \in {"title", "playing", "ending", "outage"}
        /\ saved' \in Game
    <3> HIDE DEF g, TypeOK
    <3> QED
      BY <2>1, <2>2, ShowType
  <2> QED
    BY <1>0, <1>5, <2>3, <2>4, Zenon DEF ContinueOnline
<1>6. CASE ContinueFails \/ Reconnect
  BY <1>0, <1>6 DEF ContinueFails, Reconnect, disk
<1>7. CASE ContinueAnew
  <2>1. starting' \in Nat
    BY <1>7 DEF ContinueAnew
  <2> QED
    BY <1>0, <1>7, <2>1, Zenon DEF ContinueAnew, disk
<1>8. CASE CreateRun
  <2> DEFINE g == NewGame(games + 1)
  <2>1. g \in Game /\ Begin(g, Underway - 1) /\ Show(g)
    BY <1>8, <1>g DEF CreateRun
  <2>2. /\ profile' \in Profile
        /\ queue' \in Seq(Writes)
        /\ engine' \in Game
        /\ lives' \in Nat
        /\ beside' \subseteq Nat
        /\ screen' \in {"title", "playing", "ending", "outage"}
        /\ saved' \in Game
    <3> HIDE DEF g, TypeOK
    <3> QED
      BY <2>1, BeginType, ShowType
  <2>3. /\ games' \in 0 .. MaxGames[online] /\ creds' \in 0 .. MaxGames[online]
        /\ starting' \in Nat
    BY <1>0, <1>8 DEF CreateRun
  <2>4. server' \in [1 .. MaxGames[online] -> Game]
    BY <1>8, <2>1 DEF CreateRun
  <2> QED
    BY <1>0, <1>8, <2>2, <2>3, <2>4 DEF CreateRun
<1>9. CASE CreateRunBlocked
  <2>1. /\ games' \in 0 .. MaxGames[online] /\ creds' \in 0 .. MaxGames[online]
        /\ starting' \in Nat
    BY <1>0, <1>9 DEF CreateRunBlocked
  <2>2. server' \in [1 .. MaxGames[online] -> Game] /\ engine' \in Game
    BY <1>9, <1>g DEF CreateRunBlocked
  <2> QED
    BY <1>0, <1>9, <2>1, <2>2 DEF CreateRunBlocked
<1>10. CASE CreateFails
  BY <1>0, <1>10 DEF CreateFails, disk
<1>11. ASSUME NEW kept \in BOOLEAN, NEW ended \in BOOLEAN, Play(kept, ended)
       PROVE  TypeOK'
  <2> DEFINE g == After(engine, ended)
             p == Persisted(profile, g)
  <2>1. g \in Game
    BY <1>g
  <2>2. p \in Profile
    <3> HIDE DEF g
    <3> QED
      BY <2>1, PersistedType
  <2> HIDE DEF p
  <2>3. /\ engine' = g /\ profile' = p
        /\ Enqueue(SaveWrite(p) \o <<FinalWrite(p, g, "ending", "forget")>>)
             \/ Enqueue(SaveWrite(p))
        /\ saved' \in {NoGame, g, saved}
        /\ screen' \in {"title", "playing", "ending", "outage"}
    BY <1>11 DEF Play, p
  <2> HIDE DEF g
  <2>4. queue' \in Seq(Writes)
    <3>1. SaveWrite(p) \in Seq(Writes) /\ <<FinalWrite(p, g, "ending", "forget")>> \in Seq(Writes)
      BY <2>1, <2>2, SaveType, FinalType
    <3>2. SaveWrite(p) \o <<FinalWrite(p, g, "ending", "forget")>> \in Seq(Writes)
      BY <3>1
    <3> QED
      BY <2>3, <3>1, <3>2, EnqueueType
  <2> QED
    BY <1>0, <1>11, <1>g, <2>1, <2>2, <2>3, <2>4 DEF Play
<1>12. ASSUME NEW ended \in BOOLEAN, PlayOnline(ended)
       PROVE  TypeOK'
  <2> DEFINE g == After(engine, ended)
             p == Persisted(profile, g)
  <2>1. g \in Game
    BY <1>g
  <2>2. p \in Profile
    <3> HIDE DEF g
    <3> QED
      BY <2>1, PersistedType
  <2> HIDE DEF p
  <2>3. /\ engine' = g /\ profile' = p /\ saved' = g
        /\ Enqueue(SaveWrite(p))
        /\ screen' \in {"title", "playing", "ending", "outage"}
        /\ server' = [server EXCEPT ![creds] = g]
    BY <1>12, <1>g DEF PlayOnline, p, Game
  <2>6. telling' \in Nat
    <3>1. telling' = telling + (IF g.ended THEN 1 ELSE 0)
      BY <1>12 DEF PlayOnline
    <3> HIDE DEF g
    <3> QED
      BY <3>1
  <2> HIDE DEF g
  <2>4. queue' \in Seq(Writes)
    BY <2>2, <2>3, SaveType, EnqueueType
  <2>5. server' \in [1 .. MaxGames[online] -> Game]
    BY <2>1, <2>3
  <2> QED
    BY <1>0, <1>12, <2>1, <2>2, <2>3, <2>4, <2>5, <2>6 DEF PlayOnline
<1>13. ASSUME NEW ended \in BOOLEAN, NEW played \in BOOLEAN, PlayUnheard(ended, played)
       PROVE  TypeOK'
  <2>1. server' \in [1 .. MaxGames[online] -> Game]
    BY <1>13, <1>g DEF PlayUnheard
  <2> QED
    BY <1>0, <1>13, <2>1 DEF PlayUnheard, disk
<1>14. CASE Beat
  <2>1. profile' \in Profile
    BY <1>14, PersistedType DEF Beat
  <2>2. queue' \in Seq(Writes)
    BY <1>14, <2>1, SaveType, EnqueueType DEF Beat
  <2> QED
    BY <1>0, <1>14, <2>1, <2>2 DEF Beat, disk
<1>15. CASE Told
  <2>1. queue' \in Seq(Writes)
    BY <1>15, FinalType, EnqueueType DEF Told
  <2>2. telling' \in Nat
    BY <1>15 DEF Told
  <2> QED
    BY <1>0, <1>15, <1>g, <2>1, <2>2 DEF Told
<1>16. CASE Forget
  BY <1>0, <1>16, <1>c, <1>g DEF Forget
<1>17. ASSUME NEW follower \in Followers, Clear(follower)
       PROVE  TypeOK'
  <2>1. queue' \in Seq(Writes)
    BY <1>17, FinalType, EnqueueType DEF Clear
  <2> QED
    BY <1>0, <1>17, <2>1 DEF Clear, disk
<1>18. CASE ClearedNew
  <2>1. StartNew(Underway - 1)
    BY <1>18 DEF ClearedNew
  <2>2. clearing' \in [Followers \cup {"forget"} -> Nat]
    BY <1>18, <1>c, <1>f DEF ClearedNew
  <2>3. UNCHANGED <<stored, shelf, creds, server, telling, starting>>
    BY <2>1 DEF StartNew
  <2>4. TypeOK
    OBVIOUS
  <2> HIDE DEF TypeOK
  <2>5. /\ profile' \in Profile
        /\ queue' \in Seq(Writes)
        /\ engine' \in Game
        /\ lives' \in Nat
        /\ beside' \subseteq Nat
        /\ screen' \in {"title", "playing", "ending", "outage"}
        /\ saved' \in Game
        /\ games' \in 0 .. MaxGames[online]
    BY <1>0, <2>1, <2>4, StartType
  <2> USE DEF TypeOK
  <2> QED
    BY <1>0, <2>2, <2>3, <2>5
<1>23. ASSUME NEW follower \in Followers, ClearNothing(follower)
       PROVE  TypeOK'
  <2>1. CASE follower = "new" /\ ~ online
    <3>1. StartNew(Underway) /\ UNCHANGED clearing
      BY <1>23, <2>1 DEF ClearNothing
    <3>2. UNCHANGED <<stored, shelf, creds, server, telling, starting>>
      BY <3>1 DEF StartNew
    <3>3. TypeOK
      OBVIOUS
    <3> HIDE DEF TypeOK
    <3>4. /\ profile' \in Profile
          /\ queue' \in Seq(Writes)
          /\ engine' \in Game
          /\ lives' \in Nat
          /\ beside' \subseteq Nat
          /\ screen' \in {"title", "playing", "ending", "outage"}
          /\ saved' \in Game
          /\ games' \in 0 .. MaxGames[online]
      BY <1>0, <3>1, <3>3, StartType
    <3> USE DEF TypeOK
    <3> QED
      BY <1>0, <3>1, <3>2, <3>4
  <2>2. CASE ~ (follower = "new" /\ ~ online)
    <3>1. clearing' \in [Followers \cup {"forget"} -> Nat]
      BY <1>23, <1>c, <2>2 DEF ClearNothing
    <3> QED
      BY <1>0, <1>23, <2>2, <3>1 DEF ClearNothing, disk
  <2> QED
    BY <2>1, <2>2
<1>19. ASSUME NEW deleted \in BOOLEAN, ClearedReload(deleted)
       PROVE  TypeOK'
  <2>1. FreshPage /\ DropRun(deleted)
    BY <1>19 DEF ClearedReload
  <2> QED
    BY <1>0, <1>19, <1>g, <1>r, <2>1, FreshType DEF ClearedReload
<1>20. ASSUME NEW deleted \in BOOLEAN, ClearedNewOnline(deleted)
       PROVE  TypeOK'
  <2>1. starting' \in Nat /\ clearing' \in [Followers \cup {"forget"} -> Nat]
    BY <1>20, <1>c, <1>f DEF ClearedNewOnline
  <2>2. DropRun(deleted)
    BY <1>20 DEF ClearedNewOnline
  <2> QED
    BY <1>0, <1>20, <1>g, <1>r, <2>1, <2>2 DEF ClearedNewOnline
<1>21. CASE Reload
  BY <1>0, <1>21, FreshType DEF Reload, disk
<1>22. CASE ChooseReplay
  BY <1>0, <1>22, <1>g, FreshType DEF ChooseReplay
<1> HIDE DEF TypeOK
<1> QED
  BY <1>1, <1>2, <1>3, <1>4, <1>5, <1>6, <1>7, <1>8, <1>9, <1>10, <1>11, <1>12,
     <1>13, <1>14, <1>15, <1>16, <1>17, <1>18, <1>19, <1>20, <1>21, <1>22, <1>23
     DEF Next, Step

-----------------------------------------------------------------------------
(* The queue. *)

LEMMA QueueAppended ==
  ASSUME NEW q \in Seq(Writes), NEW w \in Writes, NEW l \in Nat,
         QueueFine(q, l), WriteFine(w), LifeOf(w) = l
  PROVE  QueueFine(Append(q, w), l)
<1> DEFINE r == Append(q, w)
<1>1. /\ DOMAIN q = 1 .. Len(q) /\ Len(q) \in Nat
      /\ DOMAIN r = 1 .. Len(q) + 1
      /\ \A n \in DOMAIN q : r[n] = q[n]
      /\ r[Len(q) + 1] = w
  OBVIOUS
<1> HIDE DEF r
<1>2. \A n \in DOMAIN r : n \in DOMAIN q \/ (n = Len(q) + 1 /\ r[n] = w)
  BY <1>1
<1>3. \A n \in DOMAIN r : WriteFine(r[n])
  BY <1>1, <1>2 DEF QueueFine
<1>4. Carries(r, l)
  <2>0. Carries(q, l)
    BY DEF QueueFine
  <2>1. \A n \in DOMAIN r : Alive(LifeOf(r[n])) => LifeOf(r[n]) = l
    BY <1>1, <1>2, <2>0 DEF Carries
  <2>2. \A n \in DOMAIN r : r[n].op = "save" /\ Alive(stored.active.life) => LifeOf(r[n]) = l
    BY <1>1, <1>2, <2>0 DEF Carries
  <2>3. ASSUME NEW n \in DOMAIN r, NEW m \in DOMAIN r, r[n].op = "save",
               m < n, r[m].op = "save", Alive(LifeOf(r[m]))
        PROVE  LifeOf(r[n]) = l
    <3>1. CASE r[n] = w
      BY <3>1
    <3>2. CASE n \in DOMAIN q
      <4>1. m \in DOMAIN q
        BY <1>1, <2>3, <3>2
      <4> QED
        BY <1>1, <2>0, <2>3, <3>2, <4>1 DEF Carries
    <3> QED
      BY <1>2, <3>1, <3>2
  <2>4. \A n \in DOMAIN r : r[n].op = "finalize" /\ Alive(l) => LifeOf(r[n]) = l
    BY <1>1, <1>2, <2>0 DEF Carries
  <2> QED
    BY <2>1, <2>2, <2>3, <2>4 DEF Carries
<1> QED
  BY <1>3, <1>4 DEF QueueFine, r

\* What is said of a queue is said of what is left when its head is gone.
LEMMA TailWrites ==
  ASSUME NEW q \in Seq(Writes), q # <<>>
  PROVE  /\ 1 \in DOMAIN q /\ Head(q) = q[1]
         /\ DOMAIN q = 1 .. Len(q) /\ Len(q) \in Nat
         /\ \A n \in DOMAIN Tail(q) :
              /\ n \in Nat \ {0} /\ n + 1 \in DOMAIN q
              /\ Tail(q)[n] = q[n + 1]
  OBVIOUS

LEMMA QueueTail ==
  ASSUME NEW q \in Seq(Writes), q # <<>>, NEW l, QueueFine(q, l)
  PROVE  QueueFine(Tail(q), l)
<1>1. \A n \in DOMAIN Tail(q) : WriteFine(Tail(q)[n])
  BY TailWrites DEF QueueFine
<1>2. Carries(Tail(q), l)
  <2>0. Carries(q, l)
    BY DEF QueueFine
  <2>1. \A m, n \in DOMAIN Tail(q) : m < n => m + 1 < n + 1
    BY TailWrites
  <2> QED
    BY <2>0, <2>1, TailWrites DEF Carries
<1> QED
  BY <1>1, <1>2 DEF QueueFine

\* No archive waits to be written.
NoArchive(q) == \A n \in DOMAIN q : q[n].op # "finalize"

\* Nothing is on its way to begin a life or to leave one exactly if the count of it,
\* Underway, is 0.
LEMMA NothingUnderway ==
  ASSUME TypeOK
  PROVE  /\ Underway \in Nat
         /\ Underway = 0 => /\ starting = 0 /\ clearing["new"] = 0 /\ clearing["reload"] = 0
                           /\ NoArchive(queue)
         /\ starting + clearing["new"] + clearing["reload"] = 1 /\ Underway = 1
              => NoArchive(queue)
         /\ starting + clearing["new"] + clearing["reload"] <= Underway
<1> DEFINE archives == {i \in DOMAIN queue : queue[i].op = "finalize"}
<1>1. IsFiniteSet(archives)
  <2>1. DOMAIN queue = 1 .. Len(queue) /\ Len(queue) \in Nat
    BY DEF TypeOK
  <2>2. IsFiniteSet(DOMAIN queue)
    BY <2>1, FS_Interval
  <2> QED
    BY <2>2, FS_Subset
<1>2. Cardinality(archives) \in Nat /\ (Cardinality(archives) = 0 => archives = {})
  BY <1>1, FS_CardinalityType, FS_EmptySet
<1>3. archives = {} => NoArchive(queue)
  BY DEF NoArchive
<1>4. starting \in Nat /\ clearing["new"] \in Nat /\ clearing["reload"] \in Nat
  BY DEF TypeOK, Followers
<1>5. Underway = starting + clearing["new"] + clearing["reload"] + Cardinality(archives)
  BY DEF Underway
<1> DEFINE waiting == Cardinality(archives)
<1>6. /\ waiting \in Nat /\ (waiting = 0 => NoArchive(queue))
      /\ Underway = starting + clearing["new"] + clearing["reload"] + waiting
  BY <1>2, <1>3, <1>5
<1> DEFINE new == clearing["new"]
           reload == clearing["reload"]
<1>7. new \in Nat /\ reload \in Nat /\ Underway = starting + new + reload + waiting
  BY <1>4, <1>6
<1> HIDE DEF waiting, new, reload
<1>8. /\ Underway \in Nat
      /\ Underway = 0 => starting = 0 /\ new = 0 /\ reload = 0 /\ waiting = 0
      /\ starting + new + reload = 1 /\ Underway = 1 => waiting = 0
      /\ starting + new + reload <= Underway
  BY <1>4, <1>6, <1>7
<1> QED
  BY <1>6, <1>8 DEF new, reload

-----------------------------------------------------------------------------
(* What a step does to the lives. *)

\* A write of the page about its own life.
OfPage(w) == WriteFine(w) /\ LifeOf(w) = profile.active.life

Longer(q, r) == r = q \/ \E w \in Writes : OfPage(w) /\ r = Append(q, w)

\* Whoever is to begin another life finds that the page does not owe the life l, and
\* neither does a page online without a run.
PageStays(l) ==
  /\ Leaving' => ~ Alive(l)
  /\ online /\ creds' = 0 => ~ Alive(l)

\* The life goes on, or ends on the page: what is written of it waits.
Lived ==
  /\ UNCHANGED <<stored, shelf, beside>>
  /\ profile' \in Profile
  /\ profile'.active.life = profile.active.life
  /\ profile'.archives = profile.archives
  /\ \E q \in Seq(Writes) : Longer(queue, q) /\ Longer(q, queue')
  /\ PageStays(profile.active.life)

\* A new life, on a page that owes none; it is owed if nothing else is on its way.
Born ==
  /\ UNCHANGED <<stored, shelf>>
  /\ beside \subseteq beside'
  /\ profile' \in Profile /\ profile'.active.life \in Nat \ {0}
  /\ profile'.archives = profile.archives
  /\ queue' = Append(queue, [op |-> "save", profile |-> profile'])
  /\ ~ Alive(profile.active.life)
  /\ profile'.active.life \notin beside' => NoArchive(queue) /\ ~ Leaving'
  /\ online => creds' # 0

\* The page is loaded anew from the disk.
Loaded ==
  /\ FreshPage
  /\ UNCHANGED <<stored, shelf, beside>>
  /\ online /\ creds' = 0 => ~ Alive(stored.active.life)

LEMMA SaveOfPage ==
  ASSUME Inv, NEW p \in Profile, p.active.life = profile.active.life,
         p.archives = profile.archives
  PROVE  p.active.life # 0 => OfPage([op |-> "save", profile |-> p])
  BY DEF OfPage, WriteFine, LifeOf, Inv, Backed

LEMMA FinalOfPage ==
  ASSUME Inv, NEW p \in Profile, p.active.life = profile.active.life,
         p.archives = profile.archives, p.active.life # 0,
         NEW g \in Game, NEW outcome \in {"ending", "abandoned"}, NEW follower
  PROVE  OfPage(FinalWrite(p, g, outcome, follower))
  BY DEF OfPage, WriteFine, LifeOf, Inv, Backed, FinalWrite, NoLife

LEMMA SaveEnqueued ==
  ASSUME Inv, NEW p \in Profile, p.active.life = profile.active.life,
         p.archives = profile.archives, Enqueue(SaveWrite(p))
  PROVE  Longer(queue, queue')
<1>1. queue \in Seq(Writes) /\ queue' = queue \o SaveWrite(p)
  BY DEF Inv, TypeOK, Enqueue
<1>2. CASE p.active.life = 0
  <2>1. SaveWrite(p) = <<>>
    BY <1>2, SaveType
  <2> QED
    BY <1>1, <2>1 DEF Longer
<1>3. CASE p.active.life # 0
  <2> DEFINE w == [op |-> "save", profile |-> p]
  <2>1. SaveWrite(p) = <<w>> /\ w \in Writes /\ OfPage(w)
    BY <1>3, SaveType, SaveOfPage
  <2> HIDE DEF w
  <2>2. queue' = Append(queue, w)
    BY <1>1, <2>1
  <2> QED
    BY <2>1, <2>2 DEF Longer
<1> QED
  BY <1>2, <1>3

LEMMA FinalEnqueued ==
  ASSUME Inv, NEW w \in Writes, OfPage(w), Enqueue(<<w>>)
  PROVE  Longer(queue, queue')
<1>1. queue \in Seq(Writes) /\ queue' = queue \o <<w>>
  BY DEF Inv, TypeOK, Enqueue
<1>2. queue' = Append(queue, w)
  BY <1>1
<1> QED
  BY <1>2 DEF Longer

LEMMA BothEnqueued ==
  ASSUME Inv, NEW p \in Profile, p.active.life = profile.active.life,
         p.archives = profile.archives, p.active.life # 0,
         NEW w \in Writes, OfPage(w), Enqueue(SaveWrite(p) \o <<w>>)
  PROVE  \E q \in Seq(Writes) : Longer(queue, q) /\ Longer(q, queue')
<1> DEFINE s == [op |-> "save", profile |-> p]
<1>1. SaveWrite(p) = <<s>> /\ s \in Writes /\ OfPage(s)
  BY SaveType, SaveOfPage
<1> HIDE DEF s
<1>2. queue \in Seq(Writes) /\ queue' = queue \o (<<s>> \o <<w>>)
  BY <1>1 DEF Inv, TypeOK, Enqueue
<1>3. queue' = Append(Append(queue, s), w) /\ Append(queue, s) \in Seq(Writes)
  BY <1>1, <1>2
<1> QED
  BY <1>1, <1>3 DEF Longer

LEMMA OneLonger ==
  ASSUME queue \in Seq(Writes), Longer(queue, queue')
  PROVE  \E q \in Seq(Writes) : Longer(queue, q) /\ Longer(q, queue')
  BY DEF Longer

\* Every step writes, loses a write, loads the page, or begins or lives a life.
LEMMA Effect ==
  ASSUME Inv, Next
  PROVE  SaveDone \/ FinalizeDone \/ WriteFails \/ Loaded \/ Born \/ Lived
<1> USE DEF disk
<1>p. /\ Leaving => ~ Alive(profile.active.life)
      /\ online /\ creds = 0 => ~ Alive(profile.active.life)
      /\ Alive(stored.active.life) => stored.active.life = profile.active.life
  BY DEF Inv, PageFine
<1>t. /\ TypeOK /\ TypeOK'
      /\ profile \in Profile /\ profile' \in Profile /\ engine \in Game
      /\ queue \in Seq(Writes) /\ lives \in Nat /\ telling \in Nat /\ starting \in Nat
      /\ profile.active.life \in Nat
      /\ clearing \in [{"reload", "new", "forget"} -> Nat]
      /\ Followers = {"reload", "new"}
      /\ online' = online
  BY TypeStep DEF Inv, TypeOK, Profile, Followers, Next
<1>g. /\ \A g \in Game, ended \in BOOLEAN : After(g, ended) \in Game
      /\ \A n \in Nat : NewGame(n) \in Game
      /\ NewGame(games + 1) \in Game
      /\ \A g \in Game : /\ Persisted(profile, g) \in Profile
                         /\ Persisted(profile, g).active.life = profile.active.life
                         /\ Persisted(profile, g).archives = profile.archives
  <2>1. games + 1 \in Nat
    BY <1>t, Bounds DEF TypeOK
  <2> QED
    BY <1>t, <2>1, GameTypes, PersistedType
\* Nothing is written, and the life is as it was.
<1>s. ASSUME UNCHANGED <<stored, shelf, beside, profile, queue>>, PageStays(profile.active.life)
      PROVE  Lived
  BY <1>s, <1>t, OneLonger DEF Lived, Longer
<1>w. ASSUME UNCHANGED <<stored, shelf, beside>>, Longer(queue, queue'),
             profile'.active.life = profile.active.life, profile'.archives = profile.archives,
             PageStays(profile.active.life)
      PROVE  Lived
  BY <1>w, <1>t, OneLonger DEF Lived
<1>b. ASSUME NEW g \in Game, NEW others \in Nat, Begin(g, others),
             UNCHANGED <<stored, shelf>>,
             ~ Alive(profile.active.life),
             others = 0 => NoArchive(queue) /\ ~ Leaving',
             online => creds' # 0
      PROVE  Born
  <2>1. /\ profile'.active.life = lives + 1
        /\ profile'.archives = profile.archives
        /\ queue' = queue \o <<[op |-> "save", profile |-> profile']>>
        /\ beside' = (IF others > 0 THEN beside \cup {lives + 1} ELSE beside)
    BY <1>b, <1>t, BeginType
  <2>2. [op |-> "save", profile |-> profile'] \in Writes
    BY <1>t, SaveType
  <2>3. queue' = Append(queue, [op |-> "save", profile |-> profile'])
    <3> DEFINE w == [op |-> "save", profile |-> profile']
    <3>1. queue' = queue \o <<w>> /\ w \in Writes
      BY <2>1, <2>2
    <3> HIDE DEF w
    <3>2. queue' = Append(queue, w)
      BY <1>t, <3>1
    <3> QED
      BY <3>2 DEF w
  <2> QED
    BY <1>b, <1>t, <2>1, <2>3 DEF Born
\* What is on its way.
<1>u. /\ Underway \in Nat
      /\ Underway = 0 => /\ starting = 0 /\ clearing["new"] = 0 /\ clearing["reload"] = 0
                        /\ NoArchive(queue)
      /\ starting + clearing["new"] + clearing["reload"] = 1 /\ Underway = 1 => NoArchive(queue)
      /\ starting > 0 \/ clearing["new"] > 0 => Underway - 1 \in Nat
  <2>1. Underway > 0 \/ (starting = 0 /\ clearing["new"] = 0)
    BY <1>t, NothingUnderway
  <2> QED
    BY <1>t, <2>1, NothingUnderway
<1>r. ASSUME NEW g \in Game, Resume(g), UNCHANGED <<stored, shelf>>,
             PageStays(profile.active.life)
      PROVE  Lived
  <2>1. CASE g.ended
    BY <1>r, <2>1, <1>w DEF Resume, Longer
  <2>2. CASE ~ g.ended
    <3>1. /\ profile' = Persisted(profile, g) /\ beside' = beside
          /\ Enqueue(SaveWrite(Persisted(profile, g)))
      BY <1>r, <2>2 DEF Resume
    <3>2. Longer(queue, queue')
      BY <1>g, <3>1, SaveEnqueued
    <3> QED
      BY <1>r, <1>w, <1>g, <3>1, <3>2
  <2> QED
    BY <2>1, <2>2
<1>1. CASE SaveDone \/ FinalizeDone \/ WriteFails
  BY <1>1
<1>4. CASE Continue
  <2> DEFINE g == IF saved # NoGame THEN saved ELSE profile.active.game
  <2>1. g \in Game
    BY <1>t DEF TypeOK, Profile
  <2>2. Resume(g) /\ UNCHANGED <<stored, shelf, creds, telling, clearing, starting>>
    BY <1>4 DEF Continue
  <2> HIDE DEF g
  <2> QED
    BY <1>p, <1>r, <2>1, <2>2 DEF PageStays, Leaving
<1>5. CASE ContinueOnline
  <2> DEFINE g == server[creds]
  <2>0. creds \in 1 .. MaxGames[online]
    <3>1. creds \in 0 .. MaxGames[online] /\ MaxGames[online] \in Nat
      BY <1>t, Bounds DEF TypeOK
    <3>2. creds # 0
      BY <1>5 DEF ContinueOnline
    <3> QED
      BY <3>1, <3>2
  <2>1. g \in Game
    BY <1>t, <2>0 DEF TypeOK
  <2>2. UNCHANGED <<stored, shelf, creds, clearing, starting>> /\ online /\ creds # 0
    BY <1>5 DEF ContinueOnline
  <2> HIDE DEF g
  <2>3. CASE profile.active.life = 0
    <3>1. Begin(g, Underway)
      BY <1>5, <2>3 DEF ContinueOnline, g
    <3>2. Underway = 0 => NoArchive(queue) /\ ~ Leaving'
      BY <1>u, <2>2 DEF Leaving
    <3> QED
      BY <1>b, <1>u, <2>1, <2>2, <2>3, <3>1, <3>2 DEF Alive
  <2>4. CASE profile.active.life # 0
    <3>1. Resume(g)
      BY <1>5, <2>4 DEF ContinueOnline, g
    <3>2. PageStays(profile.active.life)
      BY <1>p, <2>2 DEF PageStays, Leaving
    <3>3. UNCHANGED <<stored, shelf>>
      BY <2>2
    <3> QED
      BY <1>r, <2>1, <3>1, <3>2, <3>3
  <2> QED
    BY <2>3, <2>4
<1>6. CASE ContinueFails \/ Reconnect \/ ContinueAnew
  <2>1. /\ UNCHANGED <<stored, shelf, beside, profile, queue, creds, telling, clearing>>
        /\ starting' = starting \/ (online /\ creds = 0)
    BY <1>6 DEF ContinueFails, Reconnect, ContinueAnew
  <2> QED
    BY <1>p, <1>s, <2>1 DEF PageStays, Leaving
<1>7. CASE CreateRun
  <2>1. /\ Begin(NewGame(games + 1), Underway - 1) /\ UNCHANGED <<stored, shelf, clearing>>
        /\ starting > 0 /\ starting' = starting - 1 /\ creds' = games + 1
    BY <1>7 DEF CreateRun
  <2>2. Underway - 1 = 0 => NoArchive(queue) /\ ~ Leaving'
    <3> SUFFICES ASSUME Underway = 1 PROVE NoArchive(queue) /\ ~ Leaving'
      BY <1>u
    <3>1. starting = 1 /\ clearing["new"] = 0 /\ clearing["reload"] = 0
      BY <1>t, <2>1, NothingUnderway
    <3> QED
      BY <1>u, <2>1, <3>1 DEF Leaving
  <2>3. creds' # 0
    BY <1>t, <2>1, Bounds DEF TypeOK
  <2> QED
    BY <1>b, <1>g, <1>p, <1>u, <2>1, <2>2, <2>3 DEF Leaving
<1>8. CASE CreateRunBlocked \/ CreateFails
  <2>1. /\ UNCHANGED <<stored, shelf, beside, profile, queue, clearing>>
        /\ starting > 0
    BY <1>8 DEF CreateRunBlocked, CreateFails
  <2> QED
    BY <1>p, <1>s, <2>1 DEF PageStays, Leaving
<1>9. ASSUME NEW kept \in BOOLEAN, NEW ended \in BOOLEAN, Play(kept, ended)
      PROVE  Lived
  <2> DEFINE g == After(engine, ended)
             q == Persisted(profile, g)
             f == FinalWrite(q, g, "ending", "forget")
  <2>1. g \in Game
    BY <1>g, <1>t
  <2>2. /\ q \in Profile /\ q.active.life = profile.active.life
        /\ q.archives = profile.archives
    <3> HIDE DEF g
    <3> QED
      BY <2>1, <1>g
  <2>3. /\ profile' = q /\ UNCHANGED <<stored, shelf, beside, creds, clearing, starting>>
        /\ IF g.ended /\ q.active.life # 0
             THEN Enqueue(SaveWrite(q) \o <<f>>) ELSE Enqueue(SaveWrite(q))
    BY <1>9 DEF Play
  <2> HIDE DEF q, g
  <2>4. PageStays(profile.active.life)
    BY <1>p, <2>3 DEF PageStays, Leaving
  <2>5. CASE g.ended /\ q.active.life # 0
    <3>1. f \in Writes
      BY <2>1, <2>2, FinalType
    <3>2. OfPage(f)
      BY <2>1, <2>2, <2>5, FinalOfPage
    <3>3. Enqueue(SaveWrite(q) \o <<f>>)
      BY <2>3, <2>5
    <3> HIDE DEF f
    <3>4. \E r \in Seq(Writes) : Longer(queue, r) /\ Longer(r, queue')
      BY <2>2, <2>5, <3>1, <3>2, <3>3, BothEnqueued
    <3> QED
      BY <1>t, <2>2, <2>3, <2>4, <3>4 DEF Lived
  <2>6. CASE ~ (g.ended /\ q.active.life # 0)
    <3>1. Longer(queue, queue')
      BY <2>2, <2>3, <2>6, SaveEnqueued
    <3> QED
      BY <1>w, <2>2, <2>3, <2>4, <3>1
  <2> QED
    BY <2>5, <2>6
<1>10. ASSUME NEW ended \in BOOLEAN, PlayOnline(ended)
       PROVE  Lived
  <2> DEFINE g == After(engine, ended)
             q == Persisted(profile, g)
  <2>1. g \in Game
    BY <1>g, <1>t
  <2>2. /\ q \in Profile /\ q.active.life = profile.active.life
        /\ q.archives = profile.archives
    <3> HIDE DEF g
    <3> QED
      BY <2>1, <1>g
  <2>3. /\ profile' = q /\ UNCHANGED <<stored, shelf, beside, creds, clearing, starting>>
        /\ Enqueue(SaveWrite(q))
    BY <1>10 DEF PlayOnline
  <2> HIDE DEF q, g
  <2>4. Longer(queue, queue')
    BY <2>2, <2>3, SaveEnqueued
  <2> QED
    BY <1>p, <1>w, <2>2, <2>3, <2>4 DEF PageStays, Leaving
<1>11. ASSUME NEW ended \in BOOLEAN, NEW played \in BOOLEAN, PlayUnheard(ended, played)
       PROVE  Lived
  BY <1>p, <1>s, <1>11 DEF PlayUnheard, PageStays, Leaving
<1>12. CASE Beat
  <2> DEFINE q == Persisted(profile, engine)
  <2>1. /\ q \in Profile /\ q.active.life = profile.active.life
        /\ q.archives = profile.archives
    BY <1>t, <1>g
  <2>2. /\ profile' = q /\ UNCHANGED <<stored, shelf, beside, creds, clearing, starting>>
        /\ Enqueue(SaveWrite(q))
    BY <1>12 DEF Beat
  <2> HIDE DEF q
  <2>3. Longer(queue, queue')
    BY <2>1, <2>2, SaveEnqueued
  <2> QED
    BY <1>p, <1>w, <2>1, <2>2, <2>3 DEF PageStays, Leaving
<1>13. CASE Told
  <2>1. UNCHANGED <<stored, shelf, beside, profile, creds, clearing, starting>>
    BY <1>13 DEF Told
  <2>2. CASE profile.active.life = 0
    BY <1>13, <1>p, <1>s, <2>1, <2>2 DEF Told, PageStays, Leaving
  <2>3. CASE profile.active.life # 0
    <3> DEFINE f == FinalWrite(profile, engine, "ending", "forget")
    <3>1. f \in Writes /\ OfPage(f)
      BY <1>t, <2>3, FinalType, FinalOfPage
    <3>2. Enqueue(<<f>>)
      BY <1>13, <2>3 DEF Told
    <3> HIDE DEF f
    <3>3. Longer(queue, queue')
      BY <3>1, <3>2, FinalEnqueued
    <3> QED
      BY <1>p, <1>w, <2>1, <3>3 DEF PageStays, Leaving
  <2> QED
    BY <2>2, <2>3
<1>14. CASE Forget
  <2>1. /\ UNCHANGED <<stored, shelf, beside, profile, queue, creds, starting>>
        /\ clearing' = [clearing EXCEPT !["forget"] = @ - 1]
    BY <1>14 DEF Forget
  <2>2. clearing'["new"] = clearing["new"] /\ clearing'["reload"] = clearing["reload"]
    BY <1>t, <2>1
  <2> QED
    BY <1>p, <1>s, <2>1, <2>2 DEF PageStays, Leaving
<1>15. ASSUME NEW follower \in Followers, Clear(follower)
       PROVE  Lived
  <2> DEFINE f == FinalWrite(profile, engine, "abandoned", follower)
  <2>1. /\ UNCHANGED <<stored, shelf, beside, profile, creds, clearing, starting>>
        /\ profile.active.life # 0
        /\ Enqueue(<<f>>)
    BY <1>15 DEF Clear
  <2>2. f \in Writes /\ OfPage(f)
    BY <1>t, <2>1, FinalType, FinalOfPage
  <2> HIDE DEF f
  <2>3. Longer(queue, queue')
    BY <2>1, <2>2, FinalEnqueued
  <2> QED
    BY <1>p, <1>w, <2>1, <2>3 DEF PageStays, Leaving
<1>20. ASSUME NEW follower \in Followers, ClearNothing(follower)
       PROVE  Born \/ Lived
  <2>1. CASE follower = "new" /\ ~ online
    <3>1. /\ Begin(NewGame(games + 1), Underway) /\ ~ online /\ profile.active.life = 0
          /\ UNCHANGED <<stored, shelf, clearing, starting>>
      BY <1>20, <2>1 DEF ClearNothing, StartNew
    <3>2. Underway = 0 => NoArchive(queue) /\ ~ Leaving'
      BY <1>u, <3>1 DEF Leaving
    <3> QED
      BY <1>b, <1>g, <1>u, <3>1, <3>2 DEF Alive
  <2>2. CASE ~ (follower = "new" /\ ~ online)
    <3>1. UNCHANGED <<stored, shelf, beside, profile, queue>> /\ profile.active.life = 0
      BY <1>20, <2>2 DEF ClearNothing
    <3> QED
      BY <1>s, <3>1 DEF PageStays, Alive
  <2> QED
    BY <2>1, <2>2
<1>16. CASE ClearedNew
  <2>1. /\ Begin(NewGame(games + 1), Underway - 1) /\ UNCHANGED <<stored, shelf, starting>>
        /\ clearing' = [clearing EXCEPT !["new"] = @ - 1] /\ ~ online /\ clearing["new"] > 0
    BY <1>16 DEF ClearedNew, StartNew
  <2>2. Underway - 1 = 0 => NoArchive(queue) /\ ~ Leaving'
    <3> SUFFICES ASSUME Underway = 1 PROVE NoArchive(queue) /\ ~ Leaving'
      BY <1>u
    <3>1. starting = 0 /\ clearing["new"] = 1 /\ clearing["reload"] = 0
      BY <1>t, <2>1, NothingUnderway
    <3>2. clearing'["new"] = 0 /\ clearing'["reload"] = 0
      BY <1>t, <2>1, <3>1
    <3> QED
      BY <1>u, <2>1, <3>1, <3>2 DEF Leaving
  <2> QED
    BY <1>b, <1>g, <1>p, <1>u, <2>1, <2>2 DEF Leaving
<1>17. ASSUME NEW deleted \in BOOLEAN, ClearedReload(deleted)
       PROVE  Loaded
  <2>1. ~ Alive(stored.active.life)
    BY <1>17, <1>p DEF ClearedReload, Leaving
  <2> QED
    BY <1>17, <2>1 DEF ClearedReload, Loaded
<1>18. ASSUME NEW deleted \in BOOLEAN, ClearedNewOnline(deleted)
       PROVE  Lived
  <2>1. ~ Alive(profile.active.life) /\ UNCHANGED <<stored, shelf, beside, profile, queue>>
    BY <1>18, <1>p DEF ClearedNewOnline, Leaving
  <2> QED
    BY <1>s, <2>1 DEF PageStays
<1>19. CASE Reload \/ ChooseReplay
  BY <1>19, <1>p DEF Reload, ChooseReplay, Loaded
<1> QED
  BY <1>1, <1>4, <1>5, <1>6, <1>7, <1>8, <1>9, <1>10, <1>11, <1>12, <1>13, <1>14,
     <1>15, <1>16, <1>17, <1>18, <1>19, <1>20 DEF Next, Step

-----------------------------------------------------------------------------
(* The invariant. *)

\* The fate of what is said of the lives when nothing is archived.
LEMMA SameLives ==
  ASSUME Inv, UNCHANGED <<stored, shelf, beside>>
  PROVE  /\ OneRecordEach' /\ Backed(stored, {})'
         /\ \A l : Alive(l)' <=> Alive(l)
         /\ Backed(profile', {}) => Backed(profile, {})'
         /\ QueueFine(queue', profile'.active.life) => QueueFine(queue, profile.active.life)'
<1>1. \A l : OnShelf(l)' <=> OnShelf(l)
  BY DEF OnShelf
<1>2. \A l : Alive(l)' <=> Alive(l)
  BY <1>1 DEF Alive
<1>3. OneRecordEach'
  BY DEF Inv, OneRecordEach
<1>4. /\ Backed(stored, {})'
      /\ Backed(profile', {}) => Backed(profile, {})'
  BY DEF Inv, Backed, OnShelf
<1>5. QueueFine(queue', profile'.active.life) => QueueFine(queue, profile.active.life)'
  BY DEF QueueFine, WriteFine, Carries, LifeOf, Alive, Backed, OnShelf
<1> QED
  BY <1>2, <1>3, <1>4, <1>5

LEMMA Longers ==
  ASSUME NEW q \in Seq(Writes), NEW r, QueueFine(q, profile.active.life),
         profile.active.life \in Nat, Longer(q, r)
  PROVE  QueueFine(r, profile.active.life)
  BY QueueAppended DEF Longer, OfPage

LEMMA InvLived ==
  ASSUME Inv, TypeOK', online' = online, Lived
  PROVE  Inv'
<1> DEFINE l == profile.active.life
<1>1. /\ UNCHANGED <<stored, shelf, beside>> /\ profile'.active.life = l
      /\ profile'.archives = profile.archives /\ PageStays(l)
      /\ \E q \in Seq(Writes) : Longer(queue, q) /\ Longer(q, queue')
  BY DEF Lived
<1>2. queue \in Seq(Writes) /\ l \in Nat /\ QueueFine(queue, l) /\ PageFine
  BY DEF Inv, TypeOK, Profile
<1>3. QueueFine(queue', l)
  BY <1>1, <1>2, Longers
<1>4. QueueFine(queue, profile.active.life)'
  BY <1>1, <1>3, SameLives
<1>5. Backed(profile, {})'
  <2>1. Backed(profile, {})
    BY DEF Inv
  <2>2. Backed(profile', {})
    BY <1>1, <2>1 DEF Backed
  <2> QED
    BY <1>1, <2>2, SameLives
<1>6. PageFine'
  BY <1>1, <1>2, SameLives DEF PageFine, PageStays, Leaving
<1> QED
  BY <1>1, <1>4, <1>5, <1>6, SameLives DEF Inv

LEMMA InvBorn ==
  ASSUME Inv, TypeOK', online' = online, Born
  PROVE  Inv'
<1> DEFINE l == profile'.active.life
           w == [op |-> "save", profile |-> profile']
<1>1. /\ UNCHANGED <<stored, shelf>> /\ beside \subseteq beside'
      /\ l \in Nat \ {0} /\ profile' \in Profile
      /\ profile'.archives = profile.archives
      /\ queue' = Append(queue, w)
      /\ ~ Alive(profile.active.life)
      /\ l \notin beside' => NoArchive(queue) /\ ~ Leaving'
      /\ online => creds' # 0
  BY DEF Born
<1>2. queue \in Seq(Writes) /\ QueueFine(queue, profile.active.life) /\ PageFine
  BY DEF Inv, TypeOK
<1>3. w \in Writes /\ LifeOf(w) = l /\ w.op = "save"
  BY <1>1, SaveType DEF LifeOf
\* What was owed before is not the page's, so nothing was.
<1>4. \A k : OnShelf(k)' <=> OnShelf(k)
  BY <1>1 DEF OnShelf
<1>5. /\ ~ Alive(stored.active.life)'
      /\ \A n \in DOMAIN queue : ~ (LifeOf(queue[n]) # 0 /\ LifeOf(queue[n]) \notin beside'
                                    /\ ~ OnShelf(LifeOf(queue[n])))
  <2>1. \A k : k # 0 /\ k \notin beside' /\ ~ OnShelf(k) => Alive(k)
    BY <1>1 DEF Alive
  <2>2. ~ Alive(stored.active.life)
    BY <1>1, <1>2 DEF PageFine
  <2>3. \A n \in DOMAIN queue : ~ Alive(LifeOf(queue[n]))
    BY <1>1, <1>2 DEF QueueFine, Carries
  <2>4. ~ Alive(stored.active.life)'
    BY <1>1, <1>4, <2>1, <2>2 DEF Alive
  <2> QED
    BY <2>1, <2>3, <2>4
<1>6. /\ \A n \in DOMAIN queue' : n \in DOMAIN queue \/ queue'[n] = w
      /\ \A n \in DOMAIN queue : queue'[n] = queue[n]
      /\ \A m, n \in DOMAIN queue' : m < n => m \in DOMAIN queue
  <2>1. /\ DOMAIN queue = 1 .. Len(queue) /\ Len(queue) \in Nat
        /\ DOMAIN queue' = 1 .. Len(queue) + 1
        /\ \A n \in DOMAIN queue : queue'[n] = queue[n]
        /\ queue'[Len(queue) + 1] = w
    <3> HIDE DEF w
    <3> QED
      BY <1>1, <1>2, <1>3
  <2> HIDE DEF w
  <2> QED
    BY <2>1
<1>7. Backed(profile', {}) /\ Backed(profile, {})' /\ Backed(stored, {})'
  BY <1>1, <1>4 DEF Inv, Backed
<1>8. WriteFine(w)
  BY <1>1, <1>3, <1>7 DEF WriteFine
<1>9. \A n \in DOMAIN queue' : WriteFine(queue[n])'
  <2>1. \A n \in DOMAIN queue' : WriteFine(queue'[n])
    BY <1>2, <1>6, <1>8 DEF QueueFine
  <2> QED
    BY <1>4, <2>1 DEF WriteFine, LifeOf, Backed
<1>10. \A n \in DOMAIN queue' : queue'[n] = w \/ (n \in DOMAIN queue /\ ~ Alive(LifeOf(queue[n]))')
  BY <1>4, <1>5, <1>6 DEF Alive, LifeOf
<1>11. Carries(queue, profile.active.life)'
  <2>1. \A n \in DOMAIN queue' : Alive(LifeOf(queue[n]))' => LifeOf(queue'[n]) = l
    BY <1>3, <1>10
  <2>2. \A m, n \in DOMAIN queue' : m < n => ~ Alive(LifeOf(queue[m]))'
    BY <1>4, <1>5, <1>6 DEF Alive, LifeOf
  <2>3. ASSUME NEW n \in DOMAIN queue', queue'[n].op = "finalize", l \notin beside'
        PROVE  FALSE
    BY <1>1, <1>3, <1>6, <2>3 DEF NoArchive
  <2>4. Alive(profile.active.life)' => l \notin beside'
    BY DEF Alive
  <2> QED
    BY <1>5, <2>1, <2>2, <2>3, <2>4 DEF Carries, LifeOf
<1>12. PageFine'
  BY <1>1, <1>5 DEF PageFine, Alive
<1>13. OneRecordEach'
  BY <1>1 DEF Inv, OneRecordEach
<1> QED
  BY <1>7, <1>9, <1>11, <1>12, <1>13 DEF Inv, QueueFine

LEMMA InvLoaded ==
  ASSUME Inv, TypeOK', online' = online, Loaded
  PROVE  Inv'
<1>1. /\ UNCHANGED <<stored, shelf, beside>> /\ profile' = stored /\ queue' = <<>>
      /\ clearing' = Nobody /\ starting' = 0
      /\ online /\ creds' = 0 => ~ Alive(stored.active.life)
  BY DEF Loaded, FreshPage
<1>2. QueueFine(queue, profile.active.life)'
  BY <1>1 DEF QueueFine, Carries
<1>3. Backed(profile, {})'
  BY <1>1, SameLives DEF Inv
<1>4. ~ Leaving'
  BY <1>1 DEF Leaving, Nobody, Followers
<1>5. PageFine'
  BY <1>1, <1>4, SameLives DEF PageFine
<1> QED
  BY <1>1, <1>2, <1>3, <1>5, SameLives DEF Inv

LEMMA InvFails ==
  ASSUME Inv, TypeOK', online' = online, WriteFails
  PROVE  Inv'
<1>1. /\ UNCHANGED <<stored, shelf, beside, profile, creds, clearing, starting>>
      /\ queue # <<>> /\ queue' = Tail(queue)
  BY DEF WriteFails, StopsAfterFailure, disk
<1>2. QueueFine(queue', profile.active.life)
  BY <1>1, QueueTail DEF Inv, TypeOK
<1>3. QueueFine(queue, profile.active.life)'
  BY <1>1, <1>2, SameLives
<1>4. Backed(profile, {})'
  BY <1>1, SameLives DEF Inv
<1>5. PageFine'
  BY <1>1, SameLives DEF Inv, PageFine, Leaving
<1> QED
  BY <1>1, <1>3, <1>4, <1>5, SameLives DEF Inv

LEMMA InvSaved ==
  ASSUME Inv, TypeOK', online' = online, SaveDone
  PROVE  Inv'
<1> DEFINE w == queue[1]
           l == profile.active.life
<1>1. /\ UNCHANGED <<shelf, beside, profile, creds, clearing, starting>>
      /\ queue \in Seq(Writes) /\ queue # <<>> /\ queue' = Tail(queue)
      /\ w.op = "save" /\ stored' = w.profile
  BY DEF SaveDone, Inv, TypeOK
<1>2. /\ 1 \in DOMAIN queue
      /\ \A n \in DOMAIN queue' : /\ 1 < n + 1 /\ n + 1 \in DOMAIN queue
                                 /\ queue'[n] = queue[n + 1]
  BY <1>1, TailWrites
<1>3. QueueFine(queue, l) /\ PageFine
  BY DEF Inv
<1>4. WriteFine(w) /\ LifeOf(w) = stored'.active.life
  BY <1>1, <1>2, <1>3 DEF QueueFine, LifeOf
<1>5. \A k : OnShelf(k)' <=> OnShelf(k)
  BY <1>1 DEF OnShelf
<1>6. \A k : Alive(k)' <=> Alive(k)
  BY <1>1, <1>5 DEF Alive
<1>7. Backed(stored, {})' /\ Backed(profile, {})'
  BY <1>1, <1>4, <1>5 DEF WriteFine, Inv, Backed
<1>8. QueueFine(queue, profile.active.life)'
  <2>1. QueueFine(queue', l)
    BY <1>1, <1>3, QueueTail
  <2>2. \A n \in DOMAIN queue' : WriteFine(queue[n])'
    BY <1>1, <2>1 DEF QueueFine, WriteFine, LifeOf, Backed, OnShelf
  <2>3. Carries(queue, profile.active.life)'
    <3>1. Carries(queue, l) /\ Carries(queue', l)
      BY <1>3, <2>1 DEF QueueFine
    <3>2. \A n \in DOMAIN queue' :
            queue'[n].op = "save" /\ Alive(stored'.active.life) => LifeOf(queue'[n]) = l
      <4> SUFFICES ASSUME NEW n \in DOMAIN queue', queue'[n].op = "save",
                          Alive(stored'.active.life)
                   PROVE  LifeOf(queue'[n]) = l
        OBVIOUS
      <4>1. /\ n + 1 \in DOMAIN queue /\ queue[n + 1].op = "save" /\ 1 < n + 1
            /\ queue'[n] = queue[n + 1]
        BY <1>2
      <4>2. \A i, j \in DOMAIN queue :
              queue[i].op = "save" /\ j < i /\ queue[j].op = "save" /\ Alive(LifeOf(queue[j]))
                => LifeOf(queue[i]) = l
        BY <3>1 DEF Carries
      <4> QED
        BY <1>1, <1>2, <1>4, <4>1, <4>2
    <3> QED
      BY <1>1, <1>6, <3>1, <3>2 DEF Carries, LifeOf
  <2> QED
    BY <2>2, <2>3 DEF QueueFine
<1>9. PageFine'
  <2>1. Alive(stored'.active.life) => stored'.active.life = l
    BY <1>2, <1>3, <1>4 DEF QueueFine, Carries
  <2> QED
    BY <1>1, <1>3, <1>6, <2>1 DEF PageFine, Leaving
<1> QED
  BY <1>1, <1>7, <1>8, <1>9 DEF Inv, OneRecordEach

LEMMA InvFinalized ==
  ASSUME Inv, TypeOK', online' = online, FinalizeDone
  PROVE  Inv'
<1> DEFINE w == queue[1]
           l == profile.active.life
<1>1. /\ queue \in Seq(Writes) /\ queue # <<>> /\ queue' = Tail(queue)
      /\ w \in FinalWrites /\ w.op = "finalize"
      /\ ~ OnShelf(w.record.life) /\ shelf' = shelf \cup {w.record}
      /\ stored' = w.profile /\ profile' = w.profile
      /\ UNCHANGED beside
  BY HeadType DEF FinalizeDone, AddToShelf, Inv, TypeOK
<1>2. /\ 1 \in DOMAIN queue
      /\ \A n \in DOMAIN queue' : n + 1 \in DOMAIN queue /\ queue'[n] = queue[n + 1]
  BY <1>1, TailWrites
<1>3. QueueFine(queue, l) /\ PageFine
  BY DEF Inv
<1>4. WriteFine(w) /\ LifeOf(w) = w.record.life /\ w.profile.active.life = 0
  BY <1>1, <1>2, <1>3 DEF QueueFine, LifeOf, WriteFine
<1>5. \A k : OnShelf(k)' <=> OnShelf(k) \/ k = w.record.life
  BY <1>1 DEF OnShelf
<1>6. Backed(stored, {})' /\ Backed(profile, {})'
  BY <1>1, <1>4, <1>5 DEF WriteFine, Backed
<1>7. OneRecordEach'
  BY <1>1 DEF Inv, OneRecordEach, OnShelf
<1>9. \A n \in DOMAIN queue' : WriteFine(queue[n])'
  <2>1. \A n \in DOMAIN queue' : WriteFine(queue'[n])
    BY <1>2, <1>3 DEF QueueFine
  <2> QED
    BY <1>5, <2>1 DEF WriteFine, LifeOf, Backed
<1>10. ASSUME NEW n \in DOMAIN queue'
       PROVE  ~ Alive(LifeOf(queue[n]))'
  <2>1. Alive(LifeOf(queue[n + 1])) => LifeOf(queue[n + 1]) = l
    BY <1>2, <1>3 DEF QueueFine, Carries
  <2>2. Alive(l) => w.record.life = l
    BY <1>1, <1>2, <1>3, <1>4 DEF QueueFine, Carries
  <2>3. LifeOf(queue[n])' = LifeOf(queue[n + 1])
    BY <1>2 DEF LifeOf
  <2> QED
    BY <1>1, <1>5, <2>1, <2>2, <2>3 DEF Alive
<1>11. ~ Alive(stored.active.life)' /\ profile'.active.life = 0
  BY <1>1, <1>4 DEF Alive
<1>12. QueueFine(queue, profile.active.life)'
  BY <1>1, <1>9, <1>10, <1>11 DEF QueueFine, Carries
<1>13. PageFine'
  BY <1>11 DEF PageFine, Alive
<1> QED
  BY <1>6, <1>7, <1>12, <1>13 DEF Inv

LEMMA InvStep == Inv /\ [Next]_vars => Inv'
<1>1. CASE Inv /\ Next
  <2>1. TypeOK' /\ online' = online
    BY <1>1, TypeStep DEF Inv, Next
  <2> QED
    BY <1>1, <2>1, Effect, InvSaved, InvFinalized, InvFails, InvLoaded, InvBorn, InvLived
<1>2. CASE Inv /\ UNCHANGED vars
  <2>1. UNCHANGED <<online, stored, shelf, saved, creds, server, profile, engine, screen,
                    queue, telling, clearing, starting, games, lives, beside>>
    BY <1>2 DEF vars, disk, page
  <2> QED
    BY <1>2, <2>1 DEF Inv, TypeOK, OneRecordEach, Backed, OnShelf, QueueFine,
                      WriteFine, LifeOf, Carries, Alive, PageFine, Leaving
<1> QED
  BY <1>1, <1>2

\* The invariant holds in every state.
THEOREM Invariance == Spec => []Inv
  BY InitInv, InvStep, PTL DEF Spec

-----------------------------------------------------------------------------
(* What the profile promises. *)

\* Every variable of the page and of its stores keeps its type: what is queued
\* in profileWrites is a save or a finalized life.
THEOREM TypeCorrect == Spec => []TypeOK
  BY Invariance, PTL DEF Inv

\* The summaries of the profile on disk never run ahead of the archive: the two
\* are written by the one transaction of finalizeLife().
THEOREM ArchiveBacksProfile == Spec => []SummariesAreBacked
<1>1. Inv => SummariesAreBacked
  BY DEF Inv, Backed, SummariesAreBacked
<1> QED
  BY <1>1, Invariance, PTL

\* Once a life is on the archive's shelf nothing changes it or takes it away:
\* add() refuses the second record of a life.
THEOREM ShelfKeeps == Spec => ShelfIsImmutable
<1>1. ASSUME Inv, Inv', [Next]_vars
      PROVE  shelf \subseteq shelf' /\ \A r, q \in shelf' : r.life = q.life => r = q
  <2>1. shelf \subseteq shelf'
    <3>1. CASE UNCHANGED vars
      BY <3>1 DEF vars, disk
    <3>2. CASE Next
      BY <1>1, <3>2, Effect DEF SaveDone, FinalizeDone, AddToShelf, WriteFails, disk, Loaded,
                                Born, Lived
    <3> QED
      BY <1>1, <3>1, <3>2
  <2> QED
    BY <1>1, <2>1 DEF Inv, OneRecordEach
<1> QED
  BY <1>1, Invariance, PTL DEF Spec, ShelfIsImmutable

\* A life that reached IndexedDB is replaced there only once the archive has it,
\* however saves, archives, failures, reloads, slow runs and new lives interleave,
\* unless it was begun while another was being begun or left.
THEOREM LivesSurvive == Spec => StoredLifeSurvives
<1>1. ASSUME Inv, [Next]_vars, stored.active.life # 0,
             stored'.active.life # stored.active.life, stored.active.life \notin beside
      PROVE  \E r \in shelf' : r.life = stored.active.life
  <2> DEFINE l == stored.active.life
             w == queue[1]
  <2>1. SaveDone \/ FinalizeDone
    <3>1. ~ UNCHANGED stored
      BY <1>1
    <3>2. Next
      BY <1>1, <3>1 DEF vars, disk
    <3> QED
      BY <1>1, <3>1, <3>2, Effect DEF WriteFails, disk, Loaded, Born, Lived
  <2>2. /\ queue \in Seq(Writes) /\ queue # <<>> /\ 1 \in DOMAIN queue /\ Head(queue) = w
        /\ Carries(queue, profile.active.life) /\ WriteFine(w)
        /\ Alive(l) => l = profile.active.life
    <3>1. queue \in Seq(Writes) /\ queue # <<>>
      BY <1>1, <2>1 DEF Inv, TypeOK, SaveDone, FinalizeDone
    <3>2. 1 \in DOMAIN queue /\ Head(queue) = w
      BY <3>1, TailWrites
    <3> QED
      BY <1>1, <3>1, <3>2 DEF Inv, QueueFine, PageFine
  <2>3. CASE SaveDone
    <3>1. w.op = "save" /\ stored' = w.profile /\ shelf' = shelf
      BY <2>2, <2>3 DEF SaveDone
    <3>2. Alive(l) => LifeOf(w) = l
      BY <2>2, <3>1 DEF Carries
    <3>3. ~ Alive(l)
      BY <1>1, <3>1, <3>2 DEF LifeOf
    <3> QED
      BY <1>1, <3>1, <3>3 DEF Alive, OnShelf
  <2>4. CASE FinalizeDone
    <3>1. w.op = "finalize" /\ shelf' = shelf \cup {w.record}
      BY <2>2, <2>4 DEF FinalizeDone, AddToShelf
    <3>2. Alive(l) => LifeOf(w) = l
      BY <2>2, <3>1 DEF Carries
    <3>3. OnShelf(l) \/ l = w.record.life
      BY <1>1, <3>1, <3>2 DEF Alive, LifeOf
    <3> QED
      BY <3>1, <3>3 DEF OnShelf
  <2> QED
    BY <2>1, <2>3, <2>4
<1>2. Inv /\ [Next]_vars
        => [LET l == stored.active.life IN
              l # 0 /\ stored'.active.life # l
                => l \in beside \/ \E r \in shelf' : r.life = l]_vars
  BY <1>1
<1> QED
  BY <1>2, Invariance, PTL DEF Spec, StoredLifeSurvives
=============================================================================
