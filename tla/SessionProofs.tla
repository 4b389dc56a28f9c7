--------------------------- MODULE SessionProofs ----------------------------
(***************************************************************************)
(* RunSession for any number of tabs, attempts, turns and deliveries: an   *)
(* attempt is played once, on the state its player saw, is answered with   *)
(* its own state however often it is asked, and no tab shows a turn that   *)
(* the stored life does not have; the rate is kept, the retention set and  *)
(* no recorded line lost.                                                  *)
(*                                                                         *)
(* The life is what the handler under the gate will write back, or else    *)
(* what is stored.  The strengthening: every state that a tab, an answer   *)
(* or the log of answers holds is a stage of this life, and the log holds  *)
(* each turn with its own stage.                                           *)
(***************************************************************************)
EXTENDS RunSession, SequenceTheorems, FiniteSetTheorems, TLAPS

Views == [rev : Nat, turns : Seq(Attempts), over : BOOLEAN]

Runs ==
  [view : Views, answers : Seq([id : Attempts, view : Views]), fresh : Nat,
   spoken : Seq(Events)]

Before(s, t) == Len(s) <= Len(t) /\ \A i \in 1 .. Len(s) : s[i] = t[i]

GoodView(v) == v \in Views /\ v.rev = Len(v.turns)

\* v is an earlier stage of w, or w itself.
PastOf(v, w) ==
  /\ Before(v.turns, w.turns)
  /\ Len(v.turns) = Len(w.turns) => v.over = w.over

Distinct(turns) == \A i, j \in 1 .. Len(turns) : turns[i] = turns[j] => i = j

\* The log has every turn, in order, each with the stage it led to.
Logged(r) ==
  /\ Len(r.answers) = Len(r.view.turns)
  /\ \A i \in 1 .. Len(r.view.turns) :
       /\ r.answers[i].id = r.view.turns[i]
       /\ GoodView(r.answers[i].view)
       /\ Len(r.answers[i].view.turns) = i
       /\ PastOf(r.answers[i].view, r.view)

GoodRun(r) ==
  /\ r \in Runs
  /\ GoodView(r.view)
  /\ Len(r.view.turns) < TurnLimit \/ r.view.over
  /\ Len(r.view.turns) <= TurnLimit
  /\ Distinct(r.view.turns)
  /\ Logged(r)

-----------------------------------------------------------------------------
(* One more turn. *)

\* A log within its limit is not trimmed.
LEMMA NothingForgotten ==
  ASSUME NEW S, NEW s \in Seq(S), Len(s) <= MaxIdempotency
  PROVE  Remember(s) = s
<1>1. MaxIdempotency \in Nat
  BY LifeFitsAssumption
<1>2. Len(s) \in Nat /\ ~ (Len(s) > MaxIdempotency)
  BY <1>1
<1>3. LastOf(s, MaxIdempotency) = SubSeq(s, 1, Len(s))
  BY <1>2 DEF LastOf
<1> QED
  BY <1>3, SubSeqFull DEF Remember

\* The run after a new turn: its log is complete, its turns are distinct, and
\* the life before it is its past.
LEMMA PlayedIsGood ==
  ASSUME NEW r, GoodRun(r), ~ r.view.over, NEW id \in Attempts,
         NEW over \in BOOLEAN, NEW j, j.run = r, j.m.id = id,
         \A i \in 1 .. Len(r.answers) : r.answers[i].id # id
  PROVE  /\ GoodRun(Played(j, over))
         /\ Played(j, over).view.turns = Append(r.view.turns, id)
         /\ \A v : GoodView(v) /\ PastOf(v, r.view) => PastOf(v, Played(j, over).view)
<1> DEFINE turns == Append(r.view.turns, id)
           n == Len(r.view.turns)
           after == [rev |-> r.view.rev + 1, turns |-> turns, over |-> over \/ Len(turns) >= TurnLimit]
           answers == Append(r.answers, [id |-> id, view |-> after])
           p == Played(j, over)
<1>1. /\ r \in Runs /\ r.view \in Views /\ r.view.turns \in Seq(Attempts)
      /\ r.answers \in Seq([id : Attempts, view : Views]) /\ n \in Nat
      /\ r.view.rev = n /\ Len(r.answers) = n
  BY DEF GoodRun, GoodView, Logged, Runs, Views
<1>2. TurnLimit \in Nat /\ MaxIdempotency \in Nat /\ MaxIdempotency >= TurnLimit
  BY LifeFitsAssumption
<1>3. n < TurnLimit
  BY DEF GoodRun
<1>4. /\ turns \in Seq(Attempts) /\ Len(turns) = n + 1 /\ turns[n + 1] = id
      /\ \A i \in 1 .. n : turns[i] = r.view.turns[i]
  BY <1>1, AppendProperties
<1>5. after \in Views /\ GoodView(after)
  BY <1>1, <1>4 DEF Views, GoodView
<1>6. /\ answers \in Seq([id : Attempts, view : Views]) /\ Len(answers) = n + 1
      /\ answers[n + 1] = [id |-> id, view |-> after]
      /\ \A i \in 1 .. n : answers[i] = r.answers[i]
  BY <1>1, <1>5, AppendProperties
<1>7. p = [r EXCEPT !.view = after, !.answers = answers]
  <2>1. p = [r EXCEPT !.view = after, !.answers = Remember(answers)]
    BY DEF Played
  <2> HIDE DEF answers
  <2>2. Remember(answers) = answers
    BY <1>2, <1>3, <1>6, NothingForgotten
  <2> QED
    BY <2>1, <2>2
<1>8. after.turns = turns /\ after.over = (over \/ Len(turns) >= TurnLimit)
  OBVIOUS
<1> HIDE DEF turns, after, answers, p
<1>9. p \in Runs /\ p.view = after /\ p.answers = answers
  BY <1>1, <1>5, <1>6, <1>7 DEF Runs
<1>10. \A v : GoodView(v) /\ PastOf(v, r.view) => PastOf(v, after)
  <2> SUFFICES ASSUME NEW v, GoodView(v), PastOf(v, r.view)
               PROVE  PastOf(v, after)
    OBVIOUS
  <2>1. v.turns \in Seq(Attempts) /\ Len(v.turns) \in Nat /\ Len(v.turns) <= n
    BY DEF GoodView, Views, PastOf, Before
  <2> QED
    BY <1>1, <1>4, <1>8, <2>1 DEF PastOf, Before
<1>11. Distinct(turns)
  <2>1. \A i \in 1 .. n : r.view.turns[i] # id
    BY <1>1 DEF GoodRun, Logged
  <2>2. \A i, k \in 1 .. n : r.view.turns[i] = r.view.turns[k] => i = k
    BY DEF GoodRun, Distinct
  <2>3. \A i \in 1 .. Len(turns) : i \in 1 .. n \/ i = n + 1
    BY <1>1, <1>4
  <2> QED
    BY <1>4, <2>1, <2>2, <2>3 DEF Distinct
<1>12. Logged(p)
  <2>1. \A i \in 1 .. n : /\ r.answers[i].id = r.view.turns[i]
                          /\ GoodView(r.answers[i].view)
                          /\ Len(r.answers[i].view.turns) = i
                          /\ PastOf(r.answers[i].view, r.view)
    BY DEF GoodRun, Logged
  <2>2. ASSUME NEW i \in 1 .. Len(turns)
        PROVE  /\ answers[i].id = turns[i]
               /\ GoodView(answers[i].view)
               /\ Len(answers[i].view.turns) = i
               /\ PastOf(answers[i].view, after)
    <3>1. CASE i \in 1 .. n
      BY <1>4, <1>6, <1>10, <2>1, <3>1
    <3>2. CASE i = n + 1
      BY <1>4, <1>5, <1>6, <1>8, <3>2 DEF PastOf, Before
    <3> QED
      BY <1>1, <1>4, <3>1, <3>2
  <2> QED
    BY <1>4, <1>6, <1>8, <1>9, <2>2 DEF Logged
<1>13. GoodRun(p)
  <2>1. Len(turns) \in Nat /\ Len(turns) <= TurnLimit
    BY <1>1, <1>2, <1>3, <1>4
  <2>2. Len(turns) >= TurnLimit \/ Len(turns) < TurnLimit
    BY <1>2, <2>1
  <2>3. Len(turns) <= TurnLimit /\ (Len(turns) < TurnLimit \/ after.over)
    BY <1>8, <2>1, <2>2
  <2> QED
    BY <1>5, <1>8, <1>9, <1>11, <1>12, <2>3 DEF GoodRun
<1> QED
  BY <1>8, <1>9, <1>10, <1>13 DEF p, turns

-----------------------------------------------------------------------------
(* The inductive invariant. *)

\* v is a stage of the life, as long as there is one.
ShownIn(v, alive, life) == GoodView(v) /\ (alive => PastOf(v, life))

Shown(v) == ShownIn(v, Alive, LifeView)

Requests ==
  [op : {"load", "attempt", "delete"}, from : Tabs, id : Events, expected : Nat]

\* An attempt says the revision of the state it was made on.
AsMade(m) ==
  /\ m \in Requests
  /\ m.op = "attempt" =>
       m.id \in Attempts /\ basis[m.id] # NoView /\ m.expected = basis[m.id].rev
  /\ m.op # "attempt" => m.id = None

\* The attempt was found to be new, on the very state it was made on.
FoundPlayable(j) ==
  /\ Prior(j) = {}
  /\ j.m.expected = j.run.view.rev
  /\ ~ j.run.view.over

Jobs == [pc : {"parsing", "proposing"}, m : Requests, run : Runs]

RunIsGood == run = NoRun \/ GoodRun(run)

JobIsGood ==
  job # NoJob =>
    /\ job \in Jobs
    /\ job.m.op = "attempt" /\ AsMade(job.m)
    /\ GoodRun(job.run)
    /\ Stored => run.view = job.run.view
    /\ job.pc = "proposing" => FoundPlayable(job)

RequestsAreMade == \A m \in requests : AsMade(m)

Answers ==
  [to : Tabs, id : Events, status : {"ok", "conflict", "failed"},
   view : Views \cup {NoView}]

IsAnswer(r, alive, life) ==
  /\ r \in Answers
  /\ r.status # "failed" => ShownIn(r.view, alive, life)
  /\ r.status = "ok" /\ r.id # None =>
       Len(r.view.turns) > 0 /\ Last(r.view.turns) = r.id

ResponsesAreAnswers == \A r \in responses : IsAnswer(r, Alive, LifeView)

TabsAreShown == view \in [Tabs -> Views] /\ \A t \in Tabs : Shown(view[t])

BasisIsShown ==
  /\ basis \in [Attempts -> Views \cup {NoView}]
  /\ \A id \in Attempts :
       basis[id] = NoView \/ (Shown(basis[id]) /\ ~ basis[id].over)

\* Each turn was made on the turns before it.
Seen(turns, made) ==
  \A i \in 1 .. Len(turns) :
    /\ made[turns[i]] # NoView
    /\ Len(made[turns[i]].turns) = i - 1
    /\ Before(made[turns[i]].turns, turns)

TurnsAreSeen == Alive => Seen(LifeView.turns, basis)

DeletedIsGone == deleted => ~ Alive /\ created # "no"

UnbornIsNew ==
  created = "no" =>
    /\ ~ Alive
    /\ requests = {} /\ responses = {}
    /\ screen = [t \in Tabs |-> "title"]
    /\ view = [t \in Tabs |-> NewView]
    /\ basis = [id \in Attempts |-> NoView]

IInv ==
  /\ recent \in Nat
  /\ screen \in [Tabs -> {"title", "playing", "gone"}]
  /\ RunIsGood /\ JobIsGood
  /\ RequestsAreMade /\ ResponsesAreAnswers
  /\ TabsAreShown /\ BasisIsShown
  /\ TurnsAreSeen
  /\ DeletedIsGone /\ UnbornIsNew

-----------------------------------------------------------------------------
(* Facts about the parts. *)

LEMMA NewIsGood ==
  /\ NewView \in Views /\ GoodView(NewView)
  /\ NoView \notin Views
  /\ GoodRun(NewRun) /\ NewRun # NoRun
  /\ \A r : GoodRun(r) => r # NoRun /\ r \in Runs /\ r.view \in Views
<1>1. NewView \in Views /\ GoodView(NewView)
  BY DEF NewView, Views, GoodView
<1>2. NoView \notin Views
  BY DEF NoView, Views
<1>3. \A r : GoodRun(r) => r # NoRun /\ r \in Runs /\ r.view \in Views
  BY <1>2 DEF GoodRun, GoodView, NoRun
<1>4. GoodRun(NewRun)
  <2>1. NewRun \in Runs /\ NewRun.view = NewView
    BY <1>1 DEF NewRun, Runs
  <2>2. Distinct(NewRun.view.turns) /\ Logged(NewRun)
    BY DEF NewRun, NewView, Distinct, Logged
  <2>3. Len(NewRun.view.turns) = 0
    BY DEF NewRun, NewView
  <2>4. TurnLimit \in Nat /\ 0 < TurnLimit
    BY LifeFitsAssumption
  <2> QED
    BY <1>1, <2>1, <2>2, <2>3, <2>4 DEF GoodRun
<1> QED
  BY <1>1, <1>2, <1>3, <1>4

\* A state is a stage of itself.
LEMMA PastOfItself == ASSUME NEW v PROVE PastOf(v, v)
  BY DEF PastOf, Before

\* What was a stage stays one as long as the life is no other.
LEMMA SameLife ==
  ASSUME Alive' => Alive /\ LifeView' = LifeView
  PROVE  /\ \A v : Shown(v) => ShownIn(v, Alive', LifeView')
         /\ \A r : IsAnswer(r, Alive, LifeView) => IsAnswer(r, Alive', LifeView')
  BY DEF Shown, ShownIn, IsAnswer

\* ... and when it goes on.
LEMMA LongerLife ==
  ASSUME Alive, \A v : GoodView(v) /\ PastOf(v, LifeView) => PastOf(v, LifeView')
  PROVE  /\ \A v : Shown(v) => ShownIn(v, Alive', LifeView')
         /\ \A r : IsAnswer(r, Alive, LifeView) => IsAnswer(r, Alive', LifeView')
  BY DEF Shown, ShownIn, IsAnswer

\* A stamp that leaves its window changes nothing else.
LEMMA AgedIsGood ==
  ASSUME NEW r, GoodRun(r), NEW n \in Nat
  PROVE  /\ GoodRun(Aged(r, n)) /\ Aged(r, n) \in Runs
         /\ Aged(r, n).view = r.view /\ Aged(r, n).answers = r.answers
<1>1. r \in Runs /\ r.fresh \in Nat
  BY DEF GoodRun, Runs
<1>2. /\ Aged(r, n) \in Runs
      /\ Aged(r, n).view = r.view /\ Aged(r, n).answers = r.answers
  BY <1>1 DEF Aged, Runs
<1> QED
  BY <1>2 DEF GoodRun, Logged

\* An answer goes to the tab that waits for it, or nowhere.
LEMMA ReplyIsAnswer ==
  ASSUME NEW m \in Requests, NEW status, NEW v, NEW alive, NEW life,
         Reply(m, status, v),
         IsAnswer([to |-> m.from, id |-> m.id, status |-> status, view |-> v], alive, life),
         \A r \in responses : IsAnswer(r, alive, life)
  PROVE  \A r \in responses' : IsAnswer(r, alive, life)
  BY DEF Reply

-----------------------------------------------------------------------------
(* Steps that leave the life as it is, or end it. *)

\* A step of the object.
LEMMA ObjectSame ==
  ASSUME IInv, UNCHANGED tabs,
         recent' \in Nat, requests' \subseteq requests, RunIsGood', JobIsGood',
         Alive' => Alive /\ LifeView' = LifeView,
         deleted' => deleted \/ (Alive /\ ~ Alive'),
         \A r \in responses' : IsAnswer(r, Alive, LifeView),
         created # "no" \/ responses' = responses
  PROVE  IInv'
<1>1. /\ created' = created /\ screen' = screen
      /\ view' = view /\ basis' = basis
  BY DEF tabs
<1>2. RequestsAreMade'
  BY <1>1 DEF IInv, RequestsAreMade, AsMade
<1>3. ResponsesAreAnswers'
  <2>1. \A r \in responses' : IsAnswer(r, Alive', LifeView')
    BY SameLife
  <2> QED
    BY <2>1 DEF ResponsesAreAnswers
<1>4. TabsAreShown'
  <2>1. \A t \in Tabs : ShownIn(view[t], Alive', LifeView')
    BY SameLife DEF IInv, TabsAreShown
  <2> QED
    BY <1>1, <2>1 DEF IInv, TabsAreShown, Shown
<1>5. BasisIsShown'
  <2>1. \A id \in Attempts :
          basis[id] = NoView \/ (ShownIn(basis[id], Alive', LifeView') /\ ~ basis[id].over)
    BY SameLife DEF IInv, BasisIsShown
  <2> QED
    BY <1>1, <2>1 DEF IInv, BasisIsShown, Shown
<1>6. TurnsAreSeen'
  BY <1>1 DEF IInv, TurnsAreSeen
<1>7. DeletedIsGone' /\ UnbornIsNew'
  BY <1>1 DEF IInv, DeletedIsGone, UnbornIsNew
<1> QED
  BY <1>1, <1>2, <1>3, <1>4, <1>5, <1>6, <1>7 DEF IInv

\* A step of a tab that makes no attempt.
LEMMA TabSame ==
  ASSUME IInv, UNCHANGED <<object, witness, created, basis>>,
         \A m \in requests' : m \in requests \/ AsMade(m),
         responses' \subseteq responses,
         screen' \in [Tabs -> {"title", "playing", "gone"}],
         view' \in [Tabs -> Views],
         \A t \in Tabs : Shown(view'[t]),
         created # "no" \/ (requests' = requests /\ screen' = screen /\ view' = view)
  PROVE  IInv'
<1>1. /\ run' = run /\ job' = job /\ recent' = recent /\ deleted' = deleted
      /\ created' = created /\ basis' = basis
  BY DEF object, witness
<1>2. Alive' = Alive /\ LifeView' = LifeView
  BY <1>1 DEF Alive, LifeView, Stored
<1>3. RunIsGood' /\ JobIsGood'
  BY <1>1 DEF IInv, RunIsGood, JobIsGood, AsMade, FoundPlayable, Prior, Stored
<1>4. RequestsAreMade'
  BY <1>1 DEF IInv, RequestsAreMade, AsMade
<1>5. ResponsesAreAnswers'
  BY <1>2 DEF IInv, ResponsesAreAnswers
<1>6. TabsAreShown'
  BY <1>2 DEF IInv, TabsAreShown, Shown
<1>7. BasisIsShown'
  BY <1>1, <1>2 DEF IInv, BasisIsShown, Shown
<1>8. TurnsAreSeen'
  BY <1>1, <1>2 DEF IInv, TurnsAreSeen
<1>9. DeletedIsGone' /\ UnbornIsNew'
  BY <1>1, <1>2 DEF IInv, DeletedIsGone, UnbornIsNew
<1> QED
  BY <1>1, <1>3, <1>4, <1>5, <1>6, <1>7, <1>8, <1>9 DEF IInv

-----------------------------------------------------------------------------
(* The steps of the object. *)

\* What is known of the handler that holds the gate.
LEMMA JobFacts ==
  ASSUME IInv, job.pc \in {"parsing", "proposing"}
  PROVE  /\ job # NoJob /\ job \in Jobs /\ job.m \in Requests /\ AsMade(job.m)
         /\ job.m.id \in Attempts /\ job.m.id # None
         /\ GoodRun(job.run) /\ Alive /\ LifeView = job.run.view
         /\ created # "no" /\ ~ deleted
<1>1. job # NoJob
  BY DEF NoJob
<1>2. Alive /\ LifeView = job.run.view
  BY <1>1 DEF Alive, LifeView
<1> QED
  BY <1>1, <1>2, NoneIsNoAttempt
     DEF IInv, JobIsGood, AsMade, DeletedIsGone, UnbornIsNew

LEMMA GetKeeps ==
  ASSUME IInv, UNCHANGED tabs, NEW m \in requests, Get(m)
  PROVE  IInv'
<1>1. /\ run' = run /\ job' = job /\ recent' = recent /\ deleted' = deleted
      /\ created' = created /\ basis' = basis /\ requests' \subseteq requests
      /\ m.op = "load" /\ job = NoJob
  BY DEF Get, object, witness, tabs, GateFree
<1>2. (Alive' => Alive) /\ LifeView' = LifeView
  BY <1>1 DEF Alive, LifeView, Stored
<1>3. RunIsGood' /\ JobIsGood'
  BY <1>1 DEF IInv, RunIsGood, JobIsGood
<1>4. created # "no" \/ responses' = responses
  BY DEF IInv, UnbornIsNew
<1>5. AsMade(m) /\ m \in Requests /\ m.id = None /\ m.from \in Tabs
  BY <1>1 DEF IInv, RequestsAreMade, AsMade, Requests
<1>6. None \in Events
  BY DEF Events
<1>7. \A r \in responses' : IsAnswer(r, Alive, LifeView)
  <2>1. \A r \in responses : IsAnswer(r, Alive, LifeView)
    BY DEF IInv, ResponsesAreAnswers
  <2>2. CASE Stored
    <3>1. GoodRun(run) /\ GoodView(run.view) /\ LifeView = run.view
      BY <1>1, <2>2 DEF IInv, RunIsGood, Stored, GoodRun, LifeView
    <3>2. IsAnswer([to |-> m.from, id |-> m.id, status |-> "ok", view |-> run.view], Alive, LifeView)
      BY <1>5, <1>6, <3>1, PastOfItself, NewIsGood DEF IsAnswer, Answers, ShownIn
    <3>3. Reply(m, "ok", run.view)
      BY <2>2 DEF Get
    <3> QED
      BY <1>5, <2>1, <3>2, <3>3, ReplyIsAnswer
  <2>3. CASE ~ Stored
    <3>1. IsAnswer([to |-> m.from, id |-> m.id, status |-> "failed", view |-> NoView], Alive, LifeView)
      BY <1>5, <1>6 DEF IsAnswer, Answers
    <3>2. Reply(m, "failed", NoView)
      BY <2>3 DEF Get
    <3> QED
      BY <1>5, <2>1, <3>1, <3>2, ReplyIsAnswer
  <2> QED
    BY <2>2, <2>3
<1>8. /\ recent' \in Nat /\ requests' \subseteq requests
      /\ deleted' => deleted \/ (Alive /\ ~ Alive')
      /\ Alive' => Alive /\ LifeView' = LifeView
  BY <1>1, <1>2 DEF IInv
<1> QED
  BY <1>3, <1>4, <1>7, <1>8, ObjectSame

LEMMA DeleteKeeps ==
  ASSUME IInv, UNCHANGED tabs, NEW m \in requests, Delete(m)
  PROVE  IInv'
<1>1. /\ run' = NoRun /\ job' = NoJob /\ job = NoJob /\ recent' = recent
      /\ deleted' = (deleted \/ Stored) /\ responses' = responses
      /\ requests' \subseteq requests
  BY DEF Delete, GateFree
<1>2. ~ Alive' /\ (Stored => Alive)
  BY <1>1 DEF Alive, Stored
<1>3. RunIsGood' /\ JobIsGood'
  BY <1>1 DEF RunIsGood, JobIsGood
<1>8. recent' \in Nat
  BY <1>1 DEF IInv
<1>9. \A r \in responses' : IsAnswer(r, Alive, LifeView)
  BY <1>1 DEF IInv, ResponsesAreAnswers
<1> QED
  BY <1>1, <1>2, <1>3, <1>8, <1>9, ObjectSame

\* An answer without a state.
LEMMA FailedIsAnswer ==
  ASSUME IInv, NEW m \in Requests, Reply(m, "failed", NoView)
  PROVE  \A r \in responses' : IsAnswer(r, Alive, LifeView)
<1>1. IsAnswer([to |-> m.from, id |-> m.id, status |-> "failed", view |-> NoView], Alive, LifeView)
  BY DEF IsAnswer, Answers, Requests
<1> QED
  BY <1>1, ReplyIsAnswer DEF IInv, ResponsesAreAnswers

LEMMA TurnAwayKeeps ==
  ASSUME IInv, UNCHANGED tabs, NEW m \in requests, TurnAway(m)
  PROVE  IInv'
<1>1. /\ run' = run /\ job' = NoJob /\ job = NoJob
      /\ recent' = recent /\ deleted' = deleted
      /\ requests' \subseteq requests /\ Reply(m, "failed", NoView)
  BY DEF TurnAway, object, witness, GateFree
<1>2. (Alive' => Alive) /\ LifeView' = LifeView
  BY <1>1 DEF Alive, LifeView, Stored
<1>3. RunIsGood' /\ JobIsGood'
  BY <1>1 DEF IInv, RunIsGood, JobIsGood
<1>4. created # "no" \/ responses' = responses
  BY DEF IInv, UnbornIsNew
<1>5. m \in Requests
  BY DEF IInv, RequestsAreMade, AsMade
<1>8. /\ recent' \in Nat /\ requests' \subseteq requests
      /\ deleted' => deleted \/ (Alive /\ ~ Alive')
      /\ Alive' => Alive /\ LifeView' = LifeView
  BY <1>1, <1>2 DEF IInv
<1>9. \A r \in responses' : IsAnswer(r, Alive, LifeView)
  BY <1>1, <1>5, FailedIsAnswer
<1> QED
  BY <1>3, <1>4, <1>8, <1>9, ObjectSame

LEMMA AdmitKeeps ==
  ASSUME IInv, UNCHANGED tabs, NEW m \in requests, NEW again \in BOOLEAN, Admit(m, again)
  PROVE  IInv'
<1> DEFINE taken == [run EXCEPT !.fresh = @ + 1]
<1>1. /\ run' = taken /\ job' = [pc |-> "parsing", m |-> m, run |-> taken]
      /\ job = NoJob /\ Stored /\ m.op = "attempt"
      /\ recent' = recent + 1 /\ deleted' = deleted
      /\ responses' = responses /\ requests' \subseteq requests /\ basis' = basis
  BY DEF Admit, GateFree, SaveSlot, tabs
<1>2. GoodRun(run) /\ run \in Runs
  BY <1>1 DEF IInv, RunIsGood, Stored, GoodRun
<1>3. taken \in Runs /\ taken.view = run.view /\ taken.answers = run.answers
  BY <1>2 DEF Runs
<1> HIDE DEF taken
<1>4. GoodRun(taken)
  BY <1>2, <1>3 DEF GoodRun, Logged
<1>5. job' # NoJob /\ job'.run = taken /\ job'.m = m /\ job'.pc = "parsing"
  BY <1>1 DEF NoJob
<1>6. Alive /\ LifeView' = LifeView
  BY <1>1, <1>3, <1>5 DEF Alive, LifeView
<1>7. AsMade(m) /\ AsMade(m)' /\ m \in Requests
  BY <1>1 DEF IInv, RequestsAreMade, AsMade
<1>10. RunIsGood' /\ JobIsGood'
  <2>1. job' \in Jobs
    BY <1>1, <1>3, <1>7 DEF Jobs
  <2> QED
    BY <1>1, <1>4, <1>5, <1>7, <2>1 DEF RunIsGood, JobIsGood, AsMade
<1>8. /\ recent' \in Nat /\ requests' \subseteq requests
      /\ deleted' => deleted \/ (Alive /\ ~ Alive')
      /\ Alive' => Alive /\ LifeView' = LifeView
  BY <1>1, <1>6 DEF IInv
<1>9. \A r \in responses' : IsAnswer(r, Alive, LifeView)
  BY <1>1 DEF IInv, ResponsesAreAnswers
<1>11. created # "no" \/ responses' = responses
  BY <1>1
<1> QED
  BY <1>8, <1>9, <1>10, <1>11, ObjectSame

\* An attempt that changes nothing is answered with a stage of the life.
LEMMA AnswerKeeps ==
  ASSUME IInv, UNCHANGED tabs, job.pc \in {"parsing", "proposing"}, NEW status, NEW v,
         AnswerUnchanged(status, v),
         \/ status = "failed" /\ v = NoView
         \/ status \in {"ok", "conflict"} /\ Shown(v),
         status = "ok" => Len(v.turns) > 0 /\ Last(v.turns) = job.m.id
  PROVE  IInv'
<1>1. /\ run' = run /\ job' = NoJob /\ recent' = recent /\ deleted' = deleted
      /\ requests' = requests /\ Reply(job.m, status, v)
  BY DEF AnswerUnchanged, witness
<1>2. /\ job # NoJob /\ job.m \in Requests /\ Alive /\ LifeView = job.run.view
      /\ created # "no"
  BY JobFacts
<1>3. Alive' => LifeView' = LifeView
  BY <1>1, <1>2 DEF Alive, LifeView, Stored, IInv, JobIsGood
<1>4. RunIsGood' /\ JobIsGood'
  BY <1>1 DEF IInv, RunIsGood, JobIsGood
<1>5. IsAnswer([to |-> job.m.from, id |-> job.m.id, status |-> status, view |-> v], Alive, LifeView)
  BY <1>2 DEF IsAnswer, Answers, Requests, Shown, ShownIn, GoodView
<1>6. \A r \in responses' : IsAnswer(r, Alive, LifeView)
  BY <1>1, <1>2, <1>5, ReplyIsAnswer DEF IInv, ResponsesAreAnswers
<1>8. /\ recent' \in Nat /\ requests' \subseteq requests
      /\ deleted' => deleted \/ (Alive /\ ~ Alive')
      /\ Alive' => Alive /\ LifeView' = LifeView
  BY <1>1, <1>2, <1>3 DEF IInv
<1>9. created # "no" \/ responses' = responses
  BY <1>2
<1> QED
  BY <1>4, <1>6, <1>8, <1>9, ObjectSame

\* A state that the log holds is the one its attempt led to.
LEMMA LoggedIsShown ==
  ASSUME NEW r, GoodRun(r), NEW a \in ToSet(r.answers)
  PROVE  /\ GoodView(a.view) /\ PastOf(a.view, r.view)
         /\ Len(a.view.turns) > 0 /\ Last(a.view.turns) = a.id
<1>1. PICK i \in 1 .. Len(r.answers) : a = r.answers[i]
  <2>1. r.answers \in Seq([id : Attempts, view : Views])
    BY DEF GoodRun, Runs
  <2> QED
    BY <2>1 DEF ToSet
<1>2. Len(r.answers) = Len(r.view.turns)
  BY DEF GoodRun, Logged
<1>3. /\ a.id = r.view.turns[i] /\ GoodView(a.view)
      /\ Len(a.view.turns) = i /\ PastOf(a.view, r.view)
  BY <1>1, <1>2 DEF GoodRun, Logged
<1>4. i \in 1 .. Len(a.view.turns) /\ i > 0
  BY <1>1, <1>3 DEF GoodRun, Runs
<1>5. a.view.turns[i] = r.view.turns[i]
  BY <1>3, <1>4 DEF PastOf, Before
<1> QED
  BY <1>3, <1>4, <1>5 DEF Last

\* The state an attempt was made on, when the life is still at its revision.
LEMMA MadeOnThis ==
  ASSUME IInv, job.pc \in {"parsing", "proposing"}, job.m.expected = job.run.view.rev
  PROVE  LET made == basis[job.m.id] IN
         /\ made # NoView /\ made \in Views
         /\ Len(made.turns) = Len(job.run.view.turns)
         /\ Before(made.turns, job.run.view.turns)
         /\ ~ job.run.view.over
<1> DEFINE made == basis[job.m.id]
<1>1. /\ AsMade(job.m) /\ job.m.id \in Attempts /\ Alive /\ LifeView = job.run.view
      /\ GoodRun(job.run) /\ job # NoJob
  BY JobFacts
<1>2. job.m.op = "attempt"
  BY <1>1 DEF IInv, JobIsGood
<1>3. made # NoView /\ made.rev = job.run.view.rev
  BY <1>1, <1>2 DEF AsMade
<1>4. Shown(made) /\ ~ made.over
  BY <1>1, <1>3 DEF IInv, BasisIsShown
<1>5. GoodView(made) /\ PastOf(made, job.run.view)
  BY <1>1, <1>4 DEF Shown, ShownIn
<1>6. GoodView(job.run.view)
  BY <1>1 DEF GoodRun
<1>7. Len(made.turns) = Len(job.run.view.turns)
  BY <1>3, <1>5, <1>6 DEF GoodView
<1> QED
  BY <1>3, <1>4, <1>5, <1>7 DEF GoodView, PastOf

LEMMA RefusalsKeep ==
  ASSUME IInv, UNCHANGED tabs, NotAnAttempt \/ Refused
  PROVE  IInv'
<1>1. job.pc \in {"parsing", "proposing"} /\ AnswerUnchanged("failed", NoView)
  BY DEF NotAnAttempt, Refused, Playable
<1> QED
  BY <1>1, AnswerKeeps

LEMMA ReplayKeeps ==
  ASSUME IInv, UNCHANGED tabs, Replay
  PROVE  IInv'
<1>1. PICK v \in Prior(job) : AnswerUnchanged("ok", v)
  BY DEF Replay
<1>2. job.pc = "parsing"
  BY DEF Replay
<1>3. PICK a \in ToSet(job.run.answers) : a.id = job.m.id /\ v = a.view
  BY <1>1 DEF Prior
<1>4. GoodRun(job.run) /\ LifeView = job.run.view
  BY <1>2, JobFacts
<1>5. Shown(v) /\ Len(v.turns) > 0 /\ Last(v.turns) = job.m.id
  BY <1>3, <1>4, LoggedIsShown DEF Shown, ShownIn
<1> QED
  BY <1>1, <1>2, <1>5, AnswerKeeps

LEMMA ConflictKeeps ==
  ASSUME IInv, UNCHANGED tabs, Conflict
  PROVE  IInv'
<1>1. job.pc = "parsing" /\ AnswerUnchanged("conflict", job.run.view)
  BY DEF Conflict
<1>2. GoodRun(job.run) /\ LifeView = job.run.view
  BY <1>1, JobFacts
<1>3. Shown(job.run.view)
  BY <1>2, PastOfItself DEF Shown, ShownIn, GoodRun
<1> QED
  BY <1>1, <1>3, AnswerKeeps

\* No tab makes an attempt on a life that it knows is over.
LEMMA NeverBareConflict ==
  ASSUME IInv, RunEnded
  PROVE  FALSE
<1>1. job.pc = "parsing" /\ job.m.expected = job.run.view.rev /\ job.run.view.over
  BY DEF RunEnded
<1> QED
  BY <1>1, MadeOnThis

LEMMA AskProposalKeeps ==
  ASSUME IInv, UNCHANGED tabs, AskProposal
  PROVE  IInv'
<1>1. /\ Playable(job) /\ job' = [job EXCEPT !.pc = "proposing"]
      /\ run' = run /\ recent' = recent /\ deleted' = deleted
      /\ requests' = requests /\ responses' = responses /\ basis' = basis
  BY DEF AskProposal, network, witness, tabs
<1>2. job.pc = "parsing" /\ FoundPlayable(job)
  BY <1>1 DEF Playable, FoundPlayable
<1>3. job # NoJob /\ job \in Jobs /\ Alive /\ LifeView = job.run.view
  BY <1>2, JobFacts
<1>4. /\ job' \in Jobs /\ job'.m = job.m /\ job'.run = job.run
      /\ job'.pc = "proposing" /\ job' # NoJob
  BY <1>1, <1>3 DEF Jobs, NoJob
<1>5. FoundPlayable(job')
  BY <1>2, <1>4 DEF FoundPlayable, Prior
<1>6. JobIsGood'
  BY <1>1, <1>3, <1>4, <1>5 DEF IInv, JobIsGood, AsMade, Stored
<1>7. RunIsGood'
  BY <1>1 DEF IInv, RunIsGood
<1>8. LifeView' = LifeView
  BY <1>3, <1>4 DEF LifeView
<1>9. \A r \in responses' : IsAnswer(r, Alive, LifeView)
  BY <1>1 DEF IInv, ResponsesAreAnswers
<1>10. recent' \in Nat /\ requests' \subseteq requests
  BY <1>1 DEF IInv
<1> QED
  BY <1>1, <1>3, <1>6, <1>7, <1>8, <1>9, <1>10, ObjectSame

\* The turn is played, whether or not its answer is sent.
LEMMA TurnKeeps ==
  ASSUME IInv, UNCHANGED tabs, NEW over \in BOOLEAN,
         Playable(job) \/ job.pc = "proposing",
         run' = Played(job, over), job' = NoJob,
         recent' = recent, deleted' = deleted, requests' = requests,
         responses' = responses \/ Reply(job.m, "ok", Played(job, over).view)
  PROVE  IInv'
<1> DEFINE p == Played(job, over)
<1>1. job.pc \in {"parsing", "proposing"}
  BY DEF Playable
<1>2. /\ job # NoJob /\ job \in Jobs /\ job.m \in Requests /\ job.m.id \in Attempts
      /\ GoodRun(job.run) /\ Alive /\ LifeView = job.run.view
      /\ created # "no" /\ ~ deleted
  BY <1>1, JobFacts
<1>3. FoundPlayable(job)
  BY <1>2 DEF Playable, FoundPlayable, IInv, JobIsGood
<1>4. \A i \in 1 .. Len(job.run.answers) : job.run.answers[i].id # job.m.id
  <2>1. job.run.answers \in Seq([id : Attempts, view : Views])
    BY <1>2 DEF GoodRun, Runs
  <2>2. \A x \in ToSet(job.run.answers) : x.id # job.m.id
    <3>1. Prior(job) = {}
      BY <1>3 DEF FoundPlayable
    <3>2. \A x \in ToSet(job.run.answers) : x.id = job.m.id => x.view \in Prior(job)
      BY DEF Prior
    <3> QED
      BY <3>1, <3>2
  <2> QED
    BY <2>1, <2>2 DEF ToSet
<1>5. /\ GoodRun(p)
      /\ p.view.turns = Append(job.run.view.turns, job.m.id)
      /\ \A v : GoodView(v) /\ PastOf(v, job.run.view) => PastOf(v, p.view)
  <2>1. ~ job.run.view.over
    BY <1>3 DEF FoundPlayable
  <2> QED
    BY <1>2, <1>4, <2>1, PlayedIsGood
<1> HIDE DEF p
<1>6. run' = p
  BY DEF p
<1>7. p # NoRun /\ GoodView(p.view)
  BY <1>5, NewIsGood DEF GoodRun
<1>8. Alive' /\ LifeView' = p.view
  BY <1>6, <1>7 DEF Alive, LifeView, Stored
<1>9. /\ \A v : Shown(v) => ShownIn(v, Alive', LifeView')
      /\ \A r : IsAnswer(r, Alive, LifeView) => IsAnswer(r, Alive', LifeView')
  <2>1. \A v : GoodView(v) /\ PastOf(v, LifeView) => PastOf(v, LifeView')
    BY <1>2, <1>5, <1>8
  <2> QED
    BY <1>2, <2>1, LongerLife
<1>10. /\ created' = created /\ screen' = screen /\ view' = view /\ basis' = basis
  BY DEF tabs
<1>11. recent' \in Nat /\ RunIsGood' /\ JobIsGood'
  BY <1>5, <1>6 DEF IInv, RunIsGood, JobIsGood
<1>12. RequestsAreMade'
  BY <1>10 DEF IInv, RequestsAreMade, AsMade
<1>13. /\ Len(p.view.turns) = Len(job.run.view.turns) + 1
       /\ Last(p.view.turns) = job.m.id
       /\ Len(job.run.view.turns) \in Nat
       /\ \A i \in 1 .. Len(job.run.view.turns) : p.view.turns[i] = job.run.view.turns[i]
       /\ p.view.turns[Len(job.run.view.turns) + 1] = job.m.id
  <2>1. job.run.view.turns \in Seq(Attempts)
    BY <1>2 DEF GoodRun, GoodView, Views
  <2> QED
    BY <1>2, <1>5, <2>1, AppendProperties DEF Last
<1>14. ResponsesAreAnswers'
  <2>1. \A r \in responses : IsAnswer(r, Alive', LifeView')
    BY <1>9 DEF IInv, ResponsesAreAnswers
  <2>2. IsAnswer([to |-> job.m.from, id |-> job.m.id, status |-> "ok", view |-> p.view], Alive', LifeView')
    <3>1. ShownIn(p.view, Alive', LifeView')
      BY <1>7, <1>8, PastOfItself DEF ShownIn
    <3>2. Len(p.view.turns) > 0
      BY <1>13
    <3> QED
      BY <1>2, <1>7, <1>13, <3>1, <3>2 DEF IsAnswer, Answers, Requests, GoodView
  <2>3. CASE responses' = responses
    BY <2>1, <2>3 DEF ResponsesAreAnswers
  <2>4. CASE Reply(job.m, "ok", p.view)
    <3>1. \A r \in responses' : IsAnswer(r, Alive', LifeView')
      BY <1>2, <2>1, <2>2, <2>4, ReplyIsAnswer
    <3> QED
      BY <3>1 DEF ResponsesAreAnswers
  <2> QED
    BY <2>3, <2>4 DEF p
<1>15. TabsAreShown'
  <2>1. \A t \in Tabs : ShownIn(view[t], Alive', LifeView')
    BY <1>9 DEF IInv, TabsAreShown
  <2> QED
    BY <1>10, <2>1 DEF IInv, TabsAreShown, Shown
<1>16. BasisIsShown'
  <2>1. \A id \in Attempts :
          basis[id] = NoView \/ (ShownIn(basis[id], Alive', LifeView') /\ ~ basis[id].over)
    BY <1>9 DEF IInv, BasisIsShown
  <2> QED
    BY <1>10, <2>1 DEF IInv, BasisIsShown, Shown
<1>17. TurnsAreSeen'
  <2> DEFINE n == Len(job.run.view.turns)
  <2>1. Seen(job.run.view.turns, basis)
    BY <1>2 DEF IInv, TurnsAreSeen
  <2>2. /\ basis[job.m.id] # NoView /\ basis[job.m.id] \in Views
        /\ Len(basis[job.m.id].turns) = n
        /\ Before(basis[job.m.id].turns, job.run.view.turns)
    BY <1>1, <1>3, MadeOnThis DEF FoundPlayable
  <2> HIDE DEF n
  <2>3. ASSUME NEW i \in 1 .. n + 1
        PROVE  /\ basis[p.view.turns[i]] # NoView
               /\ Len(basis[p.view.turns[i]].turns) = i - 1
               /\ Before(basis[p.view.turns[i]].turns, p.view.turns)
    <3>1. CASE i \in 1 .. n
      <4>1. /\ p.view.turns[i] = job.run.view.turns[i]
            /\ basis[p.view.turns[i]] # NoView
            /\ Len(basis[p.view.turns[i]].turns) = i - 1
            /\ Before(basis[p.view.turns[i]].turns, job.run.view.turns)
        BY <1>13, <2>1, <3>1 DEF Seen, n
      <4> QED
        BY <1>13, <3>1, <4>1 DEF Before, n
    <3>2. CASE i = n + 1
      <4>1. p.view.turns[i] = job.m.id /\ n \in Nat /\ i - 1 = n
        BY <1>13, <3>2 DEF n
      <4>2. Before(basis[job.m.id].turns, p.view.turns)
        BY <1>13, <2>2 DEF Before, n
      <4> QED
        BY <2>2, <4>1, <4>2
    <3>3. i \in 1 .. n \/ i = n + 1
      BY <1>13 DEF n
    <3> QED
      BY <3>1, <3>2, <3>3
  <2>4. Seen(p.view.turns, basis)
    BY <1>13, <2>3 DEF Seen, n
  <2> QED
    BY <1>8, <1>10, <2>4 DEF TurnsAreSeen
<1>18. DeletedIsGone' /\ UnbornIsNew'
  BY <1>2, <1>10 DEF DeletedIsGone, UnbornIsNew
<1> QED
  BY <1>10, <1>11, <1>12, <1>14, <1>15, <1>16, <1>17, <1>18 DEF IInv

LEMMA CommitKeeps ==
  ASSUME IInv, UNCHANGED tabs, NEW over \in BOOLEAN, Commit(over) \/ CommitCut(over)
  PROVE  IInv'
<1>1. /\ Playable(job) \/ job.pc = "proposing"
      /\ run' = Played(job, over) /\ job' = NoJob
      /\ recent' = recent /\ deleted' = deleted /\ requests' = requests
      /\ responses' = responses \/ Reply(job.m, "ok", Played(job, over).view)
  BY DEF Commit, CommitCut, network
<1> QED
  BY <1>1, TurnKeeps

\* Nothing that a state, an answer or an attempt is compared with has changed.
LEMMA NothingSaid ==
  ASSUME IInv, UNCHANGED <<tabs, requests, responses, recent, deleted>>,
         RunIsGood', JobIsGood', Alive' => Alive /\ LifeView' = LifeView
  PROVE  IInv'
<1>1. /\ recent' \in Nat /\ requests' \subseteq requests
      /\ deleted' => deleted \/ (Alive /\ ~ Alive')
      /\ created # "no" \/ responses' = responses
  BY DEF IInv
<1>2. \A r \in responses' : IsAnswer(r, Alive, LifeView)
  BY DEF IInv, ResponsesAreAnswers
<1> QED
  BY <1>1, <1>2, ObjectSame

LEMMA LinesKeep ==
  ASSUME IInv, UNCHANGED tabs, NEW e \in Events,
         AskCommentary(e) \/ Speak(e) \/ StaySilent(e)
  PROVE  IInv'
<1>1. /\ job' = job /\ basis' = basis
      /\ UNCHANGED <<tabs, requests, responses, recent, deleted>>
  BY DEF AskCommentary, Speak, StaySilent, network, witness, tabs
<1>2. CASE run' = run
  <2>1. RunIsGood' /\ JobIsGood'
    BY <1>1, <1>2 DEF IInv, RunIsGood, JobIsGood, AsMade, FoundPlayable, Prior, Stored
  <2>2. Alive' => Alive /\ LifeView' = LifeView
    BY <1>1, <1>2 DEF Alive, LifeView, Stored
  <2> QED
    BY <1>1, <2>1, <2>2, NothingSaid
<1>3. CASE Speak(e)
  <2> DEFINE lines == RememberLines(Append(run.spoken, e))
             told == [run EXCEPT !.spoken = lines]
  <2>1. job = NoJob /\ Stored /\ run' = told
    BY <1>3 DEF Speak, GateFree
  <2>2. GoodRun(run) /\ run \in Runs /\ run.spoken \in Seq(Events)
    BY <2>1 DEF IInv, RunIsGood, Stored, GoodRun, Runs
  <2>3. lines \in Seq(Events)
    <3> DEFINE s == Append(run.spoken, e)
    <3>1. s \in Seq(Events) /\ Len(s) \in Nat /\ \A i \in 1 .. Len(s) : s[i] \in Events
      BY <2>2
    <3>2. MaxCommentary \in Nat
      BY LifeFitsAssumption
    <3> HIDE DEF s
    <3> DEFINE first == IF Len(s) > MaxCommentary THEN Len(s) - MaxCommentary + 1 ELSE 1
    <3>3. first \in Int /\ \A i \in first .. Len(s) : s[i] \in Events
      BY <3>1, <3>2
    <3> HIDE DEF first
    <3>4. SubSeq(s, first, Len(s)) \in Seq(Events)
      BY <3>1, <3>3, SubSeqProperties
    <3> QED
      BY <3>4 DEF RememberLines, LastOf, s, first
  <2> HIDE DEF lines
  <2>4. told \in Runs /\ told.view = run.view /\ told.answers = run.answers
    BY <2>2, <2>3 DEF Runs
  <2> HIDE DEF told
  <2>5. GoodRun(told)
    BY <2>2, <2>4 DEF GoodRun, Logged
  <2>6. RunIsGood' /\ JobIsGood'
    BY <1>1, <2>1, <2>5 DEF RunIsGood, JobIsGood
  <2>7. Alive /\ LifeView' = LifeView
    BY <1>1, <2>1, <2>4 DEF Alive, LifeView
  <2> QED
    BY <1>1, <2>6, <2>7, NothingSaid
<1> QED
  BY <1>2, <1>3 DEF AskCommentary, StaySilent

LEMMA AlarmKeeps ==
  ASSUME IInv, UNCHANGED tabs, RetentionAlarm
  PROVE  IInv'
<1>1. /\ run' = NoRun /\ job' = job /\ basis' = basis
      /\ UNCHANGED <<tabs, requests, responses, recent, deleted>>
  BY DEF RetentionAlarm, network, witness, tabs
<1>2. RunIsGood' /\ JobIsGood'
  BY <1>1 DEF IInv, RunIsGood, JobIsGood, AsMade, FoundPlayable, Prior, Stored
<1>3. Alive' => Alive /\ LifeView' = LifeView
  BY <1>1 DEF Alive, LifeView, Stored
<1> QED
  BY <1>1, <1>2, <1>3, NothingSaid

LEMMA EvictKeeps ==
  ASSUME IInv, UNCHANGED tabs, Evict
  PROVE  IInv'
<1>1. /\ run' = run /\ job' = NoJob
      /\ UNCHANGED <<tabs, requests, responses, recent, deleted>>
  BY DEF Evict, network, witness
<1>2. RunIsGood' /\ JobIsGood'
  BY <1>1 DEF IInv, RunIsGood, JobIsGood
<1>3. Alive' => Alive /\ LifeView' = LifeView
  BY <1>1 DEF Alive, LifeView, Stored, IInv, JobIsGood
<1> QED
  BY <1>1, <1>2, <1>3, NothingSaid

LEMMA MinuteKeeps ==
  ASSUME IInv, UNCHANGED tabs, NEW n \in 1 .. recent, MinutePasses(n)
  PROVE  IInv'
<1>1. /\ recent' = recent - n /\ deleted' = deleted
      /\ requests' = requests /\ responses' = responses /\ basis' = basis
      /\ run' = (IF Stored THEN Aged(run, n) ELSE run)
      /\ job' = (IF job = NoJob THEN job ELSE [job EXCEPT !.run = Aged(@, n)])
  BY DEF MinutePasses, network, tabs, GateFree
<1>2. recent' \in Nat /\ n \in Nat
  BY <1>1 DEF IInv
<1>4. Stored => /\ GoodRun(run) /\ GoodRun(Aged(run, n)) /\ Aged(run, n) # NoRun
                /\ Aged(run, n).view = run.view
  BY <1>2, AgedIsGood, NewIsGood DEF IInv, RunIsGood, Stored
<1>5. Stored' = Stored /\ run'.view = run.view /\ RunIsGood'
  BY <1>1, <1>4 DEF IInv, RunIsGood, Stored
<1>6. job # NoJob =>
        /\ job' \in Jobs /\ job' # NoJob /\ job'.m = job.m /\ job'.pc = job.pc
        /\ GoodRun(job'.run) /\ job'.run.view = job.run.view
        /\ job'.run.answers = job.run.answers
  <2>1. SUFFICES ASSUME job # NoJob
                 PROVE  /\ job' \in Jobs /\ job' # NoJob /\ job'.m = job.m /\ job'.pc = job.pc
                        /\ GoodRun(job'.run) /\ job'.run.view = job.run.view
                        /\ job'.run.answers = job.run.answers
    OBVIOUS
  <2>2. job \in Jobs /\ GoodRun(job.run)
    BY <2>1 DEF IInv, JobIsGood
  <2>3. job' = [job EXCEPT !.run = Aged(job.run, n)]
    BY <1>1, <2>1
  <2>4. /\ GoodRun(Aged(job.run, n)) /\ Aged(job.run, n) \in Runs
        /\ Aged(job.run, n).view = job.run.view
        /\ Aged(job.run, n).answers = job.run.answers
    BY <1>2, <2>2, AgedIsGood
  <2>5. job' \in Jobs /\ job'.run = Aged(job.run, n) /\ job'.m = job.m /\ job'.pc = job.pc
    BY <2>2, <2>3, <2>4 DEF Jobs
  <2>6. job' # NoJob
    BY <2>5 DEF Jobs, NoJob
  <2> QED
    BY <2>4, <2>5, <2>6
<1>7. job = NoJob => job' = NoJob
  BY <1>1
<1>8. JobIsGood'
  BY <1>1, <1>5, <1>6, <1>7 DEF IInv, JobIsGood, AsMade, FoundPlayable, Prior
<1>9. Alive' => Alive /\ LifeView' = LifeView
  BY <1>5, <1>6, <1>7 DEF Alive, LifeView
<1>10. \A r \in responses' : IsAnswer(r, Alive, LifeView)
  BY <1>1 DEF IInv, ResponsesAreAnswers
<1>11. /\ requests' \subseteq requests
       /\ deleted' => deleted \/ (Alive /\ ~ Alive')
       /\ created # "no" \/ responses' = responses
  BY <1>1
<1> QED
  BY <1>2, <1>5, <1>8, <1>9, <1>10, <1>11, ObjectSame

LEMMA ObjectKeeps ==
  ASSUME IInv, ObjectStep, UNCHANGED tabs
  PROVE  IInv'
<1>1. CASE \E m \in requests : Get(m) \/ Delete(m) \/ TurnAway(m)
  BY <1>1, GetKeeps, DeleteKeeps, TurnAwayKeeps
<1>2. CASE \E m \in requests, again \in BOOLEAN : Admit(m, again)
  BY <1>2, AdmitKeeps
<1>3. CASE NotAnAttempt \/ Replay \/ Conflict \/ RunEnded \/ AskProposal \/ Refused
  BY <1>3, RefusalsKeep, ReplayKeeps, ConflictKeeps, NeverBareConflict, AskProposalKeeps
<1>4. CASE \E over \in BOOLEAN : Commit(over) \/ CommitCut(over)
  BY <1>4, CommitKeeps
<1>5. CASE \E e \in Events : AskCommentary(e) \/ Speak(e) \/ StaySilent(e)
  BY <1>5, LinesKeep
<1>6. CASE RetentionAlarm \/ Evict \/ \E n \in 1 .. recent : MinutePasses(n)
  BY <1>6, AlarmKeeps, EvictKeeps, MinuteKeeps
<1> QED
  BY <1>1, <1>2, <1>3, <1>4, <1>5, <1>6 DEF ObjectStep

-----------------------------------------------------------------------------
(* The steps of a tab. *)

\* A life is born: every state that any tab holds is its first.
LEMMA StartKeeps ==
  ASSUME IInv, NEW t \in Tabs, NEW complete \in BOOLEAN, NEW heard \in BOOLEAN,
         StartLife(t, complete, heard)
  PROVE  IInv'
<1>1. /\ created = "no" /\ created' # "no"
      /\ run' = NewRun /\ job' = job /\ recent' = recent /\ deleted' = deleted
      /\ requests' = requests /\ responses' = responses
      /\ view' = view /\ basis' = basis
      /\ screen' = [screen EXCEPT ![t] = IF heard THEN "playing" ELSE "title"]
  BY DEF StartLife, Initialize, network
<1>2. /\ ~ Alive /\ job = NoJob /\ requests = {} /\ responses = {}
      /\ view = [u \in Tabs |-> NewView] /\ basis = [id \in Attempts |-> NoView]
      /\ ~ deleted
  BY <1>1 DEF IInv, UnbornIsNew, Alive, DeletedIsGone
<1>3. GoodRun(NewRun) /\ NewRun # NoRun /\ NewRun.view = NewView /\ GoodView(NewView)
      /\ NewView \in Views
  BY NewIsGood DEF NewRun
<1>4. Alive' /\ LifeView' = NewView
  BY <1>1, <1>2, <1>3 DEF Alive, LifeView, Stored
<1>5. ShownIn(NewView, Alive', LifeView')
  BY <1>3, <1>4, PastOfItself DEF ShownIn
<1>6. recent' \in Nat /\ screen' \in [Tabs -> {"title", "playing", "gone"}]
  BY <1>1 DEF IInv
<1>7. RunIsGood' /\ JobIsGood'
  BY <1>1, <1>2, <1>3 DEF RunIsGood, JobIsGood
<1>8. RequestsAreMade' /\ ResponsesAreAnswers'
  BY <1>1, <1>2 DEF RequestsAreMade, ResponsesAreAnswers
<1>9. TabsAreShown' /\ BasisIsShown'
  BY <1>1, <1>2, <1>3, <1>5 DEF TabsAreShown, BasisIsShown, Shown
<1>10. TurnsAreSeen'
  BY <1>4 DEF TurnsAreSeen, Seen, NewView
<1>11. DeletedIsGone' /\ UnbornIsNew'
  BY <1>1, <1>2 DEF DeletedIsGone, UnbornIsNew
<1> QED
  BY <1>6, <1>7, <1>8, <1>9, <1>10, <1>11 DEF IInv

LEMMA SubmitKeeps ==
  ASSUME IInv, NEW t \in Tabs, NEW id \in Attempts, Submit(t, id)
  PROVE  IInv'
<1> DEFINE m == [op |-> "attempt", from |-> t, id |-> id, expected |-> view[t].rev]
<1>1. /\ run' = run /\ job' = job /\ recent' = recent /\ deleted' = deleted
      /\ created' = created /\ screen' = screen /\ view' = view
      /\ responses' = responses /\ requests' = requests \cup {m}
      /\ basis' = [basis EXCEPT ![id] = view[t]] /\ basis[id] = NoView
      /\ screen[t] = "playing" /\ ~ view[t].over
  BY DEF Submit, MayPlay, object, witness
<1>2. Alive' = Alive /\ LifeView' = LifeView
  BY <1>1 DEF Alive, LifeView, Stored
<1>3. /\ basis \in [Attempts -> Views \cup {NoView}]
      /\ view[t] \in Views /\ Shown(view[t]) /\ view[t] # NoView
      /\ view[t].rev \in Nat
  BY NewIsGood DEF IInv, BasisIsShown, TabsAreShown, Views
<1>4. /\ basis' \in [Attempts -> Views \cup {NoView}]
      /\ basis'[id] = view[t]
      /\ \A i \in Attempts : i # id => basis'[i] = basis[i]
      /\ \A i \in Attempts : basis[i] # NoView => basis'[i] = basis[i]
  BY <1>1, <1>3
<1>5. \A x : AsMade(x) => AsMade(x)'
  BY <1>4 DEF AsMade
<1>6. AsMade(m)'
  <2>1. /\ m \in Requests /\ m.op = "attempt" /\ m.id = id
        /\ m.expected = view[t].rev /\ m' = m
    BY <1>1, <1>3 DEF Requests, Events
  <2> HIDE DEF m
  <2> QED
    BY <1>3, <1>4, <2>1 DEF AsMade
<1>7. RunIsGood'
  BY <1>1 DEF IInv, RunIsGood
<1>8. JobIsGood'
  BY <1>1, <1>5 DEF IInv, JobIsGood, FoundPlayable, Prior, Stored
<1>9. RequestsAreMade'
  BY <1>1, <1>5, <1>6 DEF IInv, RequestsAreMade
<1>10. ResponsesAreAnswers' /\ TabsAreShown'
  BY <1>1, <1>2 DEF IInv, ResponsesAreAnswers, TabsAreShown, Shown
<1>11. BasisIsShown'
  BY <1>1, <1>2, <1>3, <1>4 DEF IInv, BasisIsShown, Shown
<1>12. TurnsAreSeen'
  <2>1. SUFFICES ASSUME Alive PROVE Seen(LifeView.turns, basis')
    BY <1>2 DEF TurnsAreSeen
  <2>2. Seen(LifeView.turns, basis)
    BY <2>1 DEF IInv, TurnsAreSeen
  <2>3. LifeView.turns \in Seq(Attempts)
    <3>1. LifeView \in Views
      BY <2>1, NewIsGood DEF Alive, LifeView, IInv, RunIsGood, JobIsGood, Stored
    <3> QED
      BY <3>1 DEF Views
  <2>4. \A i \in 1 .. Len(LifeView.turns) :
          /\ LifeView.turns[i] \in Attempts
          /\ basis'[LifeView.turns[i]] = basis[LifeView.turns[i]]
    BY <1>4, <2>2, <2>3 DEF Seen
  <2> QED
    BY <2>2, <2>4 DEF Seen
<1>13. DeletedIsGone' /\ UnbornIsNew'
  <2>1. created # "no"
    BY <1>1 DEF IInv, UnbornIsNew
  <2> QED
    BY <1>1, <1>2, <2>1 DEF IInv, DeletedIsGone, UnbornIsNew
<1>14. recent' \in Nat /\ screen' \in [Tabs -> {"title", "playing", "gone"}]
  BY <1>1 DEF IInv
<1> QED
  BY <1>7, <1>8, <1>9, <1>10, <1>11, <1>12, <1>13, <1>14 DEF IInv

\* Continue, Leave, Reconnect and GiveUp change no state of the game.
LEMMA ScreensKeep ==
  ASSUME IInv, NEW t \in Tabs,
         \/ Continue(t) \/ Leave(t) \/ Reconnect(t)
         \/ \E id \in Events : GiveUp(t, id)
  PROVE  IInv'
<1>1. /\ UNCHANGED <<object, witness, created, basis>>
      /\ view' = view /\ responses' \subseteq responses
      /\ \/ screen' = screen
         \/ screen' = [screen EXCEPT ![t] = "title"]
         \/ screen' = [screen EXCEPT ![t] = "gone"] /\ created # "no"
      /\ \/ requests' = requests
         \/ created # "no" /\ \E m : /\ requests' = requests \cup {m}
                                    /\ m \in Requests /\ m.op # "attempt" /\ m.id = None
  <2>1. \A op \in {"load", "delete"} :
          LET m == [op |-> op, from |-> t, id |-> None, expected |-> 0] IN
          m \in Requests /\ m.op # "attempt" /\ m.id = None
    BY DEF Requests, Events
  <2>2. CASE Continue(t)
    BY <2>1, <2>2 DEF Continue, tabs
  <2>3. CASE Leave(t)
    BY <2>1, <2>3 DEF Leave
  <2>4. CASE Reconnect(t)
    BY <2>4 DEF Reconnect, network
  <2>5. CASE \E id \in Events : GiveUp(t, id)
    BY <2>5 DEF GiveUp, Close
  <2> QED
    BY <2>2, <2>3, <2>4, <2>5
<1>2. screen' \in [Tabs -> {"title", "playing", "gone"}]
  BY <1>1 DEF IInv
<1>3. created # "no" \/ (requests' = requests /\ screen' = screen /\ view' = view)
  BY <1>1 DEF IInv, UnbornIsNew
<1>4. \A m \in requests' : m \in requests \/ AsMade(m)
  BY <1>1 DEF AsMade
<1>5. view' \in [Tabs -> Views] /\ \A u \in Tabs : Shown(view'[u])
  BY <1>1 DEF IInv, TabsAreShown
<1> QED
  BY <1>1, <1>2, <1>3, <1>4, <1>5, TabSame

\* What a tab hears is a stage of the life.
LEMMA HearingKeeps ==
  ASSUME IInv, NEW r \in responses, Loaded(r) \/ Answered(r) \/ Failed(r)
  PROVE  IInv'
<1>1. IsAnswer(r, Alive, LifeView) /\ r \in Answers /\ r.to \in Tabs /\ created # "no"
  BY DEF IInv, ResponsesAreAnswers, IsAnswer, Answers, UnbornIsNew
<1>2. /\ UNCHANGED <<object, witness, created, basis>>
      /\ responses' \subseteq responses /\ requests' = requests
      /\ screen' = screen \/ screen' = [screen EXCEPT ![r.to] = "playing"]
      /\ \/ view' = view
         \/ view' = [view EXCEPT ![r.to] = r.view] /\ r.status # "failed"
  BY DEF Loaded, Answered, Failed, Hear, Close, Adopt
<1>3. screen' \in [Tabs -> {"title", "playing", "gone"}]
  BY <1>1, <1>2 DEF IInv
<1>4. r.status # "failed" => Shown(r.view) /\ r.view \in Views
  BY <1>1 DEF IsAnswer, Shown, ShownIn, GoodView
<1>5. view' \in [Tabs -> Views] /\ \A u \in Tabs : Shown(view'[u])
  BY <1>1, <1>2, <1>4 DEF IInv, TabsAreShown
<1> QED
  BY <1>1, <1>2, <1>3, <1>5, TabSame

-----------------------------------------------------------------------------
(* The invariant holds. *)

LEMMA Initially == Init => IInv
<1> SUFFICES ASSUME Init PROVE IInv
  OBVIOUS
<1> USE DEF Init, ObjectInit
<1>1. ~ Alive /\ recent \in Nat /\ screen \in [Tabs -> {"title", "playing", "gone"}]
  BY DEF Alive, Stored
<1>2. RunIsGood /\ JobIsGood /\ RequestsAreMade /\ ResponsesAreAnswers
  BY DEF RunIsGood, JobIsGood, RequestsAreMade, ResponsesAreAnswers
<1>3. TabsAreShown /\ BasisIsShown
  BY <1>1, NewIsGood DEF TabsAreShown, BasisIsShown, Shown, ShownIn
<1>4. TurnsAreSeen /\ DeletedIsGone /\ UnbornIsNew
  BY <1>1 DEF TurnsAreSeen, DeletedIsGone, UnbornIsNew
<1> QED
  BY <1>1, <1>2, <1>3, <1>4 DEF IInv

LEMMA Inductive == IInv /\ [Next]_vars => IInv'
<1> SUFFICES ASSUME IInv, [Next]_vars PROVE IInv'
  OBVIOUS
<1>1. CASE ObjectStep /\ UNCHANGED tabs
  BY <1>1, ObjectKeeps
<1>2. CASE TabStep
  <2>1. CASE \E t \in Tabs, complete, heard \in BOOLEAN : StartLife(t, complete, heard)
    BY <2>1, StartKeeps
  <2>2. CASE \E t \in Tabs : Continue(t) \/ Reconnect(t) \/ Leave(t)
    BY <2>2, ScreensKeep
  <2>3. CASE \E t \in Tabs, id \in Attempts : Submit(t, id)
    BY <2>3, SubmitKeeps
  <2>4. CASE \E t \in Tabs, id \in Events : GiveUp(t, id)
    BY <2>4, ScreensKeep
  <2>5. CASE \E r \in responses : Loaded(r) \/ Answered(r) \/ Failed(r)
    BY <2>5, HearingKeeps
  <2> QED
    BY <1>2, <2>1, <2>2, <2>3, <2>4, <2>5 DEF TabStep
<1>3. CASE UNCHANGED vars
  <2>1. UNCHANGED <<object, witness, created, basis>> /\ requests' = requests
        /\ responses' = responses /\ screen' = screen /\ view' = view
    BY <1>3 DEF vars, network, tabs
  <2>2. /\ screen' \in [Tabs -> {"title", "playing", "gone"}]
        /\ view' \in [Tabs -> Views] /\ \A t \in Tabs : Shown(view'[t])
    BY <2>1 DEF IInv, TabsAreShown
  <2> QED
    BY <2>1, <2>2, TabSame
<1> QED
  BY <1>1, <1>2, <1>3 DEF Next

LEMMA Invariant == Spec => []IInv
  BY Initially, Inductive, PTL DEF Spec

-----------------------------------------------------------------------------
(* What the session promises. *)

\* No attempt is played twice, however often it is delivered (the log of
\* answers and the revision check of handleVerified()).
THEOREM PlayedOnly == Spec => []PlayedOnce
<1>1. IInv => PlayedOnce
  <2> SUFFICES ASSUME IInv PROVE PlayedOnce
    OBVIOUS
  <2>1. CASE run = NoRun
    BY <2>1 DEF PlayedOnce, IsInjective, NoRun, NoView
  <2>2. CASE GoodRun(run)
    <3>1. run.view.turns \in Seq(Attempts) /\ Distinct(run.view.turns)
      BY <2>2 DEF GoodRun, GoodView, Views
    <3> QED
      BY <3>1 DEF PlayedOnce, IsInjective, Distinct
  <2> QED
    BY <2>1, <2>2 DEF IInv, RunIsGood
<1> QED
  BY Invariant, <1>1, PTL

\* Every turn was played on the very state its player saw (expectedRevision).
THEOREM PlayedOnWhatWasSeen == Spec => []PlayedAsSeen
<1>1. IInv => PlayedAsSeen
  <2> SUFFICES ASSUME IInv PROVE PlayedAsSeen
    OBVIOUS
  <2>1. CASE run = NoRun
    BY <2>1 DEF PlayedAsSeen, NoRun, NoView
  <2>2. CASE run # NoRun
    <3> DEFINE turns == run.view.turns
    <3>1. GoodRun(run) /\ Alive /\ Seen(LifeView.turns, basis)
      BY <2>2 DEF IInv, RunIsGood, TurnsAreSeen, Alive, Stored
    <3>2. LifeView = run.view
      BY <2>2 DEF LifeView, IInv, JobIsGood, Stored
    <3>3. turns \in Seq(Attempts) /\ Len(turns) \in Nat
      BY <3>1 DEF GoodRun, GoodView, Views
    <3>4. ASSUME NEW i \in 1 .. Len(turns)
          PROVE  basis[turns[i]].turns = SubSeq(turns, 1, i - 1)
      <4> DEFINE seen == basis[turns[i]]
      <4>1. seen # NoView /\ Len(seen.turns) = i - 1 /\ Before(seen.turns, turns)
        BY <3>1, <3>2 DEF Seen
      <4>2. turns[i] \in Attempts
        BY <3>3
      <4>3. seen.turns \in Seq(Attempts)
        BY <4>1, <4>2 DEF IInv, BasisIsShown, Views
      <4> HIDE DEF seen, turns
      <4>4. \A k \in 1 .. i - 1 : seen.turns[k] = turns[k] /\ turns[k] \in Attempts
        BY <3>3, <4>1 DEF Before
      <4>5. i - 1 \in Nat
        BY <3>3
      <4>6. /\ SubSeq(turns, 1, i - 1) \in Seq(Attempts)
            /\ Len(SubSeq(turns, 1, i - 1)) = i - 1
            /\ \A k \in 1 .. i - 1 : SubSeq(turns, 1, i - 1)[k] = turns[k]
        BY <4>4, <4>5, SubSeqProperties
      <4> QED
        BY <4>1, <4>3, <4>4, <4>6, SeqEqual DEF seen
    <3>5. DOMAIN turns = 1 .. Len(turns)
      BY <3>3
    <3>6. \A i \in DOMAIN turns : basis[turns[i]].turns = SubSeq(turns, 1, i - 1)
      BY <3>4, <3>5
    <3> QED
      BY <3>6 DEF PlayedAsSeen
  <2> QED
    BY <2>1, <2>2
<1> QED
  BY Invariant, <1>1, PTL

\* A tab shows a stage of the stored life, at that stage's revision.
THEOREM NoTabIsAhead == Spec => []TabsShowThePast
<1>1. IInv => TabsShowThePast
  <2> SUFFICES ASSUME IInv, NEW t \in Tabs
               PROVE  /\ view[t].rev = Len(view[t].turns)
                      /\ Stored => IsPrefix(view[t].turns, run.view.turns)
    BY DEF TabsShowThePast
  <2>1. GoodView(view[t]) /\ (Alive => PastOf(view[t], LifeView))
    BY DEF IInv, TabsAreShown, Shown, ShownIn
  <2>2. ASSUME Stored PROVE IsPrefix(view[t].turns, run.view.turns)
    <3> DEFINE s == view[t].turns
               w == run.view.turns
    <3>1. Alive /\ LifeView = run.view /\ GoodRun(run)
      BY <2>2 DEF Alive, LifeView, IInv, RunIsGood, JobIsGood, Stored
    <3>2. s \in Seq(Attempts) /\ w \in Seq(Attempts) /\ Before(s, w)
      BY <2>1, <3>1 DEF GoodView, GoodRun, Views, PastOf
    <3> HIDE DEF s, w
    <3>3. Len(s) \in Nat /\ Len(s) <= Len(w) /\ Len(w) \in Nat
      BY <3>2 DEF Before
    <3>4. \A k \in 1 .. Len(s) : w[k] = s[k] /\ w[k] \in Attempts
      BY <3>2, <3>3 DEF Before
    <3>5. /\ SubSeq(w, 1, Len(s)) \in Seq(Attempts)
          /\ Len(SubSeq(w, 1, Len(s))) = Len(s)
          /\ \A k \in 1 .. Len(s) : SubSeq(w, 1, Len(s))[k] = w[k]
      BY <3>3, <3>4, SubSeqProperties
    <3>6. SubSeq(w, 1, Len(s)) = s
      BY <3>2, <3>4, <3>5, SeqEqual
    <3>7. SubSeq(s, 1, Len(s)) = s
      BY <3>2, SubSeqFull
    <3> QED
      BY <3>3, <3>6, <3>7 DEF IsPrefix, s, w
  <2> QED
    BY <2>1, <2>2 DEF GoodView
<1> QED
  BY Invariant, <1>1, PTL

\* An attempt is answered with the state that it led to, a repeated one too.
THEOREM AnsweredWithItsOwn == Spec => []AnswersAreOwn
<1>1. IInv => AnswersAreOwn
  BY DEF IInv, ResponsesAreAnswers, IsAnswer, AnswersAreOwn
<1> QED
  BY Invariant, <1>1, PTL

\* The 409 without a state is never sent to a tab that waits for an answer.
THEOREM ConflictsHaveAState == Spec => []NoBareConflict
<1>1. IInv => NoBareConflict
  BY DEF IInv, ResponsesAreAnswers, IsAnswer, Answers, NoBareConflict
<1> QED
  BY Invariant, <1>1, PTL

\* The log of answers has every turn of the life (MAX_IDEMPOTENCY).
THEOREM EveryRetryIsAnswered == Spec => []RetriesAreAnswered
<1>1. IInv => RetriesAreAnswered
  <2> SUFFICES ASSUME IInv PROVE RetriesAreAnswered
    OBVIOUS
  <2>1. CASE run = NoRun
    BY <2>1 DEF RetriesAreAnswered, NoRun, NoView
  <2>2. CASE GoodRun(run)
    <3>1. /\ run.view.turns \in Seq(Attempts)
          /\ run.answers \in Seq([id : Attempts, view : Views])
          /\ Len(run.answers) = Len(run.view.turns)
          /\ \A i \in 1 .. Len(run.view.turns) : run.answers[i].id = run.view.turns[i]
      BY <2>2 DEF GoodRun, GoodView, Views, Runs, Logged
    <3> QED
      BY <3>1 DEF RetriesAreAnswered
  <2> QED
    BY <2>1, <2>2 DEF IInv, RunIsGood
<1> QED
  BY Invariant, <1>1, PTL

\* No handler or commentary under way brings a deleted life back.
THEOREM DeletedForGood == Spec => []DeletedStaysDeleted
<1>1. IInv => DeletedStaysDeleted
  BY DEF IInv, DeletedIsGone, Alive, DeletedStaysDeleted
<1> QED
  BY Invariant, <1>1, PTL

-----------------------------------------------------------------------------
(* The rate and the retention. *)

\* The stamps of a run cover the attempts of the last minute.
Covered(r) == r.fresh <= RateMax /\ recent <= r.fresh

RateInv ==
  /\ recent <= RateMax
  /\ Stored => Covered(run)
  /\ job # NoJob => Covered(job.run)
  /\ created = "no" => recent = 0

\* A step that admits nothing, and lets no time pass.
LEMMA NoneAdmitted ==
  ASSUME RateInv, recent' = recent, created' = created,
         \/ run' = run \/ run' = NoRun
         \/ Stored /\ run'.fresh = run.fresh
         \/ job # NoJob /\ run'.fresh = job.run.fresh,
         job' = job \/ job' = NoJob \/ (job # NoJob /\ job'.run = job.run)
  PROVE  RateInv'
  BY DEF RateInv, Covered, Stored

LEMMA RateKept == IInv /\ RateInv /\ [Next]_vars => RateInv'
<1> SUFFICES ASSUME IInv, RateInv, [Next]_vars PROVE RateInv'
  OBVIOUS
<1>1. ASSUME UNCHANGED tabs, NEW m \in requests, NEW again \in BOOLEAN, Admit(m, again)
      PROVE  RateInv'
  <2> DEFINE taken == [run EXCEPT !.fresh = @ + 1]
  <2>1. /\ run' = taken /\ job' = [pc |-> "parsing", m |-> m, run |-> taken]
        /\ Stored /\ run.fresh < RateMax /\ recent' = recent + 1 /\ created' = created
    BY <1>1 DEF Admit, SaveSlot, tabs
  <2>2. run \in Runs /\ run.fresh \in Nat
    <3>1. run \in Runs
      BY <2>1, NewIsGood DEF IInv, RunIsGood, Stored
    <3> QED
      BY <3>1 DEF Runs
  <2>5. recent \in Nat /\ RateMax \in Nat /\ created # "no"
    BY <2>1, LifeFitsAssumption DEF IInv, UnbornIsNew, Alive
  <2>3. taken.fresh = run.fresh + 1 /\ job'.run = taken
    BY <2>1, <2>2 DEF Runs
  <2> HIDE DEF taken
  <2>4. recent + 1 <= taken.fresh /\ taken.fresh <= RateMax /\ recent + 1 <= RateMax
    BY <2>1, <2>2, <2>3, <2>5 DEF RateInv, Covered
  <2> QED
    BY <2>1, <2>3, <2>4, <2>5 DEF RateInv, Covered
<1>2. ASSUME UNCHANGED tabs, NEW n \in 1 .. recent, MinutePasses(n)
      PROVE  RateInv'
  <2>1. /\ recent' = recent - n /\ created' = created
        /\ run' = (IF Stored THEN Aged(run, n) ELSE run)
        /\ job' = (IF job = NoJob THEN job ELSE [job EXCEPT !.run = Aged(@, n)])
    BY <1>2 DEF MinutePasses, tabs, GateFree
  <2>2. recent \in Nat /\ n \in Nat /\ n <= recent /\ RateMax \in Nat /\ n > 0
    BY LifeFitsAssumption DEF IInv
  <2>3. ASSUME NEW r \in Runs, Covered(r)
        PROVE  Aged(r, n).fresh <= RateMax /\ recent - n <= Aged(r, n).fresh
    <3>1. r.fresh \in Nat /\ Aged(r, n).fresh = IF r.fresh > n THEN r.fresh - n ELSE 0
      BY DEF Runs, Aged
    <3> QED
      BY <2>2, <2>3, <3>1 DEF Covered
  <2>4. Stored' => Covered(run)'
    BY <2>1, <2>3, NewIsGood DEF RateInv, Covered, IInv, RunIsGood, Stored
  <2>5. job' # NoJob => Covered(job.run)'
    <3>1. SUFFICES ASSUME job # NoJob PROVE Covered(job.run)'
      BY <2>1
    <3>2. job \in Jobs /\ job.run \in Runs /\ Covered(job.run)
      BY <3>1 DEF IInv, JobIsGood, Jobs, RateInv
    <3>3. job'.run = Aged(job.run, n)
      BY <2>1, <3>1, <3>2 DEF Jobs
    <3> QED
      BY <2>1, <2>3, <3>2, <3>3 DEF Covered
  <2> QED
    BY <2>1, <2>2, <2>4, <2>5 DEF RateInv
<1>3. ASSUME UNCHANGED tabs, NEW over \in BOOLEAN, Commit(over) \/ CommitCut(over)
      PROVE  RateInv'
  <2>1. /\ run' = Played(job, over) /\ job' = NoJob /\ recent' = recent
        /\ created' = created /\ job.pc \in {"parsing", "proposing"}
    BY <1>3 DEF Commit, CommitCut, Playable, tabs
  <2>2. job # NoJob /\ job.run \in Runs
    BY <2>1, JobFacts DEF Jobs
  <2>3. run'.fresh = job.run.fresh
    BY <2>1, <2>2 DEF Played, Runs
  <2> QED
    BY <2>1, <2>2, <2>3, NoneAdmitted
<1>4. ASSUME UNCHANGED tabs, AskProposal
      PROVE  RateInv'
  <2>1. /\ run' = run /\ job' = [job EXCEPT !.pc = "proposing"] /\ recent' = recent
        /\ created' = created /\ job.pc = "parsing"
    BY <1>4 DEF AskProposal, Playable, witness, tabs
  <2>2. job # NoJob /\ job \in Jobs
    BY <2>1, JobFacts
  <2>3. job'.run = job.run
    BY <2>1, <2>2 DEF Jobs
  <2> QED
    BY <2>1, <2>2, <2>3, NoneAdmitted
<1>5. ASSUME UNCHANGED tabs, NEW e \in Events, Speak(e)
      PROVE  RateInv'
  <2>1. /\ run' = [run EXCEPT !.spoken = RememberLines(Append(@, e))] /\ job' = job
        /\ recent' = recent /\ created' = created /\ Stored
    BY <1>5 DEF Speak, tabs
  <2>2. run \in Runs
    BY <2>1, NewIsGood DEF IInv, RunIsGood, Stored
  <2>3. run'.fresh = run.fresh
    BY <2>1, <2>2 DEF Runs
  <2> QED
    BY <2>1, <2>3, NoneAdmitted
<1>6. ASSUME NEW t \in Tabs, NEW complete \in BOOLEAN, NEW heard \in BOOLEAN,
             StartLife(t, complete, heard)
      PROVE  RateInv'
  <2>1. /\ created = "no" /\ created' # "no" /\ run' = NewRun /\ job' = job
        /\ recent' = recent
    BY <1>6 DEF StartLife, Initialize
  <2>2. recent = 0 /\ job = NoJob /\ RateMax \in Nat /\ NewRun.fresh = 0
    BY <2>1, LifeFitsAssumption DEF RateInv, IInv, UnbornIsNew, Alive, NewRun
  <2> QED
    BY <2>1, <2>2 DEF RateInv, Covered
<1>7. ASSUME UNCHANGED tabs,
             \/ \E m \in requests : Get(m) \/ Delete(m) \/ TurnAway(m)
             \/ NotAnAttempt \/ Replay \/ Conflict \/ RunEnded \/ Refused
             \/ \E e \in Events : AskCommentary(e) \/ StaySilent(e)
             \/ RetentionAlarm \/ Evict
      PROVE  RateInv'
  <2>1. /\ recent' = recent /\ created' = created
        /\ run' = run \/ run' = NoRun
        /\ job' = job \/ job' = NoJob
    BY <1>7 DEF Get, Delete, TurnAway, NotAnAttempt, Replay, Conflict, RunEnded,
      Refused, AnswerUnchanged, AskCommentary, StaySilent, RetentionAlarm, Evict,
      object, witness, tabs
  <2> QED
    BY <2>1, NoneAdmitted
<1>8. ASSUME \/ \E t \in Tabs : Continue(t) \/ Reconnect(t) \/ Leave(t)
             \/ \E t \in Tabs, id \in Attempts : Submit(t, id)
             \/ \E t \in Tabs, id \in Events : GiveUp(t, id)
             \/ \E r \in responses : Loaded(r) \/ Answered(r) \/ Failed(r)
             \/ UNCHANGED vars
      PROVE  RateInv'
  <2>1. /\ recent' = recent /\ created' = created /\ run' = run /\ job' = job
    BY <1>8 DEF Continue, Reconnect, Leave, Submit, GiveUp, Loaded, Answered, Failed,
      object, witness, tabs, vars
  <2> QED
    BY <2>1, NoneAdmitted
<1> QED
  BY <1>1, <1>2, <1>3, <1>4, <1>5, <1>6, <1>7, <1>8 DEF Next, ObjectStep, TabStep

\* In any minute at most RateMax attempts are admitted: an attempt that fails,
\* and an eviction after its slot is written, cost a slot all the same.
THEOREM RateIsCapped == Spec => []RateCeiling
<1>1. Init => RateInv
  BY LifeFitsAssumption DEF Init, ObjectInit, RateInv, Stored
<1>2. RateInv => RateCeiling
  BY DEF RateInv, RateCeiling
<1> QED
  BY Invariant, RateKept, <1>1, <1>2, PTL DEF Spec

\* Whatever is stored has its retention alarm, unless an eviction cut the last
\* write short: the alarm may fire in the middle of an attempt, whose write
\* sets it again.
THEOREM RetentionIsSet == Spec => []RetentionHolds
<1>1. Init => RetentionHolds
  BY DEF Init, ObjectInit, RetentionHolds, Stored
<1>2. IInv /\ RetentionHolds /\ [Next]_vars => RetentionHolds'
  <2> SUFFICES ASSUME IInv, RetentionHolds, [Next]_vars PROVE RetentionHolds'
    OBVIOUS
  <2>1. ASSUME ObjectStep PROVE RetentionHolds'
    <3>1. ASSUME \/ \E m \in requests : Get(m) \/ TurnAway(m)
                 \/ NotAnAttempt \/ Replay \/ Conflict \/ RunEnded \/ Refused
                 \/ \E e \in Events : AskCommentary(e) \/ StaySilent(e)
                 \/ AskProposal \/ Evict
          PROVE  RetentionHolds'
      BY <3>1 DEF Get, TurnAway, NotAnAttempt, Replay, Conflict, RunEnded, Refused,
        AnswerUnchanged, AskCommentary, StaySilent, AskProposal, Evict, object, witness,
        RetentionHolds, Stored
    <3>2. ASSUME \/ \E m \in requests : Delete(m)
                 \/ RetentionAlarm
                 \/ \E over \in BOOLEAN : Commit(over) \/ CommitCut(over)
                 \/ \E e \in Events : Speak(e)
          PROVE  RetentionHolds'
      BY <3>2 DEF Delete, RetentionAlarm, Commit, CommitCut, RenewRetention, Speak,
        RetentionHolds, Stored
    <3>3. ASSUME \/ \E m \in requests, again \in BOOLEAN : Admit(m, again)
                 \/ \E n \in 1 .. recent : MinutePasses(n)
          PROVE  RetentionHolds'
      <4>1. /\ alarm' = alarm /\ cut' = cut
            /\ Stored' => Stored
        BY <3>3 DEF Admit, MinutePasses, Stored
      <4> QED
        BY <4>1 DEF RetentionHolds
    <3> QED
      BY <2>1, <3>1, <3>2, <3>3 DEF ObjectStep
  <2>2. ASSUME \E t \in Tabs, complete, heard \in BOOLEAN : StartLife(t, complete, heard)
        PROVE  RetentionHolds'
    <3>1. PICK complete \in BOOLEAN : alarm' = complete /\ cut' = ~ complete
      BY <2>2 DEF StartLife, Initialize
    <3>2. CASE complete = TRUE
      BY <3>1, <3>2 DEF RetentionHolds
    <3>3. CASE complete = FALSE
      BY <3>1, <3>3 DEF RetentionHolds
    <3> QED
      BY <3>2, <3>3
  <2>3. ASSUME \/ \E t \in Tabs : Continue(t) \/ Reconnect(t) \/ Leave(t)
               \/ \E t \in Tabs, id \in Attempts : Submit(t, id)
               \/ \E t \in Tabs, id \in Events : GiveUp(t, id)
               \/ \E r \in responses : Loaded(r) \/ Answered(r) \/ Failed(r)
               \/ UNCHANGED vars
        PROVE  RetentionHolds'
    <3>1. run' = run /\ alarm' = alarm /\ cut' = cut
      BY <2>3 DEF Continue, Reconnect, Leave, Submit, GiveUp, Loaded, Answered, Failed,
        object, witness, vars
    <3> QED
      BY <3>1 DEF RetentionHolds, Stored
  <2> QED
    BY <2>1, <2>2, <2>3 DEF Next, TabStep
<1> QED
  BY Invariant, <1>1, <1>2, PTL DEF Spec

-----------------------------------------------------------------------------
(* The lines of a life. *)

\* Only the opening and the turns of the life are worth a line.
Worth(e, turns) == e = None \/ \E i \in 1 .. Len(turns) : turns[i] = e

LifeLines == IF job # NoJob THEN job.run.spoken ELSE run.spoken

LinesFit(lines, asked, turns) ==
  /\ Distinct(lines)
  /\ \A i \in 1 .. Len(lines) : Worth(lines[i], turns)
  /\ \A e \in asked : Worth(e, turns)

LinesInv ==
  /\ created = "no" => speaking = {}
  /\ Stored /\ job # NoJob => run.spoken = job.run.spoken
  /\ Alive => LinesFit(LifeLines, speaking, LifeView.turns)

\* There are no more lines than turns, and the opening.
LEMMA LinesAreFew ==
  ASSUME NEW turns \in Seq(Attempts), NEW lines \in Seq(Events),
         Distinct(lines), \A i \in 1 .. Len(lines) : Worth(lines[i], turns)
  PROVE  Len(lines) <= Len(turns) + 1
<1> DEFINE n == Len(lines)
           k == Len(turns)
           place == [i \in 1 .. n |->
                       IF lines[i] = None THEN 0
                       ELSE CHOOSE j \in 1 .. k : turns[j] = lines[i]]
<1>1. n \in Nat /\ k \in Nat
  OBVIOUS
<1>2. \A i \in 1 .. n :
        \/ lines[i] = None /\ place[i] = 0
        \/ lines[i] # None /\ place[i] \in 1 .. k /\ turns[place[i]] = lines[i]
  BY DEF Worth
<1> HIDE DEF place, n, k
<1>3. place \in [1 .. n -> 0 .. k]
  <2>1. \A i \in 1 .. n : place[i] \in 0 .. k
    BY <1>1, <1>2
  <2>2. place = [i \in 1 .. n |-> place[i]]
    BY DEF place
  <2> QED
    BY <2>1, <2>2
<1>4. ASSUME NEW x \in 1 .. n, NEW y \in 1 .. n, place[x] = place[y] PROVE x = y
  <2>1. lines[x] = lines[y]
    BY <1>1, <1>2, <1>4
  <2> QED
    BY <2>1 DEF Distinct, n
<1>5. /\ IsFiniteSet(1 .. n) /\ Cardinality(1 .. n) = n
      /\ IsFiniteSet(0 .. k) /\ Cardinality(0 .. k) = k + 1
  <2>1. /\ IsFiniteSet(1 .. n)
        /\ Cardinality(1 .. n) = IF 1 > n THEN 0 ELSE n - 1 + 1
    BY <1>1, FS_Interval
  <2>2. /\ IsFiniteSet(0 .. k)
        /\ Cardinality(0 .. k) = IF 0 > k THEN 0 ELSE k - 0 + 1
    BY <1>1, FS_Interval
  <2> QED
    BY <1>1, <2>1, <2>2
<1>6. ~ (k + 1 < n)
  <2>1. SUFFICES ASSUME k + 1 < n PROVE FALSE
    OBVIOUS
  <2> DEFINE S == 1 .. n
             T == 0 .. k
  <2>2. IsFiniteSet(S) /\ IsFiniteSet(T) /\ Cardinality(T) < Cardinality(S)
    BY <1>5, <2>1
  <2>3. place \in [S -> T]
    BY <1>3
  <2> HIDE DEF S, T
  <2>4. PICK x \in S, y \in S : x # y /\ place[x] = place[y]
    BY <2>2, <2>3, FS_PigeonHole
  <2> QED
    BY <1>4, <2>4 DEF S
<1> QED
  BY <1>1, <1>6 DEF n, k

\* A step that neither plays nor records.
LEMMA NoneSpoken ==
  ASSUME LinesInv, Stored' /\ job' # NoJob => run'.spoken = job'.run.spoken,
         Alive' => Alive /\ LifeLines' = LifeLines /\ LifeView' = LifeView,
         speaking' \subseteq speaking, created' = created
  PROVE  LinesInv'
<1>1. created' = "no" => speaking' = {}
  BY DEF LinesInv
<1>2. Alive' => LinesFit(LifeLines', speaking', LifeView'.turns)
  BY DEF LinesInv, LinesFit
<1> QED
  BY <1>1, <1>2 DEF LinesInv

\* What the record of a line does to a run.
LEMMA LineIsAdded ==
  ASSUME IInv, LinesInv, NEW e \in Events, Speak(e)
  PROVE  /\ job = NoJob /\ Stored /\ GoodRun(run) /\ run.spoken \in Seq(Events)
         /\ run' = [run EXCEPT !.spoken = Append(run.spoken, e)]
         /\ \A i \in 1 .. Len(run.spoken) : run.spoken[i] # e
<1>1. /\ job = NoJob /\ Stored /\ e \in speaking /\ e \notin ToSet(run.spoken)
      /\ run' = [run EXCEPT !.spoken = RememberLines(Append(run.spoken, e))]
  BY DEF Speak, GateFree
<1>2. GoodRun(run)
  BY <1>1 DEF IInv, RunIsGood, Stored
<1>3. run.spoken \in Seq(Events) /\ run.view.turns \in Seq(Attempts)
      /\ Len(run.view.turns) <= TurnLimit
  BY <1>2 DEF GoodRun, GoodView, Runs, Views
<1>4. \A i \in 1 .. Len(run.spoken) : run.spoken[i] # e
  BY <1>1, <1>3 DEF ToSet
<1> DEFINE lines == Append(run.spoken, e)
<1>5. /\ lines \in Seq(Events) /\ Len(lines) = Len(run.spoken) + 1 /\ Len(run.spoken) \in Nat
      /\ lines[Len(run.spoken) + 1] = e
      /\ \A i \in 1 .. Len(run.spoken) : lines[i] = run.spoken[i]
  BY <1>3, AppendProperties
<1> HIDE DEF lines
<1>6. LinesFit(run.spoken, speaking, run.view.turns)
  BY <1>1 DEF LinesInv, Alive, LifeLines, LifeView
<1>7. \A i \in 1 .. Len(lines) : i \in 1 .. Len(run.spoken) \/ i = Len(run.spoken) + 1
  BY <1>5
<1>8. Distinct(lines) /\ \A i \in 1 .. Len(lines) : Worth(lines[i], run.view.turns)
  BY <1>1, <1>4, <1>5, <1>6, <1>7 DEF LinesFit, Distinct
<1>9. Len(lines) <= Len(run.view.turns) + 1
  BY <1>3, <1>5, <1>8, LinesAreFew
<1>10. Len(lines) \in Nat /\ ~ (Len(lines) > MaxCommentary)
  BY <1>3, <1>5, <1>9, LifeFitsAssumption
<1>11. RememberLines(lines) = lines
  BY <1>5, <1>10, SubSeqFull DEF RememberLines, LastOf
<1> QED
  BY <1>1, <1>2, <1>3, <1>4, <1>11 DEF lines

LEMMA LinesKept == IInv /\ LinesInv /\ [Next]_vars => LinesInv'
<1> SUFFICES ASSUME IInv, LinesInv, [Next]_vars PROVE LinesInv'
  OBVIOUS
<1>1. ASSUME UNCHANGED tabs, NEW m \in requests, NEW again \in BOOLEAN, Admit(m, again)
      PROVE  LinesInv'
  <2> DEFINE taken == [run EXCEPT !.fresh = @ + 1]
  <2>1. /\ run' = taken /\ job' = [pc |-> "parsing", m |-> m, run |-> taken]
        /\ job = NoJob /\ Stored /\ speaking' = speaking /\ created' = created
    BY <1>1 DEF Admit, SaveSlot, GateFree, tabs
  <2>2. run \in Runs
    BY <2>1, NewIsGood DEF IInv, RunIsGood, Stored
  <2>3. taken.spoken = run.spoken /\ taken.view = run.view
    BY <2>2 DEF Runs
  <2>4. job' # NoJob /\ job'.run = taken
    BY <2>1 DEF NoJob
  <2> HIDE DEF taken
  <2>5. Alive /\ LifeLines' = LifeLines /\ LifeView' = LifeView
    BY <2>1, <2>3, <2>4 DEF Alive, LifeLines, LifeView
  <2> QED
    BY <2>1, <2>3, <2>4, <2>5, NoneSpoken
<1>2. ASSUME UNCHANGED tabs, NEW n \in 1 .. recent, MinutePasses(n)
      PROVE  LinesInv'
  <2>1. /\ run' = (IF Stored THEN Aged(run, n) ELSE run)
        /\ job' = (IF job = NoJob THEN job ELSE [job EXCEPT !.run = Aged(job.run, n)])
        /\ speaking' = speaking /\ created' = created
    BY <1>2 DEF MinutePasses, tabs, GateFree
  <2>2. \A r \in Runs : Aged(r, n).spoken = r.spoken /\ Aged(r, n).view = r.view
    BY DEF Aged, Runs
  <2>3. Stored => run \in Runs /\ run # NoRun
    BY NewIsGood DEF IInv, RunIsGood, Stored
  <2>4. (Stored' => Stored) /\ run'.spoken = run.spoken /\ run'.view = run.view
    BY <2>1, <2>2, <2>3 DEF Stored
  <2>5. job # NoJob => job \in Jobs /\ job.run \in Runs
    BY DEF IInv, JobIsGood, Jobs
  <2>6. job # NoJob => /\ job'.run.spoken = job.run.spoken
                       /\ job'.run.view = job.run.view
    <3>1. job # NoJob => job'.run = Aged(job.run, n)
      BY <2>1, <2>5 DEF Jobs
    <3> QED
      BY <2>2, <2>5, <3>1
  <2>7. (job' # NoJob) = (job # NoJob)
    BY <2>1, <2>5 DEF Jobs, NoJob
  <2>8. Alive' => Alive /\ LifeLines' = LifeLines /\ LifeView' = LifeView
    BY <2>4, <2>6, <2>7 DEF Alive, LifeLines, LifeView
  <2>9. Stored' /\ job' # NoJob => run'.spoken = job'.run.spoken
    BY <2>4, <2>6, <2>7 DEF LinesInv
  <2> QED
    BY <2>1, <2>8, <2>9, NoneSpoken
<1>3. ASSUME UNCHANGED tabs, NEW over \in BOOLEAN, Commit(over) \/ CommitCut(over)
      PROVE  LinesInv'
  <2>1. /\ run' = Played(job, over) /\ job' = NoJob /\ speaking' \subseteq speaking
        /\ created' = created /\ job.pc \in {"parsing", "proposing"}
    BY <1>3 DEF Commit, CommitCut, Playable, tabs
  <2>2. job # NoJob /\ job.run \in Runs /\ Alive /\ LifeView = job.run.view
        /\ created # "no"
    BY <2>1, JobFacts DEF Jobs
  <2>3. /\ run'.spoken = job.run.spoken
        /\ run'.view.turns = Append(job.run.view.turns, job.m.id)
    BY <2>1, <2>2 DEF Played, Runs
  <2>4. /\ LifeLines = job.run.spoken /\ LifeLines' = LifeLines
        /\ LifeView'.turns = Append(LifeView.turns, job.m.id)
    BY <2>1, <2>2, <2>3 DEF LifeLines, LifeView
  <2>5. LifeView.turns \in Seq(Attempts)
    BY <2>2 DEF Runs, Views
  <2>6. \A e : Worth(e, LifeView.turns) => Worth(e, LifeView'.turns)
    <3>1. /\ Len(LifeView.turns) \in Nat
          /\ Len(LifeView'.turns) = Len(LifeView.turns) + 1
          /\ \A i \in 1 .. Len(LifeView.turns) : LifeView'.turns[i] = LifeView.turns[i]
      <4> DEFINE turns == LifeView.turns
      <4>1. LifeView'.turns = Append(turns, job.m.id) /\ turns \in Seq(Attempts)
        BY <2>4, <2>5
      <4>2. job.m.id \in Attempts
        BY <2>1, JobFacts
      <4> HIDE DEF turns
      <4>3. /\ Len(turns) \in Nat /\ Len(Append(turns, job.m.id)) = Len(turns) + 1
            /\ \A i \in 1 .. Len(turns) : Append(turns, job.m.id)[i] = turns[i]
        BY <4>1, <4>2, AppendProperties
      <4> QED
        BY <4>1, <4>3 DEF turns
    <3> QED
      BY <3>1 DEF Worth
  <2>7. LinesFit(LifeLines', speaking', LifeView'.turns)
    BY <2>1, <2>2, <2>4, <2>6 DEF LinesInv, LinesFit
  <2> QED
    BY <2>1, <2>2, <2>7 DEF LinesInv
<1>4. ASSUME UNCHANGED tabs, AskProposal
      PROVE  LinesInv'
  <2>1. /\ run' = run /\ job' = [job EXCEPT !.pc = "proposing"]
        /\ speaking' = speaking /\ created' = created /\ job.pc = "parsing"
    BY <1>4 DEF AskProposal, Playable, tabs
  <2>2. job # NoJob /\ job \in Jobs /\ Alive
    BY <2>1, JobFacts
  <2>3. job'.run = job.run /\ job' # NoJob
    BY <2>1, <2>2 DEF Jobs, NoJob
  <2>4. LifeLines' = LifeLines /\ LifeView' = LifeView
    BY <2>1, <2>2, <2>3 DEF LifeLines, LifeView
  <2>5. Stored' /\ job' # NoJob => run'.spoken = job'.run.spoken
    BY <2>1, <2>2, <2>3 DEF LinesInv, Stored
  <2> QED
    BY <2>1, <2>2, <2>4, <2>5, NoneSpoken
<1>5. ASSUME UNCHANGED tabs, NEW e \in Events, Speak(e)
      PROVE  LinesInv'
  <2>1. /\ job = NoJob /\ job' = NoJob /\ Stored /\ created' = created
        /\ speaking' = speaking \ {e} /\ e \in speaking
    BY <1>5 DEF Speak, GateFree, tabs
  <2>2. /\ run \in Runs /\ run.spoken \in Seq(Events)
        /\ run' = [run EXCEPT !.spoken = Append(run.spoken, e)]
        /\ \A i \in 1 .. Len(run.spoken) : run.spoken[i] # e
    BY <1>5, NewIsGood, LineIsAdded
  <2>3. run'.spoken = Append(run.spoken, e) /\ run'.view = run.view
    BY <2>2 DEF Runs
  <2>4. /\ LinesFit(run.spoken, speaking, run.view.turns)
        /\ LifeLines' = run'.spoken /\ LifeView' = run.view
    BY <2>1, <2>3 DEF LinesInv, Alive, LifeLines, LifeView
  <2>5. /\ Len(run.spoken) \in Nat /\ Len(run'.spoken) = Len(run.spoken) + 1
        /\ run'.spoken[Len(run.spoken) + 1] = e
        /\ \A i \in 1 .. Len(run.spoken) : run'.spoken[i] = run.spoken[i]
    BY <2>2, <2>3, AppendProperties
  <2>6. \A i \in 1 .. Len(run'.spoken) :
          i \in 1 .. Len(run.spoken) \/ i = Len(run.spoken) + 1
    BY <2>5
  <2>7. Distinct(run'.spoken)
    BY <2>2, <2>4, <2>5, <2>6 DEF LinesFit, Distinct
  <2>8. \A i \in 1 .. Len(run'.spoken) : Worth(run'.spoken[i], run.view.turns)
    BY <2>1, <2>4, <2>5, <2>6 DEF LinesFit
  <2>9. \A x \in speaking' : Worth(x, run.view.turns)
    BY <2>1, <2>4 DEF LinesFit
  <2> QED
    BY <2>1, <2>4, <2>7, <2>8, <2>9 DEF LinesInv, LinesFit
<1>6. ASSUME UNCHANGED tabs, NEW e \in Events, AskCommentary(e)
      PROVE  LinesInv'
  <2>1. /\ job = NoJob /\ job' = job /\ run' = run /\ Stored /\ created' = created
        /\ speaking' = speaking \cup {e} /\ HasCue(e)
    BY <1>6 DEF AskCommentary, GateFree, tabs
  <2>2. GoodRun(run) /\ Alive /\ LifeView = run.view /\ created # "no"
    BY <2>1 DEF IInv, RunIsGood, UnbornIsNew, Alive, LifeView, Stored
  <2>3. Worth(e, run.view.turns)
    <3>1. run.answers \in Seq([id : Attempts, view : Views])
      BY <2>2 DEF GoodRun, Runs
    <3>2. \A i \in 1 .. Len(run.answers) : run.answers[i].id = run.view.turns[i]
      BY <2>2 DEF GoodRun, Logged
    <3>3. Len(run.answers) = Len(run.view.turns)
      BY <2>2 DEF GoodRun, Logged
    <3> QED
      BY <2>1, <3>1, <3>2, <3>3 DEF HasCue, Worth
  <2>4. LifeLines' = LifeLines /\ LifeView' = LifeView
    BY <2>1 DEF LifeLines, LifeView
  <2>5. LinesFit(LifeLines', speaking', LifeView'.turns)
    BY <2>1, <2>2, <2>3, <2>4 DEF LinesInv, LinesFit
  <2> QED
    BY <2>1, <2>2, <2>5 DEF LinesInv
<1>7. ASSUME NEW t \in Tabs, NEW complete \in BOOLEAN, NEW heard \in BOOLEAN,
             StartLife(t, complete, heard)
      PROVE  LinesInv'
  <2>1. /\ created = "no" /\ created' # "no" /\ run' = NewRun /\ job' = job
        /\ speaking' = speaking
    BY <1>7 DEF StartLife, Initialize
  <2>2. job = NoJob /\ speaking = {}
    BY <2>1 DEF LinesInv, IInv, UnbornIsNew, Alive
  <2>3. LifeLines' = <<>>
    BY <2>1, <2>2 DEF LifeLines, NewRun
  <2>4. LinesFit(LifeLines', speaking', LifeView'.turns)
    BY <2>1, <2>2, <2>3 DEF LinesFit, Distinct
  <2> QED
    BY <2>1, <2>2, <2>4 DEF LinesInv
<1>8. ASSUME UNCHANGED tabs,
             \/ \E m \in requests : Get(m) \/ Delete(m) \/ TurnAway(m)
             \/ NotAnAttempt \/ Replay \/ Conflict \/ RunEnded \/ Refused
             \/ \E e \in Events : StaySilent(e)
             \/ RetentionAlarm \/ Evict
      PROVE  LinesInv'
  <2>1. /\ created' = created /\ speaking' \subseteq speaking
        /\ \/ run' = run
           \/ run' = NoRun
        /\ \/ job' = job
           \/ job' = NoJob
    BY <1>8 DEF Get, Delete, TurnAway, NotAnAttempt, Replay, Conflict, RunEnded,
      Refused, AnswerUnchanged, StaySilent, RetentionAlarm, Evict, object, tabs
  <2>2. Alive' => Alive /\ LifeLines' = LifeLines /\ LifeView' = LifeView
    BY <2>1 DEF Alive, LifeLines, LifeView, Stored, LinesInv, IInv, JobIsGood
  <2>3. Stored' /\ job' # NoJob => run'.spoken = job'.run.spoken
    BY <2>1 DEF LinesInv, Stored
  <2> QED
    BY <2>1, <2>2, <2>3, NoneSpoken
<1>9. ASSUME \/ \E t \in Tabs : Continue(t) \/ Reconnect(t) \/ Leave(t)
             \/ \E t \in Tabs, id \in Attempts : Submit(t, id)
             \/ \E t \in Tabs, id \in Events : GiveUp(t, id)
             \/ \E r \in responses : Loaded(r) \/ Answered(r) \/ Failed(r)
             \/ UNCHANGED vars
      PROVE  LinesInv'
  <2>1. /\ created' = created /\ run' = run /\ job' = job /\ speaking' = speaking
    BY <1>9 DEF Continue, Reconnect, Leave, Submit, GiveUp, Loaded, Answered, Failed,
      object, tabs, vars
  <2>2. Alive' => Alive /\ LifeLines' = LifeLines /\ LifeView' = LifeView
    BY <2>1 DEF Alive, LifeLines, LifeView, Stored
  <2>3. Stored' /\ job' # NoJob => run'.spoken = job'.run.spoken
    BY <2>1 DEF LinesInv, Stored
  <2> QED
    BY <2>1, <2>2, <2>3, NoneSpoken
<1> QED
  BY <1>1, <1>2, <1>3, <1>4, <1>5, <1>6, <1>7, <1>8, <1>9
     DEF Next, ObjectStep, TabStep

\* A line once recorded stays: neither an attempt under way, which writes back
\* its own copy of the run, nor the limit on the memory takes it away.
THEOREM LinesStay == Spec => LinesAreKept
<1> DEFINE Kept == Stored /\ run' # NoRun => ToSet(run.spoken) \subseteq ToSet(run'.spoken)
<1>1. Init => LinesInv
  BY DEF Init, ObjectInit, LinesInv, Alive, Stored
<1>2. IInv /\ LinesInv /\ [Next]_vars => [Kept]_vars
  <2> SUFFICES ASSUME IInv, LinesInv, Next, Stored, run' # NoRun
               PROVE  ToSet(run.spoken) \subseteq ToSet(run'.spoken)
    OBVIOUS
  <2> DEFINE Same == run'.spoken = run.spoken
  <2>1. Same => ToSet(run.spoken) \subseteq ToSet(run'.spoken)
    OBVIOUS
  <2>2. run \in Runs /\ run.spoken \in Seq(Events)
    <3>1. run \in Runs
      BY NewIsGood DEF IInv, RunIsGood, Stored
    <3> QED
      BY <3>1 DEF Runs
  <2>3. ASSUME NEW m \in requests, NEW again \in BOOLEAN, Admit(m, again) PROVE Same
    BY <2>2, <2>3 DEF Admit, SaveSlot, Runs
  <2>4. ASSUME NEW n \in 1 .. recent, MinutePasses(n) PROVE Same
    BY <2>2, <2>4 DEF MinutePasses, Aged, Runs
  <2>5. ASSUME NEW over \in BOOLEAN, Commit(over) \/ CommitCut(over) PROVE Same
    <3>1. run' = Played(job, over) /\ job.pc \in {"parsing", "proposing"}
      BY <2>5 DEF Commit, CommitCut, Playable
    <3>2. job # NoJob /\ job.run \in Runs
      BY <3>1, JobFacts DEF Jobs
    <3>3. run'.spoken = job.run.spoken
      BY <3>1, <3>2 DEF Played, Runs
    <3> QED
      BY <3>2, <3>3 DEF LinesInv
  <2>6. ASSUME NEW e \in Events, Speak(e)
        PROVE  ToSet(run.spoken) \subseteq ToSet(run'.spoken)
    <3>1. run' = [run EXCEPT !.spoken = Append(run.spoken, e)]
      BY <2>6, LineIsAdded
    <3>2. run'.spoken = Append(run.spoken, e)
      BY <2>2, <3>1 DEF Runs
    <3> QED
      BY <2>2, <3>2 DEF ToSet
  <2>7. ASSUME UNCHANGED tabs,
               \/ \E m \in requests : Get(m) \/ Delete(m) \/ TurnAway(m)
               \/ NotAnAttempt \/ Replay \/ Conflict \/ RunEnded \/ AskProposal \/ Refused
               \/ \E e \in Events : AskCommentary(e) \/ StaySilent(e)
               \/ RetentionAlarm \/ Evict
        PROVE  Same
    BY <2>7 DEF Get, Delete, TurnAway, NotAnAttempt, Replay, Conflict, RunEnded,
      AskProposal, Refused, AnswerUnchanged, AskCommentary, StaySilent, RetentionAlarm,
      Evict, object
  <2>8. ASSUME TabStep PROVE Same
    BY <2>8 DEF TabStep, StartLife, Initialize, Continue, Reconnect, Leave, Submit,
      GiveUp, Loaded, Answered, Failed, object
  <2> QED
    BY <2>1, <2>3, <2>4, <2>5, <2>6, <2>7, <2>8 DEF Next, ObjectStep
<1> QED
  BY Invariant, LinesKept, <1>1, <1>2, PTL DEF Spec, LinesAreKept

-----------------------------------------------------------------------------
(* The run is one life, whose turns are played one at a time. *)

\* A step that plays nothing leaves the life as it is, or ends it.
LEMMA LifeIsLeft ==
  ASSUME IInv, created' = created, Alive' => Alive /\ LifeView' = LifeView
  PROVE  [OnlineLife!Next]_<<LifeStage, LifeNow.turns, LifeNow.over>>
<1>1. CASE Alive' \/ ~ Alive
  BY <1>1 DEF LifeStage, LifeNow
<1>2. CASE Alive /\ ~ Alive'
  <2>1. created # "no"
    BY <1>2 DEF IInv, UnbornIsNew
  <2>2. LifeStage = "lived" /\ LifeStage' = "gone" /\ LifeNow' = NewView
    BY <1>2, <2>1 DEF LifeStage, LifeNow, NewView
  <2>3. LifeNow'.turns = <<>> /\ LifeNow'.over = FALSE
    BY <2>2 DEF NewView
  <2> QED
    BY <2>2, <2>3 DEF OnlineLife!Next, OnlineLife!Vanish
<1> QED
  BY <1>1, <1>2

\* A turn of the object is a turn of the life.
LEMMA LifeGoesOn ==
  ASSUME IInv, UNCHANGED tabs, NEW over \in BOOLEAN, Commit(over) \/ CommitCut(over)
  PROVE  \E id \in Attempts : OnlineLife!Play(id)
<1> DEFINE id == job.m.id
           v == job.run.view
           p == Played(job, over)
<1>1. /\ Playable(job) \/ job.pc = "proposing"
      /\ run' = p /\ job' = NoJob /\ created' = created
  BY DEF Commit, CommitCut, tabs
<1>2. job.pc \in {"parsing", "proposing"}
  BY <1>1 DEF Playable
<1>3. /\ Alive /\ LifeView = v /\ id \in Attempts /\ GoodRun(job.run)
      /\ created # "no" /\ job # NoJob
  BY <1>2, JobFacts
<1>4. Prior(job) = {} /\ ~ v.over
  BY <1>1, <1>3 DEF Playable, IInv, JobIsGood, FoundPlayable
<1>5. /\ v.turns \in Seq(Attempts) /\ Len(v.turns) \in Nat
      /\ Logged(job.run) /\ job.run.answers \in Seq([id : Attempts, view : Views])
  BY <1>3 DEF GoodRun, GoodView, Views, Runs
<1>6. \A i \in 1 .. Len(job.run.answers) : job.run.answers[i].id # id
  <2>1. \A a \in ToSet(job.run.answers) : a.id # id
    BY <1>4 DEF Prior
  <2> QED
    BY <1>5, <2>1 DEF ToSet
<1>7. \A i \in DOMAIN v.turns : v.turns[i] # id
  BY <1>5, <1>6 DEF Logged
<1>8. /\ GoodRun(p) /\ p.view.turns = Append(v.turns, id)
      /\ p.view.over \in {Len(v.turns) + 1 >= TurnLimit, TRUE}
  <2>1. GoodRun(p) /\ p.view.turns = Append(v.turns, id)
    BY <1>3, <1>4, <1>6, PlayedIsGood
  <2> DEFINE last == Len(Append(v.turns, id)) >= TurnLimit
  <2>2. p.view.over = (over \/ last)
    <3>1. job.run \in Runs
      BY <1>3 DEF GoodRun
    <3> QED
      BY <3>1 DEF Played, Runs
  <2>3. last = (Len(v.turns) + 1 >= TurnLimit)
    BY <1>3, <1>5, AppendProperties
  <2>4. last \in BOOLEAN
    OBVIOUS
  <2> HIDE DEF last, p
  <2>5. p.view.over \in {last, TRUE}
    BY <2>2, <2>4
  <2> QED
    BY <2>1, <2>3, <2>5
<1> HIDE DEF p, v, id
<1>9. Alive' /\ LifeView' = p.view
  BY <1>1, <1>8, NewIsGood DEF Alive, LifeView, Stored
<1>10. /\ LifeStage = "lived" /\ LifeStage' = "lived"
       /\ LifeNow = v /\ LifeNow' = p.view
  BY <1>1, <1>3, <1>9 DEF LifeStage, LifeNow
<1> QED
  BY <1>3, <1>4, <1>7, <1>8, <1>10 DEF OnlineLife!Play

\* Every other step of the object leaves the life as it is, or ends it.
LEMMA NothingPlayed ==
  ASSUME IInv, ObjectStep, ~ \E over \in BOOLEAN : Commit(over) \/ CommitCut(over)
  PROVE  Alive' => Alive /\ LifeView' = LifeView
<1>1. CASE \E m \in requests : Get(m) \/ Delete(m) \/ TurnAway(m)
  BY <1>1 DEF Get, Delete, TurnAway, object, GateFree, Alive, LifeView, Stored
<1>2. CASE \E m \in requests, again \in BOOLEAN : Admit(m, again)
  <2>1. PICK m \in requests, again \in BOOLEAN : Admit(m, again)
    BY <1>2
  <2> DEFINE taken == [run EXCEPT !.fresh = @ + 1]
  <2>2. /\ job = NoJob /\ Stored
        /\ job' = [pc |-> "parsing", m |-> m, run |-> taken]
    BY <2>1 DEF Admit, GateFree
  <2>3. taken.view = run.view
    BY <2>2 DEF IInv, RunIsGood, Stored, GoodRun, Runs
  <2>4. job' # NoJob /\ job'.run = taken
    BY <2>2 DEF NoJob
  <2> QED
    BY <2>2, <2>3, <2>4 DEF Alive, LifeView
<1>3. CASE \E status, v : AnswerUnchanged(status, v) /\ job # NoJob
  BY <1>3 DEF AnswerUnchanged, Alive, LifeView, Stored, IInv, JobIsGood
<1>4. CASE NotAnAttempt \/ Replay \/ Conflict \/ RunEnded \/ Refused
  <2>1. job # NoJob
    BY <1>4 DEF NotAnAttempt, Replay, Conflict, RunEnded, Refused, Playable, NoJob
  <2> QED
    BY <1>3, <1>4, <2>1 DEF NotAnAttempt, Replay, Conflict, RunEnded, Refused
<1>5. CASE AskProposal
  <2>1. job.pc = "parsing" /\ job' = [job EXCEPT !.pc = "proposing"] /\ run' = run
    BY <1>5 DEF AskProposal, Playable
  <2>2. job # NoJob /\ job \in Jobs
    BY <2>1, JobFacts
  <2>3. job' # NoJob /\ job'.run = job.run
    BY <2>1, <2>2 DEF Jobs, NoJob
  <2> QED
    BY <2>2, <2>3 DEF Alive, LifeView
<1>6. CASE \E e \in Events : AskCommentary(e) \/ StaySilent(e)
  BY <1>6 DEF AskCommentary, StaySilent, Alive, LifeView, Stored
<1>7. CASE \E e \in Events : Speak(e)
  <2>1. PICK e \in Events : Speak(e)
    BY <1>7
  <2> DEFINE lines == RememberLines(Append(run.spoken, e))
  <2>2. /\ job = NoJob /\ job' = job /\ Stored
        /\ run' = [run EXCEPT !.spoken = lines]
    BY <2>1 DEF Speak, GateFree
  <2> HIDE DEF lines
  <2>3. run'.view = run.view
    BY <2>2 DEF IInv, RunIsGood, Stored, GoodRun, Runs
  <2> QED
    BY <2>2, <2>3 DEF Alive, LifeView
<1>8. CASE RetentionAlarm
  BY <1>8 DEF RetentionAlarm, Alive, LifeView, Stored
<1>9. CASE Evict
  BY <1>9 DEF Evict, Alive, LifeView, Stored, IInv, JobIsGood
<1>10. CASE \E n \in 1 .. recent : MinutePasses(n)
  <2>1. PICK n \in 1 .. recent : MinutePasses(n)
    BY <1>10
  <2>2. /\ run' = (IF Stored THEN Aged(run, n) ELSE run)
        /\ job' = (IF job = NoJob THEN job ELSE [job EXCEPT !.run = Aged(@, n)])
        /\ n \in Nat
    BY <2>1 DEF MinutePasses, GateFree, IInv
  <2>3. CASE job = NoJob
    <3>1. Stored => Aged(run, n).view = run.view
      BY <2>2, AgedIsGood DEF IInv, RunIsGood, Stored
    <3> QED
      BY <2>2, <2>3, <3>1 DEF Alive, LifeView, Stored
  <2>4. CASE job # NoJob
    <3>1. job \in Jobs /\ Aged(job.run, n).view = job.run.view
      BY <2>2, <2>4, AgedIsGood DEF IInv, JobIsGood
    <3>2. job' = [job EXCEPT !.run = Aged(job.run, n)]
      BY <2>2, <2>4
    <3>3. job'.run = Aged(job.run, n) /\ job'.pc = job.pc /\ job' # NoJob
      BY <3>1, <3>2 DEF Jobs, NoJob
    <3> QED
      BY <2>4, <3>1, <3>3 DEF Alive, LifeView
  <2> QED
    BY <2>3, <2>4
<1> QED
  BY <1>1, <1>2, <1>4, <1>5, <1>6, <1>7, <1>8, <1>9, <1>10 DEF ObjectStep

\* A life begins once, by the tab that created it.
LEMMA LifeBegins ==
  ASSUME IInv, NEW t \in Tabs, NEW complete \in BOOLEAN, NEW heard \in BOOLEAN,
         StartLife(t, complete, heard)
  PROVE  OnlineLife!Begin
<1>1. created = "no" /\ created' # "no" /\ run' = NewRun /\ job' = job
  BY DEF StartLife, Initialize
<1>2. ~ Alive
  BY <1>1 DEF IInv, UnbornIsNew
<1>3. Alive' /\ LifeView' = NewView
  BY <1>1, <1>2, NewIsGood DEF Alive, LifeView, Stored, NewRun
<1>4. LifeStage = "unborn" /\ LifeStage' = "lived" /\ LifeNow = NewView /\ LifeNow' = NewView
  BY <1>1, <1>2, <1>3 DEF LifeStage, LifeNow, NewView
<1> QED
  BY <1>4 DEF OnlineLife!Begin

\* However its requests are lost, repeated and reordered and whenever the
\* object is evicted or its alarm comes, a run is one life: begun once, played
\* one turn at a time by attempts of their own, over for good and never back
\* once gone (handleVerified(), alarm() and startGame()).
THEOREM Refinement == Spec => ImplementsOnlineLife
<1>1. Init => OnlineLife!Init
  <2> SUFFICES ASSUME Init PROVE OnlineLife!Init
    OBVIOUS
  <2>1. ~ Alive /\ created = "no"
    BY DEF Init, ObjectInit, Alive, Stored
  <2>2. LifeStage = "unborn" /\ LifeNow = NewView
    BY <2>1 DEF LifeStage, LifeNow
  <2> QED
    BY <2>2 DEF OnlineLife!Init, NewView
<1>2. IInv /\ [Next]_vars => [OnlineLife!Next]_<<LifeStage, LifeNow.turns, LifeNow.over>>
  <2> SUFFICES ASSUME IInv, [Next]_vars
               PROVE  [OnlineLife!Next]_<<LifeStage, LifeNow.turns, LifeNow.over>>
    OBVIOUS
  <2>1. CASE ObjectStep /\ UNCHANGED tabs
    <3>1. created' = created
      BY <2>1 DEF tabs
    <3>2. CASE \E over \in BOOLEAN : Commit(over) \/ CommitCut(over)
      BY <2>1, <3>2, LifeGoesOn DEF OnlineLife!Next
    <3>3. CASE ~ \E over \in BOOLEAN : Commit(over) \/ CommitCut(over)
      BY <2>1, <3>1, <3>3, NothingPlayed, LifeIsLeft
    <3> QED
      BY <3>2, <3>3
  <2>2. CASE \E t \in Tabs, complete, heard \in BOOLEAN : StartLife(t, complete, heard)
    BY <2>2, LifeBegins DEF OnlineLife!Next
  <2>3. CASE run' = run /\ job' = job /\ created' = created
    <3>1. Alive' => Alive /\ LifeView' = LifeView
      BY <2>3 DEF Alive, LifeView, Stored
    <3> QED
      BY <2>3, <3>1, LifeIsLeft
  <2>4. CASE TabStep
    <3>1. CASE \E t \in Tabs : Continue(t) \/ Reconnect(t) \/ Leave(t)
      BY <2>3, <3>1 DEF Continue, Reconnect, Leave, object, tabs
    <3>2. CASE \E t \in Tabs, id \in Attempts : Submit(t, id)
      BY <2>3, <3>2 DEF Submit, object
    <3>3. CASE \E t \in Tabs, id \in Events : GiveUp(t, id)
      BY <2>3, <3>3 DEF GiveUp, object
    <3>4. CASE \E r \in responses : Loaded(r) \/ Answered(r) \/ Failed(r)
      BY <2>3, <3>4 DEF Loaded, Answered, Failed, object
    <3> QED
      BY <2>2, <2>4, <3>1, <3>2, <3>3, <3>4 DEF TabStep
  <2>5. CASE UNCHANGED vars
    BY <2>3, <2>5 DEF vars, object, tabs
  <2> QED
    BY <2>1, <2>4, <2>5 DEF Next
<1> QED
  BY <1>1, <1>2, Invariant, PTL DEF Spec, ImplementsOnlineLife, OnlineLife!Spec
=============================================================================
