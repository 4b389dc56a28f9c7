---------------------------- MODULE RunSession ----------------------------
(***************************************************************************)
(* A life played online: the tabs of ui/main.ts, talking through           *)
(* ui/session-client.ts to the Run object over a network that loses,       *)
(* repeats, delays and reorders.  Tabs share the run's credentials through *)
(* local storage, so several may play the same life.  A tab never repeats  *)
(* an attempt itself: after an error it shows the outage, and after a      *)
(* reconnection the title screen, from which the life is loaded again.     *)
(***************************************************************************)
EXTENDS RunObject

VARIABLES
  created,   \* "no", or the run exists and its credentials are "known" or "lost"
  screen,    \* of each tab: "title", "playing" or "gone"
  blocked,   \* activePlayBlocked
  view,      \* runRevision and the engine's state
  basis      \* history: the view an attempt was made on, NoView if not made yet

tabs == <<created, screen, blocked, view, basis>>
vars == <<object, network, witness, tabs>>

Init ==
  /\ ObjectInit
  /\ created = "no"
  /\ screen = [t \in Tabs |-> "title"]
  /\ blocked = [t \in Tabs |-> FALSE]
  /\ view = [t \in Tabs |-> NewView]
  /\ basis = [id \in Attempts |-> NoView]

-----------------------------------------------------------------------------
(* startGame() *)

\* A new life: POST /api/v1/runs, answered or not.
StartLife(t, complete, heard) ==
  /\ created = "no"
  /\ screen[t] = "title"
  /\ Initialize(complete)
  /\ heard => complete
  /\ created' = IF heard THEN "known" ELSE "lost"
  /\ screen' = [screen EXCEPT ![t] = IF heard THEN "playing" ELSE "title"]
  /\ blocked' = [blocked EXCEPT ![t] = ~ heard]
  /\ UNCHANGED <<job, speaking, network, recent, deleted, view, basis>>

\* Continue: the run is loaded.  A second load while one is under way is the same
\* request again, and one answer to it is heard.
Continue(t) ==
  /\ created = "known"
  /\ screen[t] = "title"
  /\ ~ blocked[t]
  /\ requests' = requests \cup {[op |-> "load", from |-> t, id |-> None, expected |-> 0]}
  /\ open' = open \cup {<<t, None>>}
  /\ UNCHANGED <<object, responses, witness, tabs>>

\* Mutant: the answer is given to a tab that keeps its old revision.
AdoptState(t, v) == view' = [view EXCEPT ![t] = [v EXCEPT !.rev = view[t].rev]]

\* runRevision and engine.loadState() from one and the same answer.
Adopt(t, v) == view' = [view EXCEPT ![t] = v]

\* One answer closes the connection: that to a repeated request is lost.
Close(t, id) ==
  /\ open' = open \ {<<t, id>>}
  /\ responses' = {r \in responses : r.to # t \/ r.id # id}

Hear(r) == Close(r.to, r.id)

Loaded(r) ==
  /\ r.id = None
  /\ r.status = "ok"
  /\ Hear(r)
  /\ Adopt(r.to, r.view)
  /\ screen' = [screen EXCEPT ![r.to] = "playing"]
  /\ UNCHANGED <<object, requests, witness, created, blocked, basis>>

-----------------------------------------------------------------------------
(* performCombine() *)

MayPlay(t) == screen[t] = "playing" /\ ~ blocked[t] /\ ~ view[t].over

\* Emptying a slot while an attempt is under way opens the button again, so
\* the connections of a tab may be several.
Submit(t, id) ==
  /\ MayPlay(t)
  /\ basis[id] = NoView
  /\ basis' = [basis EXCEPT ![id] = view[t]]
  /\ requests' = requests \cup
       {[op |-> "attempt", from |-> t, id |-> id, expected |-> view[t].rev]}
  /\ open' = open \cup {<<t, id>>}
  /\ UNCHANGED <<object, responses, witness, created, screen, blocked, view>>

\* 200, or 409 with the authoritative state: the tab adopts what it is told,
\* whatever its screen shows by now.
Answered(r) ==
  /\ r.id # None
  /\ r.status \in {"ok", "conflict"}
  /\ Hear(r)
  /\ Adopt(r.to, r.view)
  /\ UNCHANGED <<object, requests, witness, created, screen, blocked, basis>>

\* Any other answer, to a load or to an attempt.
Failed(r) ==
  /\ r.status \notin {"ok", "conflict"}
  /\ Hear(r)
  /\ blocked' = [blocked EXCEPT ![r.to] = TRUE]
  /\ UNCHANGED <<object, requests, witness, created, screen, view, basis>>

\* Four seconds without an answer, or a connection that broke.
GiveUp(t, id) ==
  /\ <<t, id>> \in open
  /\ Close(t, id)
  /\ blocked' = [blocked EXCEPT ![t] = TRUE]
  /\ UNCHANGED <<object, requests, witness, created, screen, view, basis>>

\* establishSession(): ready again, back to the title screen.
Reconnect(t) ==
  /\ blocked[t]
  /\ blocked' = [blocked EXCEPT ![t] = FALSE]
  /\ screen' = [screen EXCEPT ![t] = "title"]
  /\ UNCHANGED <<object, network, witness, created, view, basis>>

\* clearSave() and a reload: the run is asked to go, the answer ignored.
Leave(t) ==
  /\ created = "known"
  /\ screen[t] # "gone"
  /\ ~ blocked[t]
  /\ screen' = [screen EXCEPT ![t] = "gone"]
  /\ requests' = requests \cup {[op |-> "delete", from |-> t, id |-> None, expected |-> 0]}
  /\ open' = {c \in open : c[1] # t}
  /\ responses' = {r \in responses : r.to # t}
  /\ UNCHANGED <<object, witness, created, blocked, view, basis>>

TabStep ==
  \/ \E t \in Tabs, complete, heard \in BOOLEAN : StartLife(t, complete, heard)
  \/ \E t \in Tabs : Continue(t) \/ Reconnect(t) \/ Leave(t)
  \/ \E t \in Tabs, id \in Attempts : Submit(t, id)
  \/ \E t \in Tabs, id \in Events : GiveUp(t, id)
  \/ \E r \in responses : Loaded(r) \/ Answered(r) \/ Failed(r)

Next ==
  \/ ObjectStep /\ UNCHANGED tabs
  \/ TabStep

\* A body arrives or its upload is cut, and a proposal arrives or times out
\* after four seconds: whatever holds the gate is answered.
GateStep ==
  \/ NotAnAttempt \/ Replay \/ Conflict \/ RunEnded \/ AskProposal \/ Refused
  \/ \E over \in BOOLEAN : Commit(over)

Spec == Init /\ [][Next]_vars

FairSpec == Spec /\ WF_vars(GateStep /\ UNCHANGED tabs)

-----------------------------------------------------------------------------
(* What the session promises. *)

\* No attempt is played twice, however often the network delivers it
\* (the revision check and the log of answers in handleVerified()).
PlayedOnce == IsInjective(run.view.turns)

\* Every turn was played on the very state its player saw: nobody's attempt
\* is applied to a life that went on in another tab or without an answer
\* (expectedRevision in performCombine() and handleVerified()).
PlayedAsSeen ==
  \A i \in DOMAIN run.view.turns :
    basis[run.view.turns[i]].turns = SubSeq(run.view.turns, 1, i - 1)

\* A tab never shows a turn that the stored life does not have: its state is
\* a stage of that life, and its revision the number of that stage.
TabsShowThePast ==
  \A t \in Tabs :
    /\ view[t].rev = Len(view[t].turns)
    /\ Stored => IsPrefix(view[t].turns, run.view.turns)

\* An attempt that is answered 200 is answered with the state it led to,
\* also when it is delivered a second time after the life went on.
AnswersAreOwn ==
  \A r \in responses :
    r.status = "ok" /\ r.id # None => Last(r.view.turns) = r.id

\* Retries are idempotent for the whole life: the log of answers never
\* forgets a turn that was played.
RetriesAreAnswered ==
  \A i \in DOMAIN run.view.turns :
    \E j \in DOMAIN run.answers : run.answers[j].id = run.view.turns[i]

\* The 409 that carries neither revision nor state never reaches a tab, which
\* would load an undefined state from it (session-client.ts attempt()).
NoBareConflict == \A r \in responses : r.status # "ended"

\* In any minute at most RateMax attempts are admitted, the malformed and the
\* failed ones included.
RateCeiling == recent <= RateMax

\* A stored run will be deleted in the end: its alarm is set, unless an
\* eviction cut the last write short.
RetentionHolds == Stored /\ ~ cut => alarm

\* A life its player deleted is never written again: an attempt or a
\* commentary under way does not bring it back.
DeletedStaysDeleted == deleted => ~ Stored

\* A line once recorded stays recorded as long as the run is stored: the
\* commentary and the attempts do not overwrite each other's run.
LinesAreKept ==
  [][Stored /\ run' # NoRun =>
       ToSet(run.spoken) \subseteq ToSet(run'.spoken)]_vars

\* The life is what the handler under the gate will write back, or else what
\* is stored; when a life begins there is nothing to be seen of it.
Alive == job # NoJob \/ Stored

LifeView == IF job # NoJob THEN job.run.view ELSE run.view

LifeStage == IF created = "no" THEN "unborn" ELSE IF Alive THEN "lived" ELSE "gone"

LifeNow == IF Alive THEN LifeView ELSE NewView

OnlineLife == INSTANCE OnlineLife WITH
  stage <- LifeStage, turns <- LifeNow.turns, over <- LifeNow.over

\* However its requests are lost, repeated and reordered, and whenever the
\* object is evicted or its alarm comes, the run is one life: it implements
\* OnlineLife (the gate, the log of answers and the revision check of
\* handleVerified(), and alarm(), which does not take the gate).
ImplementsOnlineLife == OnlineLife!Spec

\* Whatever holds the gate lets go of it, so nobody waits for ever behind it.
GateIsFreed == job # NoJob ~> job = NoJob
=============================================================================
