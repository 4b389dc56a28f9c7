----------------------------- MODULE RunObject -----------------------------
(***************************************************************************)
(* The Run Durable Object of run-do.ts: one life of Karl kept on the       *)
(* server, with its revision, its log of answered attempts, its rate slots,*)
(* its spoken commentary and its retention alarm.                          *)
(*                                                                         *)
(* A game state is the sequence of the attempts that made it.  Unlike the  *)
(* Coordinator's, the gate of this object is held while an attempt waits:  *)
(* for its body and for a generated proposal.  Only the alarm and an       *)
(* eviction come between.                                                  *)
(***************************************************************************)
EXTENDS Integers, Sequences, SequencesExt

CONSTANTS
  Tabs,            \* browser tabs that play this life
  Attempts,        \* attempt ids
  Cues,            \* attempts whose outcome is worth a line, None the opening
  TurnLimit,       \* turnLimit of content/config.json
  MaxIdempotency,  \* MAX_IDEMPOTENCY
  MaxCommentary,   \* MAX_COMMENTARY_RECORDS
  RateMax,         \* attempts a minute
  None             \* the id of a request that is no attempt

\* A life fits in the log of answers, as 50 turns do in 50 entries, and in the
\* commentary memory with its opening, as 50 turns do in 51 records.
ASSUME LifeFitsAssumption ==
  /\ TurnLimit \in Nat \ {0}
  /\ MaxIdempotency \in Nat /\ MaxIdempotency >= TurnLimit
  /\ MaxCommentary \in Nat /\ MaxCommentary > TurnLimit
  /\ RateMax \in Nat

ASSUME NoneIsNoAttempt == None \notin Attempts
ASSUME CuesAssumption == Cues \subseteq Attempts \cup {None}

VARIABLES
  \* Durable storage.
  run,        \* "run:v1"
  alarm,      \* is the retention alarm set?
  \* Memory of the object, lost when it is evicted.
  job,        \* the attempt that holds the gate, with its copy of the run
  speaking,   \* commentaryInFlight
  \* The network.
  requests,   \* sent to the object
  responses,  \* sent to a tab
  open,       \* <<tab, id>>: connections whose answer a tab still waits for
  \* History, written by no code.
  recent,     \* attempts admitted in the last minute
  deleted,    \* has a player deleted the run?
  cut         \* did an eviction keep the last write from setting the alarm?

object == <<run, alarm, job, speaking>>
network == <<requests, responses, open>>
witness == <<recent, deleted, cut>>

NewView == [rev |-> 0, turns |-> <<>>, over |-> FALSE]
NoView == [rev |-> -1, turns |-> <<>>, over |-> FALSE]

NewRun == [view |-> NewView, answers |-> <<>>, fresh |-> 0, spoken |-> <<>>]
NoRun == [view |-> NoView, answers |-> <<>>, fresh |-> 0, spoken |-> <<>>]

NoJob == [pc |-> "none"]

Stored == run # NoRun

\* Mutant: the gate is forgotten.
GateIgnored == TRUE

GateFree == job = NoJob

\* s.slice(-n)
LastOf(s, n) == SubSeq(s, IF Len(s) > n THEN Len(s) - n + 1 ELSE 1, Len(s))

\* A tab that no longer waits on the connection never sees the answer.
Reply(m, status, view) ==
  responses' =
    IF <<m.from, m.id>> \in open
      THEN responses \cup {[to |-> m.from, id |-> m.id, status |-> status, view |-> view]}
      ELSE responses

ObjectInit ==
  /\ run = NoRun
  /\ alarm = FALSE
  /\ job = NoJob
  /\ speaking = {}
  /\ requests = {}
  /\ responses = {}
  /\ open = {}
  /\ recent = 0
  /\ deleted = FALSE
  /\ cut = FALSE

-----------------------------------------------------------------------------
(* initialize(): put, then setAlarm.  An eviction may fall between them. *)

Initialize(complete) ==
  /\ ~ Stored
  /\ run' = NewRun
  /\ alarm' = complete
  /\ cut' = ~ complete

(* GET and DELETE of handleVerified(). *)

Get(m) ==
  /\ m.op = "load"
  /\ GateFree
  /\ requests' = requests \ {m}
  /\ IF Stored THEN Reply(m, "ok", run.view) ELSE Reply(m, "failed", NoView)
  /\ UNCHANGED <<object, open, witness>>

Delete(m) ==
  /\ m.op = "delete"
  /\ GateFree
  /\ requests' = requests \ {m}
  /\ run' = NoRun
  /\ deleted' = (deleted \/ Stored)
  /\ UNCHANGED <<alarm, job, speaking, responses, open, recent, cut>>

-----------------------------------------------------------------------------
(* POST of handleVerified(): an attempt. *)

\* 404 or 429, before anything is written.
TurnAway(m) ==
  /\ m.op = "attempt"
  /\ GateFree
  /\ ~ Stored \/ run.fresh >= RateMax
  /\ requests' = requests \ {m}
  /\ Reply(m, "failed", NoView)
  /\ UNCHANGED <<object, open, witness>>

SaveSlot(taken) == run' = taken

\* The rate slot is durable before the body is parsed.  The network may
\* deliver a request again: a copy stays under way.
Admit(m, again) ==
  LET taken == [run EXCEPT !.fresh = @ + 1] IN
  /\ m.op = "attempt"
  /\ GateFree
  /\ Stored
  /\ run.fresh < RateMax
  /\ SaveSlot(taken)
  /\ job' = [pc |-> "parsing", m |-> m, run |-> taken]
  /\ requests' = IF again THEN requests ELSE requests \ {m}
  /\ recent' = recent + 1
  /\ UNCHANGED <<alarm, speaking, responses, open, deleted, cut>>

\* Mutant: an early return keeps the gate.
AnswerKeepsGate(status, view) ==
  /\ Reply(job.m, status, view)
  /\ UNCHANGED <<object, requests, open, witness>>

\* The attempt is over, with nothing more written than its rate slot.
AnswerUnchanged(status, view) ==
  /\ Reply(job.m, status, view)
  /\ job' = NoJob
  /\ UNCHANGED <<run, alarm, speaking, requests, open, witness>>

\* 400: the body is no attempt.
NotAnAttempt ==
  /\ job.pc = "parsing"
  /\ AnswerUnchanged("failed", NoView)

\* Mutant: a replayed attempt is answered with the state of today.
PriorCurrent(j) ==
  {j.run.view : a \in {x \in ToSet(j.run.answers) : x.id = j.m.id}}

\* What was answered to this attempt before, if it was.
Prior(j) == {a.view : a \in {x \in ToSet(j.run.answers) : x.id = j.m.id}}

Replay ==
  /\ job.pc = "parsing"
  /\ \E v \in Prior(job) : AnswerUnchanged("ok", v)

\* 409, with the state the tab should have known.
Conflict ==
  /\ job.pc = "parsing"
  /\ Prior(job) = {}
  /\ job.m.expected # job.run.view.rev
  /\ AnswerUnchanged("conflict", job.run.view)

\* 409 with neither a revision nor a state.
RunEnded ==
  /\ job.pc = "parsing"
  /\ Prior(job) = {}
  /\ job.m.expected = job.run.view.rev
  /\ job.run.view.over
  /\ AnswerUnchanged("ended", NoView)

\* Mutant: nothing is compared.
PlayableUnchecked(j) == j.pc = "parsing"

\* Mutant: whatever revision the tab expected, the turn is played.
PlayableAnyRevision(j) ==
  /\ j.pc = "parsing"
  /\ Prior(j) = {}
  /\ ~ j.run.view.over

\* The attempt is new, was made on this very state, and the life goes on.
Playable(j) ==
  /\ j.pc = "parsing"
  /\ Prior(j) = {}
  /\ j.m.expected = j.run.view.rev
  /\ ~ j.run.view.over

\* No authored combination: the Coordinator is asked, under the gate.
AskProposal ==
  /\ Playable(job)
  /\ job' = [job EXCEPT !.pc = "proposing"]
  /\ UNCHANGED <<run, alarm, speaking, network, witness>>

\* 400 from the engine, or the Coordinator's own failure: nothing is committed.
Refused ==
  /\ Playable(job) \/ job.pc = "proposing"
  /\ AnswerUnchanged("failed", NoView)

\* Mutant: one answer fewer is remembered.
RememberFewer(answers) == LastOf(answers, MaxIdempotency - 1)

Remember(answers) == LastOf(answers, MaxIdempotency)

\* The run after one more turn; the last summer always ends it.
Played(j, over) ==
  LET turns == Append(j.run.view.turns, j.m.id)
      view == [rev |-> j.run.view.rev + 1, turns |-> turns,
               over |-> over \/ Len(turns) >= TurnLimit]
  IN [j.run EXCEPT !.view = view,
                   !.answers = Remember(Append(@, [id |-> j.m.id, view |-> view]))]

\* Mutant: the retention is not renewed.
RetentionLeft == UNCHANGED alarm

RenewRetention == alarm' = TRUE

\* combine() or attemptGenerated() succeeded.
Commit(over) ==
  LET played == Played(job, over) IN
  /\ Playable(job) \/ job.pc = "proposing"
  /\ run' = played
  /\ RenewRetention
  /\ Reply(job.m, "ok", played.view)
  /\ job' = NoJob
  /\ cut' = FALSE
  /\ UNCHANGED <<speaking, requests, open, recent, deleted>>

\* Evicted between put and setAlarm.
CommitCut(over) ==
  /\ Playable(job) \/ job.pc = "proposing"
  /\ run' = Played(job, over)
  /\ job' = NoJob
  /\ speaking' = {}
  /\ cut' = TRUE
  /\ UNCHANGED <<alarm, network, recent, deleted>>

-----------------------------------------------------------------------------
(* handleCommentary() and generateCommentary(): gate, model, gate. *)

Events == Attempts \cup {None}        \* None names the opening

HasCue(e) ==
  /\ e \in Cues
  /\ e = None \/ \E i \in DOMAIN run.answers : run.answers[i].id = e

AskCommentary(e) ==
  /\ GateFree
  /\ Stored
  /\ HasCue(e)
  /\ e \notin ToSet(run.spoken)
  /\ e \notin speaking
  /\ speaking' = speaking \cup {e}
  /\ UNCHANGED <<run, alarm, job, network, witness>>

\* Mutant: one line fewer is remembered.
RememberLess(spoken) == LastOf(spoken, MaxCommentary - 1)

RememberLines(spoken) == LastOf(spoken, MaxCommentary)

\* The line has come, and is new in this life.
Speak(e) ==
  /\ e \in speaking
  /\ GateFree
  /\ Stored
  /\ e \notin ToSet(run.spoken)
  /\ run' = [run EXCEPT !.spoken = RememberLines(Append(@, e))]
  /\ alarm' = TRUE
  /\ cut' = FALSE
  /\ speaking' = speaking \ {e}
  /\ UNCHANGED <<job, network, recent, deleted>>

\* No line: the provider failed, repeated itself, or the run is gone.
StaySilent(e) ==
  /\ e \in speaking
  /\ speaking' = speaking \ {e}
  /\ UNCHANGED <<run, alarm, job, network, witness>>

-----------------------------------------------------------------------------
(* The platform. *)

\* alarm() does not take the gate: an attempt may be waiting.
RetentionAlarm ==
  /\ alarm
  /\ alarm' = FALSE
  /\ run' = NoRun
  /\ UNCHANGED <<job, speaking, network, witness>>

Evict ==
  /\ job # NoJob \/ speaking # {}
  /\ job' = NoJob
  /\ speaking' = {}
  /\ UNCHANGED <<run, alarm, network, witness>>

\* Stamps leave the window of a minute, the oldest first, wherever they are.
Aged(r, n) == [r EXCEPT !.fresh = IF @ > n THEN @ - n ELSE 0]

MinutePasses(n) ==
  /\ recent' = recent - n
  /\ run' = IF Stored THEN Aged(run, n) ELSE run
  /\ job' = IF GateFree THEN job ELSE [job EXCEPT !.run = Aged(@, n)]
  /\ UNCHANGED <<alarm, speaking, network, deleted, cut>>

ObjectStep ==
  \/ \E m \in requests : Get(m) \/ Delete(m) \/ TurnAway(m)
  \/ \E m \in requests, again \in BOOLEAN : Admit(m, again)
  \/ NotAnAttempt \/ Replay \/ Conflict \/ RunEnded \/ AskProposal \/ Refused
  \/ \E over \in BOOLEAN : Commit(over) \/ CommitCut(over)
  \/ \E e \in Events : AskCommentary(e) \/ Speak(e) \/ StaySilent(e)
  \/ RetentionAlarm
  \/ Evict
  \/ \E n \in 1 .. recent : MinutePasses(n)
=============================================================================
