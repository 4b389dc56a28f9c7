------------------------------- MODULE Stage --------------------------------
(***************************************************************************)
(* What the narrator of one page says aloud, and when (ui/main.ts): a beat *)
(* on the stage with its text and its sound (ui/audio.ts), a queue of      *)
(* beats behind it, and commentaries that arrive two requests after the    *)
(* turn they speak of (ui/runtime-commentary-client.ts).                   *)
(*                                                                         *)
(* currentBeatDone is the promise of the beat on the stage.  Presenting    *)
(* another beat settles it and moves beatGeneration on, so that generation *)
(* names the promise too: a continuation that was chained to an older one  *)
(* may run at any time, and finds a newer generation.                      *)
(***************************************************************************)
EXTENDS Integers, Sequences, Functions

CONSTANTS
  Turns,    \* the attempts of the life
  Gestures, \* the kinds of gesture initAudio() listens for
  None

ASSUME TurnsAssumption == Turns \in Nat /\ None \notin Nat

VARIABLES
  turn,      \* engine.getState().attempts
  stage,     \* lineQueue, queueTimer, queueScheduled, beatGeneration, the beat
  muted,
  opened,    \* the audio manifest has come and the opening has been said
  listening, \* the gestures whose listener of initAudio() is still there
  answered,  \* the attempts whose answer has come
  banner,    \* the banner of a new age is open
  comments,  \* how far the commentary on each turn has come
  awaited,   \* the commentary an ended life is waiting for
  archived   \* the ended life has been handed to the archive

vars ==
  <<turn, stage, muted, opened, listening, answered, banner, comments,
    awaited, archived>>

Reply(t) == <<"reply", t>>
Pull(t) == <<"pull", t>>
Intro == <<"intro", 0>>
Comment(t) == <<"comment", t>>

\* The lines that sayAfter() puts in the queue.
Queueable == {"pull", "comment"} \X (0 .. Turns)

-----------------------------------------------------------------------------
(* presentLine(): speak() and playLine() or playRuntimeLine() *)

EmptyStage ==
  [queue |-> <<>>, generation |-> 0, scheduled |-> FALSE, waits |-> {}, timer |-> None,
   line |-> None, sound |-> "over", typing |-> "no"]

\* How a line may sound: recorded, when the manifest is there and names it;
\* spoken, by the browser or from a commentary's stream, whose failure leaves
\* the rest to the browser; or not at all.
SoundsOf(line, manifest) ==
  {"over", "spoken"} \cup {m \in {"recorded"} : manifest /\ line[1] # "comment"}

\* A muted line neither sounds nor is typed.
Presented(s, line, sound) ==
  [s EXCEPT !.line = line,
            !.sound = IF muted THEN "over" ELSE sound,
            !.typing = IF muted THEN "no" ELSE "first"]

\* Mutant: a beat is done when its text is.
TextDone(s) == s.typing # "first"

\* Promise.all of the sound and of the text as it was first typed.
BeatDone(s) == s.sound = "over" /\ s.typing # "first"

\* Mutant: muting stops the sound and does not settle it.
RedrawnUnsettled(s, m) ==
  IF m
    THEN [s EXCEPT !.sound = IF @ = "over" THEN @ ELSE "stopped", !.typing = "no"]
    ELSE IF s.line = None THEN s ELSE [s EXCEPT !.typing = "again"]

\* renderMute(): muting settles sound and text; unmuted, the last text is typed
\* again, which settles its first typing and is no part of the promise.
Redrawn(s, m) ==
  IF m
    THEN [s EXCEPT !.sound = "over", !.typing = "no"]
    ELSE IF s.line = None THEN s ELSE [s EXCEPT !.typing = "again"]

-----------------------------------------------------------------------------
(* The queue of beats. *)

Scheduled(s) ==
  IF s.scheduled \/ s.queue = <<>>
    THEN s ELSE [s EXCEPT !.scheduled = TRUE, !.waits = @ \cup {s.generation}]

Said(s, line, sound) ==
  Presented([s EXCEPT !.queue = <<>>, !.timer = None, !.scheduled = FALSE,
                      !.generation = @ + 1], line, sound)

SaidAfter(s, line) ==
  IF line = None THEN s ELSE Scheduled([s EXCEPT !.queue = Append(@, line)])

\* The commentary's id is in the queue once at most.
Without(queue, line) ==
  IF line \in Range(queue)
    THEN LET i == CHOOSE j \in DOMAIN queue : queue[j] = line
         IN  SubSeq(queue, 1, i - 1) \o SubSeq(queue, i + 1, Len(queue))
    ELSE queue

\* Mutant: the timer is cleared and the flag left.
CancelledUnflagged(s, line) ==
  LET rest == Without(s.queue, line)
  IN  [s EXCEPT !.queue = rest, !.timer = IF rest = <<>> THEN None ELSE @]

\* Mutant: the timer is stopped and the line stays in the queue.
CancelledUnfiltered(s, line) ==
  LET idle == s.queue = <<>> /\ s.timer # None
  IN  [s EXCEPT !.timer = IF idle THEN None ELSE @,
                !.scheduled = IF idle THEN FALSE ELSE @]

\* cancelQueuedRuntimeLine()
Cancelled(s, line) ==
  LET rest == Without(s.queue, line)
      idle == rest = <<>> /\ s.timer # None
  IN  [s EXCEPT !.queue = rest, !.timer = IF idle THEN None ELSE @,
                !.scheduled = IF idle THEN FALSE ELSE @]

-----------------------------------------------------------------------------
(* Commentaries. *)

\* Mutant: only the commentary is marked.
GiveUpUnnoticed(t) ==
  /\ comments' = [comments EXCEPT ![t] = "dropped"]
  /\ UNCHANGED <<awaited, archived>>

\* The commentary on t is given up.  An ended life that awaited it goes on.
GiveUp(t) ==
  /\ comments' = [comments EXCEPT ![t] = "dropped"]
  /\ awaited' = IF awaited = t THEN None ELSE awaited
  /\ archived' = (archived \/ awaited = t)

\* Later it is said, or displaced with the rest of the queue.
Enqueue(t) ==
  /\ comments' = [comments EXCEPT ![t] = "queued"]
  /\ stage' = SaidAfter(stage, Comment(t))
  /\ UNCHANGED <<awaited, archived>>

Unmoved == UNCHANGED <<turn, muted, opened, listening, answered, banner>>

\* prepareRuntimeCommentary() looks at the turn after each of its requests.
Outdated(t) == turn # t /\ GiveUp(t) /\ UNCHANGED stage

CommentArrives(t) ==
  /\ comments[t] = "asked"
  /\ \/ Outdated(t)
     \/ turn = t /\ Enqueue(t)
     \/ /\ turn = t
        /\ comments' = [comments EXCEPT ![t] = "sounded"]
        /\ UNCHANGED <<stage, awaited, archived>>
  /\ Unmoved

AudioArrives(t) ==
  /\ comments[t] = "sounded"
  /\ \/ Outdated(t)
     \/ turn = t /\ Enqueue(t)
  /\ Unmoved

CommentFails(t) ==
  /\ comments[t] = "asked"
  /\ GiveUp(t)
  /\ UNCHANGED stage
  /\ Unmoved

\* waitForRuntimePresentation(): eight seconds, and the line was not presented.
Deadline ==
  /\ awaited # None
  /\ comments[awaited] = "queued"
  /\ GiveUp(awaited)
  /\ stage' = Cancelled(stage, Comment(awaited))
  /\ Unmoved

-----------------------------------------------------------------------------
(* What is said. *)

Ask(cue, t) == IF cue THEN [comments EXCEPT ![t] = "asked"] ELSE comments

\* The end of startGame(): by then an attempt may have been answered.
Open ==
  /\ ~ opened
  /\ opened' = TRUE
  /\ listening' = Gestures
  /\ \E line \in {Reply(0), None}, pull \in {Pull(0), None}, cue \in BOOLEAN,
        sound \in SoundsOf(Reply(0), TRUE) :
       /\ stage' = SaidAfter(IF line = None THEN stage ELSE Said(stage, line, sound), pull)
       /\ comments' = Ask(cue /\ turn = 0, 0)
  /\ UNCHANGED <<turn, muted, answered, banner, awaited, archived>>

Over == archived \/ awaited # None

\* performCombine() from the answer on.  The answers come in any order, with or
\* without a line; a life ends once.
Answer(t) ==
  /\ t \notin answered
  /\ answered' = answered \cup {t}
  /\ turn' = t
  /\ \E reply \in {Reply(t), None}, pull \in {Pull(t), None}, cue, ends \in BOOLEAN,
        sound \in SoundsOf(Reply(t), opened) :
       /\ ends => ~ Over /\ pull = None
       /\ stage' = SaidAfter(IF reply = None THEN stage ELSE Said(stage, reply, sound), pull)
       /\ comments' = Ask(cue, t)
       /\ awaited' = IF ends /\ cue THEN t ELSE awaited
       /\ archived' = (archived \/ (ends /\ ~ cue))
  /\ banner' \in {banner, TRUE}
  /\ UNCHANGED <<muted, opened, listening>>

\* A conflict brings another turn and nothing to say about it; renderAll().
Conflict(t) ==
  /\ t # turn
  /\ turn' = t
  /\ stage' = Redrawn(stage, muted)
  /\ UNCHANGED <<muted, opened, listening, answered, banner, comments, awaited, archived>>

\* The act's introduction, when the banner closes.
CloseBanner ==
  /\ banner
  /\ banner' = FALSE
  /\ \E sound \in SoundsOf(Intro, opened) :
       stage' \in {stage, Said(stage, Intro, sound)}
  /\ UNCHANGED <<turn, muted, opened, listening, answered, comments, awaited, archived>>

ToggleMute ==
  /\ muted' = ~ muted
  /\ stage' = Redrawn(stage, ~ muted)
  /\ UNCHANGED <<turn, opened, listening, answered, banner, comments, awaited, archived>>

-----------------------------------------------------------------------------
(* The beat on the stage. *)

\* Only the beat itself moves.
StageOnly ==
  UNCHANGED <<turn, muted, opened, listening, answered, banner, comments, awaited, archived>>

\* At once with reduced motion, else after 18 ms a character.
TextTyped ==
  /\ stage.typing # "no"
  /\ stage' = [stage EXCEPT !.typing = "no"]
  /\ StageOnly

SoundEnds ==
  /\ stage.sound \in {"recorded", "spoken"}
  /\ stage' = [stage EXCEPT !.sound = "over"]
  /\ StageOnly

\* The browser refuses to play, and the line waits for a gesture.
PlayRejected ==
  /\ stage.sound = "recorded"
  /\ stage' = [stage EXCEPT !.sound = "held"]
  /\ StageOnly

\* unlock(): each listener hears one gesture, whether a line waits or not.
Gesture(k) ==
  /\ k \in listening
  /\ listening' = listening \ {k}
  /\ stage' = [stage EXCEPT !.sound = IF @ = "held" THEN "recorded" ELSE @]
  /\ UNCHANGED <<turn, muted, opened, answered, banner, comments, awaited, archived>>

\* What was chained to a beat runs when that beat is done: a beat that was
\* followed by another is, and its continuation does nothing more.
Continue ==
  /\ \E g \in stage.waits :
       /\ g = stage.generation => BeatDone(stage)
       /\ stage' = [stage EXCEPT !.waits = @ \ {g},
                                 !.timer = IF g = stage.generation THEN g ELSE @]
  /\ StageOnly

Quiet(s) == [s EXCEPT !.timer = None, !.scheduled = FALSE]

\* onPresent of the commentary that an ended life awaits.
Shown(line) ==
  LET heard == awaited # None /\ line = Comment(awaited)
  IN  /\ awaited' = IF heard THEN None ELSE awaited
      /\ archived' = (archived \/ heard)

\* The pause is over, and the next beat takes the stage.  The queue may have
\* been emptied meanwhile.
TimerFires ==
  /\ stage.timer # None
  /\ IF stage.timer = stage.generation /\ stage.queue # <<>>
       THEN LET line == Head(stage.queue)
                next == [Quiet(stage) EXCEPT !.generation = @ + 1, !.queue = Tail(@)]
            IN  /\ \E sound \in SoundsOf(line, opened) :
                     stage' = Scheduled(Presented(next, line, sound))
                /\ Shown(line)
       ELSE /\ stage' = IF stage.timer = stage.generation
                          THEN Quiet(stage) ELSE [stage EXCEPT !.timer = None]
            /\ UNCHANGED <<awaited, archived>>
  /\ UNCHANGED comments
  /\ Unmoved

-----------------------------------------------------------------------------

Init ==
  /\ turn = 0
  /\ stage = EmptyStage
  /\ muted \in BOOLEAN
  /\ opened = FALSE
  /\ listening = {}
  /\ answered = {}
  /\ banner = FALSE
  /\ comments = [t \in 0 .. Turns |-> "none"]
  /\ awaited = None
  /\ archived = FALSE

Next ==
  \/ Open \/ CloseBanner \/ ToggleMute \/ Deadline
  \/ \E t \in 1 .. Turns : Answer(t)
  \/ \E t \in 0 .. Turns : \/ Conflict(t)
                           \/ CommentArrives(t) \/ AudioArrives(t) \/ CommentFails(t)
  \/ TextTyped \/ SoundEnds \/ PlayRejected
  \/ \E k \in listening : Gesture(k)
  \/ Continue \/ TimerFires

\* The page's own timers and callbacks run, a text is typed to its end, and a
\* sound that is played ends or fails.  The requests of a commentary are given
\* up after 2.5 and 0.5 seconds, the wait for it after eight.
Fairness ==
  /\ \A t \in 0 .. Turns :
       WF_vars(CommentArrives(t) \/ CommentFails(t)) /\ WF_vars(AudioArrives(t))
  /\ WF_vars(Deadline)
  /\ WF_vars(Continue)
  /\ WF_vars(TimerFires)
  /\ WF_vars(TextTyped)
  /\ WF_vars(SoundEnds)

Spec == Init /\ [][Next]_vars /\ Fairness

-----------------------------------------------------------------------------
(* Properties *)

\* A queue is never forgotten and never served twice: as long as a beat waits,
\* exactly one continuation of the beat on the stage or one running pause will
\* bring it, whatever say(), the cancellation and stale continuations do to
\* the flag, the timer and the generation in between.
QueueIsServed ==
  LET chained == stage.generation \in stage.waits
      ticking == stage.timer # None
  IN  /\ stage.queue # <<>> => stage.scheduled
      /\ stage.scheduled <=> (chained \/ ticking)
      /\ ~ (chained /\ ticking)

\* A beat that comes from the queue waits for the one before it, whose sound is over
\* by then and whose text was typed out, or settled by a mute (main.ts:788-806).  Less
\* than main.ts:746-749 says of it: a text that is typed again, after an unmute or a
\* conflict, is waited for by nobody, and the beat may overwrite it half-way.
BeatsInTurn ==
  [][(/\ stage.queue # <<>>
      /\ stage'.generation # stage.generation
      /\ stage'.line = Head(stage.queue))
     => stage.sound = "over" /\ stage.typing # "first"]_vars

\* A commentary that was given up, because its turn had passed or because the
\* ended life waited eight seconds for it, is not in the queue and is not said
\* after the life has gone on.
GivenUpStaysUnsaid ==
  \A t \in 0 .. Turns :
    comments[t] = "dropped" => Comment(t) \notin Range(stage.queue)

\* Every beat in the queue is said or displaced, unless the browser refuses to
\* play the one before it: the queue does not stop at a mute, a stream that
\* breaks or a commentary that is cancelled.
EveryBeatEnds ==
  \A l \in Queueable :
    l \in Range(stage.queue) ~> l \notin Range(stage.queue) \/ stage.sound = "held"

\* A life that has ended reaches the archive, whatever becomes of its last
\* commentary: unanswered, late, silent, displaced by another line or stuck
\* behind a beat that is held.
EndedLifeIsArchived == awaited # None ~> archived

=============================================================================
