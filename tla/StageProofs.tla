---------------------------- MODULE StageProofs -----------------------------
(***************************************************************************)
(* Stage for every number of turns: the queue of beats is always served by *)
(* exactly one continuation or pause, a queued beat never cuts the one     *)
(* before it, and a commentary that was given up is never said.            *)
(*                                                                         *)
(* The strengthening: a pause belongs to the beat on the stage and only    *)
(* begins when that beat is done, no continuation is chained to a beat to  *)
(* come, and a commentary is asked for once and queued once.               *)
(***************************************************************************)
EXTENDS Stage, SequenceTheorems, TLAPS

Lines == {"reply", "pull", "comment", "intro"} \X (0 .. Turns)

Sounds == {"over", "recorded", "spoken", "held"}

Stages ==
  [queue : Seq(Queueable), generation : Nat, scheduled : BOOLEAN, waits : SUBSET Nat,
   timer : Nat \cup {None}, line : Lines \cup {None}, sound : Sounds,
   typing : {"no", "first", "again"}]

\* The flag, the continuations and the pause agree, whatever the queue holds.
Linked(s) ==
  /\ s \in Stages
  /\ s.scheduled <=> (s.generation \in s.waits \/ s.timer # None)
  /\ ~ (s.generation \in s.waits /\ s.timer # None)
  /\ s.timer # None => s.timer = s.generation /\ BeatDone(s)
  /\ \A g \in s.waits : g <= s.generation

Served(s) == Linked(s) /\ (s.queue # <<>> => s.scheduled)

Settled == Served(stage)

-----------------------------------------------------------------------------
(* The functions on the stage. *)

\* Scheduling serves a queue and moves nothing that is seen or heard.
LEMMA ScheduledServes ==
  ASSUME NEW s, Linked(s)
  PROVE  /\ Served(Scheduled(s))
         /\ Scheduled(s).queue = s.queue
         /\ Scheduled(s).generation = s.generation
         /\ Scheduled(s).line = s.line
<1>1. CASE s.scheduled \/ s.queue = <<>>
  BY <1>1 DEF Scheduled, Served
<1>2. CASE ~ s.scheduled /\ s.queue # <<>>
  <2> DEFINE r == [s EXCEPT !.scheduled = TRUE, !.waits = @ \cup {s.generation}]
  <2>1. Scheduled(s) = r
    BY <1>2 DEF Scheduled
  <2>2. /\ r \in Stages /\ r.scheduled = TRUE /\ r.waits = s.waits \cup {s.generation}
        /\ r.generation = s.generation /\ r.timer = s.timer /\ r.queue = s.queue
        /\ r.line = s.line /\ r.sound = s.sound /\ r.typing = s.typing
    BY DEF Linked, Stages
  <2>3. s.timer = None /\ s.generation \in Nat
    BY <1>2 DEF Linked, Stages
  <2> HIDE DEF r
  <2>4. Served(r)
    BY <2>2, <2>3 DEF Linked, Served, BeatDone
  <2> QED
    BY <2>1, <2>2, <2>4
<1> QED
  BY <1>1, <1>2

\* A beat put in the queue is served.
LEMMA SaidAfterServes ==
  ASSUME NEW s, Served(s), NEW line \in Queueable \cup {None}
  PROVE  /\ Served(SaidAfter(s, line))
         /\ SaidAfter(s, line).queue = IF line = None THEN s.queue ELSE Append(s.queue, line)
         /\ SaidAfter(s, line).generation = s.generation
         /\ SaidAfter(s, line).line = s.line
<1>1. CASE line = None
  BY <1>1 DEF SaidAfter
<1>2. CASE line # None
  <2> DEFINE r == [s EXCEPT !.queue = Append(@, line)]
  <2>1. SaidAfter(s, line) = Scheduled(r)
    BY <1>2 DEF SaidAfter
  <2>2. line \in Queueable
    BY <1>2
  <2>3. Append(s.queue, line) \in Seq(Queueable)
    BY <2>2, AppendProperties DEF Served, Linked, Stages
  <2>4. /\ r \in Stages /\ r.scheduled = s.scheduled /\ r.waits = s.waits
        /\ r.generation = s.generation /\ r.timer = s.timer
        /\ r.queue = Append(s.queue, line)
        /\ r.line = s.line /\ r.sound = s.sound /\ r.typing = s.typing
    BY <2>3 DEF Served, Linked, Stages
  <2> HIDE DEF r
  <2>5. Linked(r)
    BY <2>4 DEF Served, Linked, BeatDone
  <2> QED
    BY <1>2, <2>1, <2>4, <2>5, ScheduledServes
<1> QED
  BY <1>1, <1>2

\* A line that is said at once leaves nothing behind it.
LEMMA SaidServes ==
  ASSUME NEW s, Served(s), NEW line \in Lines, NEW sound \in Sounds, muted \in BOOLEAN
  PROVE  /\ Served(Said(s, line, sound))
         /\ Said(s, line, sound).queue = <<>>
         /\ Said(s, line, sound).generation = s.generation + 1
         /\ Said(s, line, sound).line = line
<1> DEFINE r == Said(s, line, sound)
<1>1. /\ r \in Stages /\ r.queue = <<>> /\ r.timer = None /\ r.scheduled = FALSE
      /\ r.generation = s.generation + 1 /\ r.waits = s.waits /\ r.line = line
  <2>1. s \in Stages
    BY DEF Served, Linked
  <2>2. <<>> \in Seq(Queueable) /\ s.generation + 1 \in Nat
    BY <2>1 DEF Stages
  <2>3. (IF muted THEN "over" ELSE sound) \in Sounds
    BY DEF Sounds
  <2> QED
    BY <2>1, <2>2, <2>3 DEF Said, Presented, Stages
<1>2. s.generation \in Nat /\ s.waits \in SUBSET Nat
  BY DEF Served, Linked, Stages
<1>3. \A g \in s.waits : g <= s.generation
  BY DEF Served, Linked
<1> HIDE DEF r
<1>4. Served(r)
  BY <1>1, <1>2, <1>3 DEF Served, Linked
<1> QED
  BY <1>1, <1>4 DEF r

\* Muting and unmuting move neither the queue nor what serves it.
LEMMA RedrawnServes ==
  ASSUME NEW s, Served(s), NEW m \in BOOLEAN
  PROVE  /\ Served(Redrawn(s, m))
         /\ Redrawn(s, m).queue = s.queue
         /\ Redrawn(s, m).generation = s.generation
<1> DEFINE r == Redrawn(s, m)
<1>1. /\ r \in Stages /\ r.queue = s.queue /\ r.timer = s.timer /\ r.scheduled = s.scheduled
      /\ r.generation = s.generation /\ r.waits = s.waits /\ r.line = s.line
      /\ BeatDone(s) => BeatDone(r)
  BY DEF Redrawn, Served, Linked, Stages, Sounds, BeatDone
<1> HIDE DEF r
<1>2. Served(r)
  BY <1>1 DEF Served, Linked
<1> QED
  BY <1>1, <1>2 DEF r

-----------------------------------------------------------------------------
(* Taking a commentary out of the queue. *)

\* A commentary stands in the queue once at most.
Once(queue) ==
  \A i, j \in DOMAIN queue : queue[i] = queue[j] /\ queue[i][1] = "comment" => i = j

\* What is left of an empty queue is empty, of any queue is part of it, and the
\* line is gone from it.
LEMMA WithoutIsRest ==
  ASSUME NEW q \in Seq(Queueable), Once(q), NEW t \in 0 .. Turns
  PROVE  LET rest == Without(q, Comment(t)) IN
         /\ rest \in Seq(Queueable)
         /\ Once(rest)
         /\ Range(rest) \subseteq Range(q)
         /\ Comment(t) \notin Range(rest)
         /\ q = <<>> => rest = <<>>
<1> DEFINE rest == Without(q, Comment(t))
<1>1. CASE Comment(t) \notin Range(q)
  BY <1>1 DEF Without
<1>2. CASE Comment(t) \in Range(q)
  <2>1. PICK i \in DOMAIN q : /\ q[i] = Comment(t)
                              /\ rest = SubSeq(q, 1, i - 1) \o SubSeq(q, i + 1, Len(q))
    <3>1. \E j \in DOMAIN q : q[j] = Comment(t)
      BY <1>2 DEF Range
    <3> QED
      BY <1>2, <3>1 DEF Without
  <2> DEFINE a == SubSeq(q, 1, i - 1)
             b == SubSeq(q, i + 1, Len(q))
  <2>2. i \in 1 .. Len(q) /\ Len(q) \in Nat
    OBVIOUS
  <2>3. a \in Seq(Queueable) /\ Len(a) = i - 1 /\ \A k \in 1 .. i - 1 : a[k] = q[k]
    BY <2>2
  <2>4. b \in Seq(Queueable) /\ Len(b) = Len(q) - i /\ \A k \in 1 .. Len(q) - i : b[k] = q[i + k]
    BY <2>2
  <2>5. rest = a \o b
    BY <2>1
  <2> HIDE DEF a, b, rest
  <2>6. /\ rest \in Seq(Queueable) /\ Len(rest) = Len(q) - 1
        /\ \A k \in 1 .. Len(rest) : rest[k] = IF k < i THEN q[k] ELSE q[k + 1]
    <3>1. rest \in Seq(Queueable) /\ Len(rest) = Len(a) + Len(b)
      BY <2>3, <2>4, <2>5, ConcatProperties
    <3>2. \A k \in 1 .. Len(rest) : rest[k] = IF k <= Len(a) THEN a[k] ELSE b[k - Len(a)]
      BY <2>3, <2>4, <2>5, ConcatProperties
    <3>3. Len(rest) = Len(q) - 1
      BY <2>2, <2>3, <2>4, <3>1
    <3>4. ASSUME NEW k \in 1 .. Len(rest)
          PROVE  rest[k] = IF k < i THEN q[k] ELSE q[k + 1]
      <4>1. CASE k < i
        BY <2>2, <2>3, <3>2, <3>3, <4>1
      <4>2. CASE ~ k < i
        <5>1. k - Len(a) \in 1 .. Len(q) - i /\ ~ k <= Len(a) /\ i + (k - Len(a)) = k + 1
          BY <2>2, <2>3, <3>3, <4>2
        <5> QED
          BY <2>4, <3>2, <4>2, <5>1
      <4> QED
        BY <4>1, <4>2
    <3> QED
      BY <3>1, <3>3, <3>4
  <2>7. Once(rest)
    <3> SUFFICES ASSUME NEW k \in 1 .. Len(rest), NEW l \in 1 .. Len(rest),
                        rest[k] = rest[l], rest[k][1] = "comment"
                 PROVE  k = l
      BY <2>6 DEF Once
    <3> DEFINE up(n) == IF n < i THEN n ELSE n + 1
    <3>1. up(k) \in 1 .. Len(q) /\ up(l) \in 1 .. Len(q)
      BY <2>2, <2>6
    <3>2. q[up(k)] = q[up(l)] /\ q[up(k)][1] = "comment"
      BY <2>6
    <3>3. up(k) = up(l)
      BY <3>1, <3>2 DEF Once
    <3> QED
      BY <2>2, <2>6, <3>3
  <2>8. \A k \in 1 .. Len(rest) : rest[k] \in Range(q) /\ rest[k] # Comment(t)
    <3> SUFFICES ASSUME NEW k \in 1 .. Len(rest)
                 PROVE  rest[k] \in Range(q) /\ rest[k] # Comment(t)
      OBVIOUS
    <3> DEFINE n == IF k < i THEN k ELSE k + 1
    <3>1. n \in DOMAIN q /\ n # i /\ rest[k] = q[n]
      BY <2>2, <2>6
    <3> HIDE DEF n
    <3>2. q[i][1] = "comment"
      BY <2>1 DEF Comment
    <3>3. q[n] # q[i]
      BY <3>1, <3>2 DEF Once
    <3> QED
      BY <2>1, <3>1, <3>3 DEF Range
  <2>9. Range(rest) \subseteq Range(q) /\ Comment(t) \notin Range(rest)
    BY <2>6, <2>8 DEF Range
  <2>10. q # <<>>
    BY <2>2
  <2> QED
    BY <2>6, <2>7, <2>9, <2>10 DEF rest
<1> QED
  BY <1>1, <1>2

\* A cancelled line leaves a queue that is still served.
LEMMA CancelledServes ==
  ASSUME NEW s, Served(s), Once(s.queue), NEW t \in 0 .. Turns
  PROVE  /\ Served(Cancelled(s, Comment(t)))
         /\ Cancelled(s, Comment(t)).queue = Without(s.queue, Comment(t))
         /\ Cancelled(s, Comment(t)).generation = s.generation
<1> DEFINE r == Cancelled(s, Comment(t))
           rest == Without(s.queue, Comment(t))
           idle == rest = <<>> /\ s.timer # None
<1>1. s.queue \in Seq(Queueable)
  BY DEF Served, Linked, Stages
<1>2. rest \in Seq(Queueable) /\ (s.queue = <<>> => rest = <<>>)
  BY <1>1, WithoutIsRest
<1>3. r = [s EXCEPT !.queue = rest, !.timer = IF idle THEN None ELSE @,
                    !.scheduled = IF idle THEN FALSE ELSE @]
  BY DEF Cancelled
<1> HIDE DEF rest, r
<1>4. /\ r \in Stages /\ r.queue = rest /\ r.generation = s.generation /\ r.waits = s.waits
      /\ r.timer = (IF idle THEN None ELSE s.timer)
      /\ r.scheduled = (IF idle THEN FALSE ELSE s.scheduled)
      /\ r.sound = s.sound /\ r.typing = s.typing
  BY <1>2, <1>3 DEF Served, Linked, Stages
<1>5. Served(r)
  <2>1. CASE idle
    BY <1>4, <2>1 DEF Served, Linked
  <2>2. CASE ~ idle
    BY <1>2, <1>4, <2>2 DEF Served, Linked, BeatDone
  <2> QED
    BY <2>1, <2>2
<1> QED
  BY <1>4, <1>5 DEF r, rest

\* What is appended to a queue and what is taken from its head.
LEMMA AppendOnce ==
  ASSUME NEW q \in Seq(Queueable), Once(q), NEW x \in Queueable,
         x[1] = "comment" => x \notin Range(q)
  PROVE  Once(Append(q, x)) /\ Range(Append(q, x)) = Range(q) \cup {x}
<1> DEFINE r == Append(q, x)
<1>1. /\ Len(r) = Len(q) + 1 /\ DOMAIN r = 1 .. Len(q) + 1 /\ DOMAIN q = 1 .. Len(q)
      /\ Len(q) \in Nat /\ r[Len(q) + 1] = x
      /\ \A k \in 1 .. Len(q) : r[k] = q[k]
  BY AppendProperties
<1> HIDE DEF r
<1>2. \A k \in 1 .. Len(q) : r[k] \in Range(q)
  BY <1>1 DEF Range
<1>3. \A k \in DOMAIN r : k \in 1 .. Len(q) \/ k = Len(q) + 1
  BY <1>1
<1>4. Once(r)
  <2> SUFFICES ASSUME NEW i \in DOMAIN r, NEW j \in DOMAIN r, r[i] = r[j], r[i][1] = "comment"
               PROVE  i = j
    BY DEF Once
  <2>1. CASE i \in 1 .. Len(q) /\ j \in 1 .. Len(q)
    BY <1>1, <2>1 DEF Once
  <2>2. CASE i \in 1 .. Len(q) /\ j = Len(q) + 1
    BY <1>1, <1>2, <2>2
  <2>3. CASE i = Len(q) + 1 /\ j \in 1 .. Len(q)
    BY <1>1, <1>2, <2>3
  <2>4. CASE i = Len(q) + 1 /\ j = Len(q) + 1
    BY <2>4
  <2> QED
    BY <1>3, <2>1, <2>2, <2>3, <2>4
<1>5. Range(r) \subseteq Range(q) \cup {x}
  BY <1>1, <1>2, <1>3 DEF Range
<1>6. Range(q) \subseteq Range(r)
  <2>1. \A k \in DOMAIN q : k \in DOMAIN r /\ q[k] = r[k]
    BY <1>1
  <2> QED
    BY <2>1 DEF Range
<1>7. x \in Range(r)
  <2>1. Len(q) + 1 \in DOMAIN r
    BY <1>1
  <2> QED
    BY <1>1, <2>1 DEF Range
<1> QED
  BY <1>4, <1>5, <1>6, <1>7 DEF r

LEMMA TailOnce ==
  ASSUME NEW q \in Seq(Queueable), Once(q), q # <<>>
  PROVE  /\ Head(q) \in Queueable
         /\ Tail(q) \in Seq(Queueable)
         /\ Once(Tail(q))
         /\ Range(Tail(q)) \subseteq Range(q)
<1> DEFINE r == Tail(q)
<1>1. /\ Head(q) \in Queueable /\ r \in Seq(Queueable) /\ Len(r) = Len(q) - 1
      /\ Len(q) \in Nat /\ DOMAIN q = 1 .. Len(q) /\ DOMAIN r = 1 .. Len(q) - 1
      /\ \A k \in 1 .. Len(q) - 1 : r[k] = q[k + 1]
  BY HeadTailProperties
<1> HIDE DEF r
<1>2. \A k \in DOMAIN r : k + 1 \in DOMAIN q /\ r[k] = q[k + 1] /\ k \in Int
  BY <1>1
<1>3. Once(r)
  <2> SUFFICES ASSUME NEW i \in DOMAIN r, NEW j \in DOMAIN r, r[i] = r[j], r[i][1] = "comment"
               PROVE  i = j
    BY DEF Once
  <2>1. i + 1 = j + 1
    BY <1>2 DEF Once
  <2> QED
    BY <1>2, <2>1
<1>4. Range(r) \subseteq Range(q)
  BY <1>2 DEF Range
<1> QED
  BY <1>1, <1>3, <1>4 DEF r

-----------------------------------------------------------------------------
(* The invariant. *)

Progress == {"none", "asked", "sounded", "queued", "dropped"}

TypeOK ==
  /\ turn \in 0 .. Turns
  /\ muted \in BOOLEAN
  /\ opened \in BOOLEAN
  /\ answered \subseteq 1 .. Turns
  /\ comments \in [0 .. Turns -> Progress]
  /\ awaited \in (0 .. Turns) \cup {None}

\* A commentary is asked for once, and queued once.
AskedOnce ==
  /\ Once(stage.queue)
  /\ \A t \in 0 .. Turns : Comment(t) \in Range(stage.queue) => comments[t] = "queued"
  /\ \A t \in 1 .. Turns : t \notin answered => comments[t] = "none"
  /\ ~ opened => comments[0] = "none"

IInv == TypeOK /\ Settled /\ AskedOnce

\* r is served like s and holds no commentary that s does not.
Keeps(s, r) ==
  /\ Served(r)
  /\ Once(r.queue)
  /\ \A t \in 0 .. Turns : Comment(t) \in Range(r.queue) => Comment(t) \in Range(s.queue)

\* A beat that came from the queue of s found the stage silent.
InTurn(s, r) ==
  s.queue # <<>> /\ r.generation # s.generation /\ r.line = Head(s.queue) => BeatDone(s)

\* A line that is said at once, or none.
LEMMA SpeakingKeeps ==
  ASSUME Settled, Once(stage.queue), muted \in BOOLEAN,
         NEW line \in Lines, line[1] \notin {"pull", "comment"}, NEW sound \in Sounds,
         NEW r \in {stage, Said(stage, line, sound)},
         NEW t \in 0 .. Turns, NEW pull \in {Pull(t), None}
  PROVE  /\ Keeps(stage, SaidAfter(r, pull)) /\ InTurn(stage, SaidAfter(r, pull))
         /\ Keeps(stage, r) /\ InTurn(stage, r)
<1>1. stage.queue \in Seq(Queueable) /\ <<>> \in Seq(Queueable)
  BY DEF Settled, Served, Linked, Stages
<1>2. Once(<<>>) /\ Range(<<>>) = {}
  BY DEF Once, Range
<1>3. /\ Served(r) /\ r.queue \in {stage.queue, <<>>}
      /\ r.generation = stage.generation \/ r.line = line
  BY SaidServes DEF Settled
<1>4. Keeps(stage, r)
  BY <1>2, <1>3 DEF Keeps
<1>5. pull \in Queueable \cup {None}
  BY DEF Pull, Queueable
<1> DEFINE p == SaidAfter(r, pull)
<1>6. /\ Served(p) /\ p.generation = r.generation /\ p.line = r.line
      /\ p.queue = IF pull = None THEN r.queue ELSE Append(r.queue, pull)
  BY <1>3, <1>5, SaidAfterServes
<1> HIDE DEF p
<1>7. stage.queue # <<>> => Head(stage.queue) # line
  <2>1. stage.queue # <<>> => Head(stage.queue)[1] \in {"pull", "comment"}
    BY <1>1, TailOnce DEF Queueable
  <2> QED
    BY <2>1
<1>8. InTurn(stage, r) /\ InTurn(stage, p)
  BY <1>3, <1>6, <1>7 DEF InTurn
<1>9. Keeps(stage, p)
  <2>1. CASE pull = None
    BY <1>4, <1>6, <2>1 DEF Keeps
  <2>2. CASE pull # None
    <3>1. pull \in Queueable /\ pull[1] # "comment" /\ \A u \in 0 .. Turns : pull # Comment(u)
      BY <1>5, <2>2 DEF Pull, Comment
    <3>2. r.queue \in Seq(Queueable) /\ Once(r.queue)
      BY <1>1, <1>3, <1>4 DEF Keeps
    <3>3. Once(p.queue) /\ Range(p.queue) = Range(r.queue) \cup {pull}
      BY <1>6, <2>2, <3>1, <3>2, AppendOnce
    <3> QED
      BY <1>4, <1>6, <3>1, <3>3 DEF Keeps
  <2> QED
    BY <2>1, <2>2
<1> QED
  BY <1>4, <1>8, <1>9 DEF p

\* A step that keeps the queue and only takes commentaries further.
LEMMA KeepingStep ==
  ASSUME IInv, TypeOK', Keeps(stage, stage'),
         \A t \in 0 .. Turns : comments[t] = "queued" => \/ comments'[t] = "queued"
                                                         \/ Comment(t) \notin Range(stage'.queue),
         \A t \in 1 .. Turns : t \notin answered' => t \notin answered /\ comments'[t] = comments[t],
         ~ opened' => ~ opened /\ comments'[0] = comments[0]
  PROVE  IInv'
<1>1. Settled'
  BY DEF Settled, Keeps
<1>2. \A t \in 0 .. Turns : Comment(t) \in Range(stage'.queue) => comments'[t] = "queued"
  BY DEF Keeps, IInv, AskedOnce
<1>3. AskedOnce'
  BY <1>2 DEF Keeps, IInv, AskedOnce
<1> QED
  BY <1>1, <1>3 DEF IInv


\* The beat on the stage goes on: no queue, no generation and no line moves.
LEMMA BeatStep ==
  ASSUME IInv, TextTyped \/ SoundEnds \/ PlayRejected \/ (\E k \in listening : Gesture(k)) \/ Continue
  PROVE  Served(stage') /\ stage'.queue = stage.queue /\ stage'.generation = stage.generation
<1>0. /\ stage \in Stages /\ stage.generation \in Nat /\ stage.waits \in SUBSET Nat
      /\ None \notin Nat
  BY TurnsAssumption DEF IInv, Settled, Served, Linked, Stages
<1>1. CASE TextTyped \/ SoundEnds \/ PlayRejected \/ \E k \in listening : Gesture(k)
  <2>1. /\ stage' \in Stages /\ stage'.queue = stage.queue /\ stage'.generation = stage.generation
        /\ stage'.scheduled = stage.scheduled /\ stage'.waits = stage.waits
        /\ stage'.timer = stage.timer /\ (BeatDone(stage) => BeatDone(stage'))
    <3>1. CASE TextTyped
      BY <1>0, <3>1 DEF TextTyped, Stages, BeatDone
    <3>2. CASE SoundEnds
      BY <1>0, <3>2 DEF SoundEnds, Stages, Sounds, BeatDone
    <3>3. CASE PlayRejected
      BY <1>0, <3>3 DEF PlayRejected, Stages, Sounds, BeatDone
    <3>4. CASE \E k \in listening : Gesture(k)
      <4>1. stage' = [stage EXCEPT !.sound = IF @ = "held" THEN "recorded" ELSE @]
        BY <3>4 DEF Gesture
      <4> QED
        BY <1>0, <4>1 DEF Stages, Sounds, BeatDone
    <3> QED
      BY <1>1, <3>1, <3>2, <3>3, <3>4
  <2> QED
    BY <2>1 DEF IInv, Settled, Served, Linked
<1>2. CASE Continue
  <2>1. PICK g \in stage.waits :
          /\ g = stage.generation => BeatDone(stage)
          /\ stage' = [stage EXCEPT !.waits = @ \ {g},
                                    !.timer = IF g = stage.generation THEN g ELSE @]
    BY <1>2 DEF Continue
  <2>2. /\ stage' \in Stages /\ stage'.queue = stage.queue /\ stage'.generation = stage.generation
        /\ stage'.scheduled = stage.scheduled /\ stage'.waits = stage.waits \ {g}
        /\ stage'.timer = (IF g = stage.generation THEN g ELSE stage.timer)
        /\ stage'.sound = stage.sound /\ stage'.typing = stage.typing
    BY <1>0, <2>1 DEF Stages
  <2>3. Served(stage')
    <3>1. CASE g = stage.generation
      BY <1>0, <2>1, <2>2, <3>1 DEF IInv, Settled, Served, Linked, BeatDone
    <3>2. CASE g # stage.generation
      BY <1>0, <2>1, <2>2, <3>2 DEF IInv, Settled, Served, Linked, BeatDone
    <3> QED
      BY <3>1, <3>2
  <2> QED
    BY <2>2, <2>3
<1> QED
  BY <1>1, <1>2

\* The pause ends: the head of the queue takes the stage, which is silent.
LEMMA PauseStep ==
  ASSUME IInv, TimerFires
  PROVE  Keeps(stage, stage') /\ InTurn(stage, stage')
<1>1. /\ stage.timer = stage.generation /\ BeatDone(stage)
      /\ stage.scheduled = TRUE /\ stage.generation \notin stage.waits
      /\ stage \in Stages
  BY DEF TimerFires, IInv, Settled, Served, Linked, Stages
<1>2. /\ stage.queue \in Seq(Queueable) /\ Once(stage.queue) /\ muted \in BOOLEAN
      /\ stage.generation \in Nat /\ stage.waits \in SUBSET Nat
      /\ \A g \in stage.waits : g <= stage.generation
  BY DEF IInv, TypeOK, Settled, Served, Linked, AskedOnce, Stages
<1>3. InTurn(stage, stage')
  BY <1>1 DEF InTurn
<1>4. CASE stage.queue = <<>>
  <2>1. stage' = Quiet(stage)
    BY <1>1, <1>4 DEF TimerFires
  <2>2. /\ stage' \in Stages /\ stage'.queue = stage.queue /\ stage'.timer = None
        /\ stage'.scheduled = FALSE /\ stage'.generation = stage.generation
        /\ stage'.waits = stage.waits
    BY <1>1, <2>1 DEF Quiet, Stages
  <2>3. Served(stage')
    BY <1>1, <1>2, <1>4, <2>2 DEF Served, Linked
  <2> QED
    BY <1>2, <1>3, <2>2, <2>3 DEF Keeps
<1>5. CASE stage.queue # <<>>
  <2> DEFINE line == Head(stage.queue)
             next == [Quiet(stage) EXCEPT !.generation = @ + 1, !.queue = Tail(@)]
  <2>1. PICK sound \in SoundsOf(line, opened) :
          stage' = Scheduled(Presented(next, line, sound))
    BY <1>1, <1>5 DEF TimerFires
  <2> DEFINE r == Presented(next, line, sound)
  <2>2. /\ line \in Queueable /\ Tail(stage.queue) \in Seq(Queueable)
        /\ Once(Tail(stage.queue)) /\ Range(Tail(stage.queue)) \subseteq Range(stage.queue)
    BY <1>2, <1>5, TailOnce
  <2>3. line \in Lines /\ sound \in Sounds
    BY <2>2 DEF Queueable, Lines, SoundsOf, Sounds
  <2>4. (IF muted THEN "over" ELSE sound) \in Sounds
    BY <2>3 DEF Sounds
  <2>5. stage.generation + 1 \in Nat
    BY <1>2
  <2>6. /\ next \in Stages /\ next.queue = Tail(stage.queue) /\ next.timer = None
        /\ next.scheduled = FALSE /\ next.generation = stage.generation + 1
        /\ next.waits = stage.waits
    BY <1>1, <2>2, <2>5 DEF Quiet, Stages
  <2> HIDE DEF line, next
  <2>7. /\ r \in Stages /\ r.queue = Tail(stage.queue) /\ r.timer = None
        /\ r.scheduled = FALSE /\ r.generation = stage.generation + 1
        /\ r.waits = stage.waits
    BY <2>3, <2>4, <2>6 DEF Presented, Stages
  <2> HIDE DEF r
  <2>8. Linked(r)
    BY <1>2, <2>7 DEF Linked
  <2>9. Served(stage') /\ stage'.queue = Tail(stage.queue)
    BY <2>1, <2>7, <2>8, ScheduledServes DEF r
  <2> QED
    BY <1>3, <2>2, <2>9 DEF Keeps
<1> QED
  BY <1>4, <1>5

\* A commentary that is handed over goes to the end of the queue, once.
LEMMA EnqueueStep ==
  ASSUME IInv, NEW t \in 0 .. Turns, comments[t] \in {"asked", "sounded"}, Enqueue(t), Unmoved
  PROVE  IInv' /\ InTurn(stage, stage')
<1>1. /\ Served(stage) /\ stage.queue \in Seq(Queueable) /\ Once(stage.queue)
      /\ Comment(t) \notin Range(stage.queue)
  BY DEF IInv, Settled, Served, Linked, Stages, AskedOnce
<1>2. Comment(t) \in Queueable
  BY DEF Comment, Queueable
<1>3. stage' = SaidAfter(stage, Comment(t)) /\ comments' = [comments EXCEPT ![t] = "queued"]
  BY DEF Enqueue
<1>4. Served(stage') /\ stage'.generation = stage.generation
  BY <1>1, <1>2, <1>3, SaidAfterServes
<1>5. stage'.queue = stage.queue \/ stage'.queue = Append(stage.queue, Comment(t))
  BY <1>1, <1>2, <1>3, SaidAfterServes
<1>6. Once(stage'.queue) /\ Range(stage'.queue) \subseteq Range(stage.queue) \cup {Comment(t)}
  BY <1>1, <1>2, <1>5, AppendOnce
<1>7. TypeOK'
  BY <1>3 DEF IInv, TypeOK, Progress, Enqueue, Unmoved
<1>8. \A u \in 0 .. Turns : Comment(u) = Comment(t) => u = t
  BY DEF Comment
<1>9. AskedOnce'
  <2>1. \A u \in 0 .. Turns : Comment(u) \in Range(stage'.queue) => comments'[u] = "queued"
    BY <1>3, <1>6, <1>8 DEF IInv, AskedOnce, TypeOK
  <2>2. \A u \in 1 .. Turns : u \notin answered' => comments'[u] = "none"
    BY <1>3 DEF IInv, AskedOnce, TypeOK, Unmoved
  <2>3. ~ opened' => comments'[0] = "none"
    BY <1>3 DEF IInv, AskedOnce, TypeOK, Unmoved
  <2> QED
    BY <1>6, <2>1, <2>2, <2>3 DEF AskedOnce
<1> QED
  BY <1>4, <1>7, <1>9 DEF IInv, Settled, InTurn

\* A commentary that is given up is not in the queue.
LEMMA GiveUpStep ==
  ASSUME IInv, NEW t \in 0 .. Turns, comments[t] \in {"asked", "sounded"}, GiveUp(t),
         UNCHANGED stage, Unmoved
  PROVE  IInv' /\ InTurn(stage, stage')
<1>1. TypeOK'
  BY DEF IInv, TypeOK, Progress, GiveUp, Unmoved
<1>2. AskedOnce'
  <2>1. comments' = [comments EXCEPT ![t] = "dropped"]
    BY DEF GiveUp
  <2>2. Comment(t) \notin Range(stage.queue)
    BY DEF IInv, AskedOnce
  <2> QED
    BY <2>1, <2>2 DEF IInv, AskedOnce, TypeOK, Unmoved
<1>3. Settled' /\ InTurn(stage, stage')
  BY DEF IInv, Settled, InTurn
<1> QED
  BY <1>1, <1>2, <1>3 DEF IInv


LEMMA InitIInv == Init => IInv
<1> SUFFICES ASSUME Init PROVE IInv
  OBVIOUS
<1>1. TypeOK
  <2>1. 0 \in 0 .. Turns
    BY TurnsAssumption
  <2>2. comments \in [0 .. Turns -> Progress]
    BY DEF Init, Progress
  <2>3. muted \in BOOLEAN /\ opened \in BOOLEAN
    BY Zenon DEF Init
  <2> QED
    BY <2>1, <2>2, <2>3 DEF Init, TypeOK
<1>2. stage = EmptyStage
  BY DEF Init
<1>3. Settled
  BY <1>2 DEF EmptyStage, Settled, Served, Linked, Stages, Sounds, BeatDone
<1>4. stage.queue = <<>>
  BY <1>2 DEF EmptyStage
<1>5. Once(stage.queue) /\ Range(stage.queue) = {}
  BY <1>4 DEF Once, Range
<1>6. \A t \in 0 .. Turns : comments[t] = "none"
  BY DEF Init
<1>7. AskedOnce
  BY TurnsAssumption, <1>5, <1>6 DEF AskedOnce
<1> QED
  BY <1>1, <1>3, <1>7 DEF IInv

\* Every action keeps the invariant, and brings a queued beat only to a silent
\* stage.
LEMMA NextIInv == IInv /\ Next => IInv' /\ InTurn(stage, stage')
<1> SUFFICES ASSUME IInv, Next PROVE IInv' /\ InTurn(stage, stage')
  OBVIOUS
<1>0. /\ TypeOK /\ Settled /\ Once(stage.queue) /\ muted \in BOOLEAN /\ 0 \in 0 .. Turns
      /\ Served(stage) /\ Keeps(stage, stage)
  BY TurnsAssumption DEF IInv, AskedOnce, TypeOK, Settled, Keeps
<1>a. ASSUME NEW t \in 0 .. Turns
      PROVE  Reply(t) \in Lines /\ Reply(t)[1] \notin {"pull", "comment"}
  BY DEF Reply, Lines
<1>b. Intro \in Lines /\ Intro[1] \notin {"pull", "comment"}
  BY <1>0 DEF Intro, Lines
<1>c. \A line, manifest : SoundsOf(line, manifest) \subseteq Sounds
  BY DEF SoundsOf, Sounds
<1>1. CASE Open
  <2>1. PICK line \in {Reply(0), None}, pull \in {Pull(0), None}, cue \in BOOLEAN,
             sound \in SoundsOf(Reply(0), TRUE) :
          /\ stage' = SaidAfter(IF line = None THEN stage ELSE Said(stage, line, sound), pull)
          /\ comments' = Ask(cue /\ turn = 0, 0)
    BY <1>1 DEF Open
  <2> DEFINE r == IF line = None THEN stage ELSE Said(stage, line, sound)
  <2>2. r \in {stage, Said(stage, Reply(0), sound)}
    OBVIOUS
  <2>3. Keeps(stage, stage') /\ InTurn(stage, stage')
    <3> HIDE DEF r
    <3>1. Keeps(stage, SaidAfter(r, pull)) /\ InTurn(stage, SaidAfter(r, pull))
      BY <1>0, <1>a, <1>c, <2>2, SpeakingKeeps
    <3> QED
      BY <2>1, <3>1 DEF r
  <2>4. comments[0] = "none"
    BY <1>1 DEF Open, IInv, AskedOnce
  <2>5. TypeOK'
    BY <1>0, <1>1, <2>1 DEF Open, TypeOK, Ask, Progress
  <2>6. IInv'
    BY <1>0, <1>1, <2>1, <2>3, <2>4, <2>5, KeepingStep DEF Open, Ask, TypeOK
  <2> QED
    BY <2>3, <2>6
<1>2. CASE CloseBanner
  <2>1. PICK sound \in SoundsOf(Intro, opened) : stage' \in {stage, Said(stage, Intro, sound)}
    BY <1>2 DEF CloseBanner
  <2>2. Keeps(stage, stage') /\ InTurn(stage, stage')
    BY <1>0, <1>b, <1>c, <2>1, SpeakingKeeps
  <2>3. IInv'
    BY <1>0, <1>2, <2>2, KeepingStep DEF CloseBanner, TypeOK
  <2> QED
    BY <2>2, <2>3
<1>3. CASE ToggleMute
  <2>1. stage' = Redrawn(stage, ~ muted) /\ (~ muted) \in BOOLEAN
    BY <1>3 DEF ToggleMute
  <2>2. Keeps(stage, stage') /\ InTurn(stage, stage')
    BY <1>0, <2>1, RedrawnServes DEF Keeps, InTurn
  <2>3. IInv'
    BY <1>0, <1>3, <2>2, KeepingStep DEF ToggleMute, TypeOK
  <2> QED
    BY <2>2, <2>3
<1>4. CASE Deadline
  <2>1. /\ awaited \in 0 .. Turns /\ GiveUp(awaited) /\ comments[awaited] = "queued"
        /\ stage' = Cancelled(stage, Comment(awaited)) /\ Unmoved
    BY <1>0, <1>4 DEF Deadline, TypeOK
  <2>2. /\ Served(stage') /\ stage'.queue = Without(stage.queue, Comment(awaited))
        /\ stage'.generation = stage.generation
    BY <1>0, <2>1, CancelledServes
  <2>3. stage.queue \in Seq(Queueable)
    BY <1>0 DEF Served, Linked, Stages
  <2>4. /\ Once(stage'.queue) /\ Range(stage'.queue) \subseteq Range(stage.queue)
        /\ Comment(awaited) \notin Range(stage'.queue)
    BY <1>0, <2>1, <2>2, <2>3, WithoutIsRest
  <2>5. Keeps(stage, stage') /\ InTurn(stage, stage')
    BY <2>2, <2>4 DEF Keeps, InTurn
  <2>6. comments' = [comments EXCEPT ![awaited] = "dropped"]
    BY <2>1 DEF GiveUp
  <2>7. TypeOK'
    BY <1>0, <2>1, <2>6 DEF TypeOK, GiveUp, Unmoved, Progress
  <2>8. \A t \in 1 .. Turns : t \notin answered => t # awaited
    BY <2>1 DEF IInv, AskedOnce
  <2>9. ~ opened => awaited # 0
    BY <2>1 DEF IInv, AskedOnce
  <2>10. IInv'
    BY <1>0, <2>1, <2>4, <2>5, <2>6, <2>7, <2>8, <2>9, KeepingStep DEF TypeOK, Unmoved
  <2> QED
    BY <2>5, <2>10
<1>5. ASSUME NEW t \in 1 .. Turns, Answer(t)
      PROVE  IInv' /\ InTurn(stage, stage')
  <2>0. t \in 0 .. Turns
    OBVIOUS
  <2>1. PICK reply \in {Reply(t), None}, pull \in {Pull(t), None}, cue \in BOOLEAN,
             ends \in BOOLEAN, sound \in SoundsOf(Reply(t), opened) :
          /\ stage' = SaidAfter(IF reply = None THEN stage ELSE Said(stage, reply, sound), pull)
          /\ comments' = Ask(cue, t)
          /\ awaited' = IF ends /\ cue THEN t ELSE awaited
    BY <1>5 DEF Answer
  <2> DEFINE r == IF reply = None THEN stage ELSE Said(stage, reply, sound)
  <2>2. r \in {stage, Said(stage, Reply(t), sound)}
    OBVIOUS
  <2>3. Keeps(stage, stage') /\ InTurn(stage, stage')
    <3> HIDE DEF r
    <3>1. Keeps(stage, SaidAfter(r, pull)) /\ InTurn(stage, SaidAfter(r, pull))
      BY <1>0, <1>a, <1>c, <2>0, <2>2, SpeakingKeeps
    <3> QED
      BY <2>1, <3>1 DEF r
  <2>4. comments[t] = "none"
    BY <1>5 DEF Answer, IInv, AskedOnce
  <2>5. TypeOK'
    BY <1>0, <1>5, <2>0, <2>1 DEF Answer, TypeOK, Ask, Progress
  <2>6. IInv'
    BY <1>0, <1>5, <2>0, <2>1, <2>3, <2>4, <2>5, KeepingStep DEF Answer, Ask, TypeOK
  <2> QED
    BY <2>3, <2>6
<1>6. ASSUME NEW t \in 0 .. Turns, Conflict(t)
      PROVE  IInv' /\ InTurn(stage, stage')
  <2>1. stage' = Redrawn(stage, muted)
    BY <1>6 DEF Conflict
  <2>2. Keeps(stage, stage') /\ InTurn(stage, stage')
    BY <1>0, <2>1, RedrawnServes DEF Keeps, InTurn
  <2>3. IInv'
    BY <1>0, <1>6, <2>2, KeepingStep DEF Conflict, TypeOK
  <2> QED
    BY <2>2, <2>3
<1>7. ASSUME NEW t \in 0 .. Turns, CommentArrives(t)
      PROVE  IInv' /\ InTurn(stage, stage')
  <2>1. comments[t] = "asked" /\ Unmoved
    BY <1>7 DEF CommentArrives
  <2>2. CASE Outdated(t)
    BY <2>1, <2>2, GiveUpStep DEF Outdated
  <2>3. CASE Enqueue(t)
    BY <2>1, <2>3, EnqueueStep
  <2>4. CASE comments' = [comments EXCEPT ![t] = "sounded"] /\ UNCHANGED <<stage, awaited, archived>>
    <3>1. TypeOK'
      BY <1>0, <2>1, <2>4 DEF TypeOK, Unmoved, Progress
    <3>2. IInv'
      BY <1>0, <2>1, <2>4, <3>1, KeepingStep DEF Unmoved, TypeOK, IInv, AskedOnce
    <3> QED
      BY <2>4, <3>2 DEF InTurn
  <2> QED
    BY <1>7, <2>2, <2>3, <2>4 DEF CommentArrives
<1>8. ASSUME NEW t \in 0 .. Turns, AudioArrives(t)
      PROVE  IInv' /\ InTurn(stage, stage')
  <2>1. comments[t] = "sounded" /\ Unmoved
    BY <1>8 DEF AudioArrives
  <2>2. CASE Outdated(t)
    BY <2>1, <2>2, GiveUpStep DEF Outdated
  <2>3. CASE Enqueue(t)
    BY <2>1, <2>3, EnqueueStep
  <2> QED
    BY <1>8, <2>2, <2>3 DEF AudioArrives
<1>9. ASSUME NEW t \in 0 .. Turns, CommentFails(t)
      PROVE  IInv' /\ InTurn(stage, stage')
  BY <1>9, GiveUpStep DEF CommentFails
<1>10. CASE TextTyped \/ SoundEnds \/ PlayRejected \/ (\E k \in listening : Gesture(k)) \/ Continue
  <2>1. Served(stage') /\ stage'.queue = stage.queue /\ stage'.generation = stage.generation
    BY <1>10, BeatStep
  <2>2. Keeps(stage, stage') /\ InTurn(stage, stage')
    BY <1>0, <2>1 DEF Keeps, InTurn
  <2>3. UNCHANGED <<turn, muted, opened, answered, comments, awaited>>
    BY <1>10 DEF TextTyped, SoundEnds, PlayRejected, Gesture, Continue, StageOnly
  <2>4. TypeOK'
    BY <1>0, <2>3 DEF TypeOK
  <2>5. IInv'
    BY <2>2, <2>3, <2>4, KeepingStep
  <2> QED
    BY <2>2, <2>5
<1>11. CASE TimerFires
  <2>1. Keeps(stage, stage') /\ InTurn(stage, stage')
    BY <1>11, PauseStep
  <2>2. UNCHANGED <<turn, muted, opened, answered, comments>>
    BY <1>11 DEF TimerFires, Unmoved
  <2>3. awaited' \in {awaited, None}
    BY <1>11 DEF TimerFires, Shown
  <2>4. TypeOK'
    BY <1>0, <2>2, <2>3 DEF TypeOK
  <2>5. IInv'
    BY <2>1, <2>2, <2>4, KeepingStep
  <2> QED
    BY <2>1, <2>5
<1> QED
  BY <1>1, <1>2, <1>3, <1>4, <1>5, <1>6, <1>7, <1>8, <1>9, <1>10, <1>11 DEF Next

LEMMA StutterIInv == IInv /\ UNCHANGED vars => IInv'
<1> SUFFICES ASSUME IInv, UNCHANGED vars PROVE IInv'
  OBVIOUS
<1>1. TypeOK'
  BY DEF vars, IInv, TypeOK
<1>2. Settled' /\ AskedOnce'
  BY DEF vars, IInv, Settled, AskedOnce
<1> QED
  BY <1>1, <1>2 DEF IInv

LEMMA Invariance == Spec => []IInv
<1>1. IInv /\ [Next]_vars => IInv'
  BY NextIInv, StutterIInv
<1> QED
  BY InitIInv, <1>1, PTL DEF Spec

-----------------------------------------------------------------------------
(* Theorems. *)

\* As long as a beat waits in the queue, exactly one continuation of the beat
\* on the stage or one running pause will bring it.
THEOREM QueueServed == Spec => []QueueIsServed
<1>1. IInv => QueueIsServed
  BY DEF IInv, Settled, Served, Linked, QueueIsServed
<1> QED
  BY Invariance, <1>1, PTL

\* A commentary that was given up is not in the queue, and no step puts it back.
THEOREM GivenUpUnsaid == Spec => []GivenUpStaysUnsaid
<1>1. IInv => GivenUpStaysUnsaid
  BY DEF IInv, AskedOnce, GivenUpStaysUnsaid
<1> QED
  BY Invariance, <1>1, PTL

\* A beat from the queue never cuts the sound or the first typing of the beat
\* before it.
THEOREM QueuedBeatsWait == Spec => BeatsInTurn
<1> DEFINE Step == (/\ stage.queue # <<>>
                    /\ stage'.generation # stage.generation
                    /\ stage'.line = Head(stage.queue))
                   => stage.sound = "over" /\ stage.typing # "first"
<1>1. IInv /\ [Next]_vars => [Step]_vars
  BY NextIInv DEF InTurn, BeatDone
<1> QED
  BY Invariance, <1>1, PTL DEF Spec, BeatsInTurn
=============================================================================
