--------------------------------- MODULE Play ---------------------------------
(***************************************************************************)
(* One player's daily questions, mock runs and practice: what they are     *)
(* asked, what they have been shown the answer of, and what an answer pays *)
(* (services/daily.py, mock.py, practice.py, xp.py).                       *)
(*                                                                         *)
(* A request is whatever works for the player at the moment: a tab, or a   *)
(* job of the night.  What runs under the lock of the player's row until   *)
(* its commit is one action; what a request has read before it waits for   *)
(* that lock (or before an insert that may conflict) is an action of its   *)
(* own, since another request may come between.  The handlers of a mock    *)
(* run take the lock first, so each of their transactions is one action.   *)
(*                                                                         *)
(* One area and one past quiz stand for all: areas draw from disjoint      *)
(* questions, and runs of different quizzes meet only in a question's      *)
(* attempts.  Questions are graded.  Whether an answer is right, hinted or *)
(* late decides how much of its rate it earns, never the rate.             *)
(***************************************************************************)
EXTENDS Naturals, Sequences, FiniteSetsExt

CONSTANTS
    Questions,      \* the questions of the area
    NoQuestion,     \* no question drawn yet
    Quiz,           \* the questions of the past quiz
    Requests,       \* the player's requests and the scheduler's jobs that run at the same time
    LastDay,        \* bound: the days are 0 .. LastDay
    NewSeason,      \* the day a season starts
    StaleAfter,     \* days after which an untouched run is ended
    MaxRuns,        \* bound: runs of the quiz
    MaxPractice,    \* bound: practice answers
    MaxReviews      \* bound: how often a reviewer hides a question or shows it again

ASSUME PlayAssumption ==
    /\ NoQuestion \notin Questions
    /\ Quiz \subseteq Questions
    /\ LastDay \in Nat /\ NewSeason \in Nat /\ StaleAfter \in Nat \ {0}
    /\ MaxRuns \in Nat /\ MaxPractice \in Nat /\ MaxReviews \in Nat

Days == 0 .. LastDay
NoRun == 0

VARIABLES
    day,        \* the day in Madrid
    playable,   \* the questions that are not hidden
    reviews,    \* how often that changed
    drawn,      \* daily_questions.question_id of each day
    drawnAt,    \* daily_questions.drawn_at, as the attempts that had been closed by then
    attempts,   \* the player's attempts, in the order of their ids
    runs,       \* the player's mock_sessions
    xp,         \* users.xp, in quarters of a full rate
    request,    \* what each request has read and still has to do
    known,      \* <<question, season>>: the player was shown its answer in that season
    overtaken   \* history: the days whose draw or start was stored after what it had read had changed

world == <<day, playable, reviews>>
draw == <<drawn, drawnAt, overtaken>>
vars == <<world, draw, attempts, runs, xp, request, known>>

\* domain/mock.season: seasons run from September to August.
Season(d) == IF d < NewSeason THEN 0 ELSE 1

Rates == {"none", "quarter", "full"}

Attempt == [mode : {"daily", "mock", "practice"}, question : Questions,
            day : Days,     \* the day of created_at, which is the day of a daily question
            run : Nat,      \* session_id
            \* not submitted, and the deadline and its grace not passed or passed; submitted by the
            \* player; closed for them, with `answer` left at {}
            state : {"running", "overdue", "answered", "closed"},
            rate : Rates,   \* what it was scored at
            knew : BOOLEAN] \* the player had been shown the answer by then

Run == [day : Days, counted : BOOLEAN, finished : BOOLEAN]

Ids == DOMAIN attempts
RunIds == DOMAIN runs

Submitted(a) == attempts[a].state \in {"answered", "closed"}
OfRun(r) == {a \in Ids : attempts[a].run = r}
DailyOf(d) == {a \in Ids : attempts[a].mode = "daily" /\ attempts[a].day = d}

-------------------------------------------------------------------------------
(* What is still to be answered (running in services/questions.py)         *)

SubmittedIn(S, q) == \E a \in S : attempts[a].question = q /\ Submitted(a)

InRun == {q \in Quiz : \E r \in RunIds : ~ runs[r].finished /\ ~ SubmittedIn(OfRun(r), q)}

\* Today's daily question, and one that was started and not answered.
InDaily(d) ==
    {q \in Questions : q = drawn[d] /\ ~ SubmittedIn(DailyOf(d), q)}
        \union {attempts[a].question : a \in {b \in Ids : attempts[b].mode = "daily" /\ ~ Submitted(b)}}

Running(d) == InRun \union InDaily(d)

-------------------------------------------------------------------------------
(* What an answer pays                                                     *)

\* coalesce(MockSession.started_at, Attempt.created_at): the day a play counts for.
PlayDay(a) == IF attempts[a].run = NoRun THEN attempts[a].day ELSE runs[attempts[a].run].day

ClosedMock == {a \in Ids : attempts[a].mode = "mock" /\ attempts[a].state = "closed"}

\* A slip: hidden however long before the draw the question was closed.
HiddenForEver(a, d) == a \in ClosedMock

\* _hidden_mock and _running_since: a mock question closed without an answer since the daily
\* question of day d was drawn.
HiddenMock(a, d) == a \in ClosedMock /\ a \notin drawnAt[d]

\* A slip: what was seen on an earlier day of the season is not counted.
SeenThatDay(S, q, d) ==
    \E a \in S : attempts[a].question = q /\ Submitted(a) /\ PlayDay(a) >= d

\* last_seen on day d, of the attempts in S.
LastSeen(S, q, d) ==
    \E a \in S : attempts[a].question = q /\ Submitted(a) /\ Season(PlayDay(a)) >= Season(d)

\* answered_today on day d, of the attempts in S.
AnsweredToday(S, q, d) ==
    \E a \in S : attempts[a].question = q /\ Submitted(a) /\ attempts[a].day >= d

\* lp_award and xp_award, as far as earlier answers decide them.
Rate(repeat, again) == IF again THEN "none" ELSE IF repeat THEN "quarter" ELSE "full"

Pays == [none |-> 0, quarter |-> 1, full |-> 4]

Others(a) == Ids \ {a}
OthersOfDaily(a) == {b \in Others(a) : ~ HiddenMock(b, attempts[a].day)}

DailyRate(a, now) ==
    LET q == attempts[a].question IN
    Rate(LastSeen(OthersOfDaily(a), q, now), AnsweredToday(OthersOfDaily(a), q, now))

\* close_expired does not look for another answer of the day.
ClosedDailyRate(a, now) == Rate(LastSeen(OthersOfDaily(a), attempts[a].question, now), FALSE)

MockRate(a, now) ==
    LET q == attempts[a].question IN
    Rate(LastSeen(Others(a), q, PlayDay(a)), AnsweredToday(Others(a), q, now))

Knows(q, d) == <<q, Season(d)>> \in known

Scored(a, state, rate) ==
    [attempts[a] EXCEPT !.state = state, !.rate = rate,
                        !.knew = Knows(attempts[a].question, PlayDay(a))]

\* A slip: a question of a run is not tied to it.
NewOutsideRun(mode, q, now, run) ==
    [mode |-> mode, question |-> q, day |-> now, run |-> NoRun,
     state |-> "running", rate |-> "none", knew |-> FALSE]

\* An attempt whose clock starts.
New(mode, q, now, run) ==
    [mode |-> mode, question |-> q, day |-> now, run |-> run,
     state |-> "running", rate |-> "none", knew |-> FALSE]

-------------------------------------------------------------------------------
(* Requests                                                                *)

Idle == [step |-> "idle"]
IsAt(p, step) == request[p].step = step
Waiting(step) == Cardinality({p \in Requests : IsAt(p, step)})

Arrives(p, r) == IsAt(p, "idle") /\ request' = [request EXCEPT ![p] = r]
Returns(p) == request' = [request EXCEPT ![p] = Idle]

-------------------------------------------------------------------------------
(* The daily question                                                      *)

\* _chosen: the day's question can still be served.
Chosen(d) == drawn[d] \in playable

\* A slip: does not look again under the lock.
DrawsAgain(d) == TRUE

NeedsDraw(d) == ~ Chosen(d)

\* ensure_daily finds nothing to serve, for whoever comes first: the page, a start, the scheduler.
AskForDraw(p) ==
    /\ ~ Chosen(day)
    /\ Arrives(p, [step |-> "draw", day |-> day, closed |-> ClosedMock])
    /\ UNCHANGED <<world, draw, attempts, runs, xp, known>>

\* ensure_daily under its advisory lock.
DrawDaily(p) ==
    /\ IsAt(p, "draw")
    /\ LET r == request[p] IN
       \/ /\ NeedsDraw(r.day)
          /\ \E q \in playable : drawn' = [drawn EXCEPT ![r.day] = q]
          /\ drawnAt' = [drawnAt EXCEPT ![r.day] = r.closed]
          /\ overtaken' = IF r.closed = ClosedMock THEN overtaken ELSE overtaken \union {r.day}
       \/ /\ ~ NeedsDraw(r.day) \/ playable = {}
          /\ UNCHANGED draw
    /\ Returns(p)
    /\ UNCHANGED <<world, attempts, runs, xp, known>>

\* What start returns instead of starting another: the day's own, or one carried over midnight.
Existing(d) ==
    DailyOf(d) \union {a \in Ids : attempts[a].mode = "daily" /\ attempts[a].state = "running"}

\* start: nothing was started, and the question is not to be answered elsewhere first.
StartDaily(p) ==
    /\ Existing(day) = {}
    /\ Chosen(day)
    /\ drawn[day] \notin InRun
    /\ Arrives(p, [step |-> "insert", day |-> day, question |-> drawn[day]])
    /\ UNCHANGED <<world, draw, attempts, runs, xp, known>>

\* A slip: nothing keeps two tabs from starting the day's question.
ConflictsNever(d) == FALSE

\* uq_attempts_daily.
Conflicts(d) == DailyOf(d) # {}

\* start: the insert, which does nothing if a parallel request's came first.
InsertDaily(p) ==
    /\ IsAt(p, "insert")
    /\ LET r == request[p] IN
       \/ /\ ~ Conflicts(r.day)
          /\ attempts' = Append(attempts, New("daily", r.question, r.day, NoRun))
          /\ overtaken' = IF r.day = day /\ r.question = drawn[day]
                          THEN overtaken ELSE overtaken \union {r.day}
       \/ /\ Conflicts(r.day)
          /\ UNCHANGED <<attempts, overtaken>>
    /\ Returns(p)
    /\ UNCHANGED <<world, drawn, drawnAt, runs, xp, known>>

\* A slip: what was submitted since the attempt was read is overwritten.
OpenAsRead(a) == TRUE

\* The condition of the update: submitted_at is null.
StillOpen(a) == ~ Submitted(a)

\* answer, up to the player's lock.
ReadDaily(p, a) ==
    /\ attempts[a].mode = "daily" /\ ~ Submitted(a)
    /\ Arrives(p, [step |-> "answer", day |-> day, attempt |-> a])
    /\ UNCHANGED <<world, draw, attempts, runs, xp, known>>

\* answer, under it; the answer is shown.
AnswerDaily(p) ==
    /\ IsAt(p, "answer")
    /\ LET a == request[p].attempt
           now == request[p].day
           rate == DailyRate(a, now)
       IN  \/ /\ StillOpen(a)
              /\ attempts' = [attempts EXCEPT ![a] = Scored(a, "answered", rate)]
              /\ xp' = xp + Pays[rate]
              /\ known' = known \union {<<attempts[a].question, Season(now)>>}
           \/ /\ ~ StillOpen(a)
              /\ UNCHANGED <<attempts, xp, known>>
    /\ Returns(p)
    /\ UNCHANGED <<world, draw, runs>>

\* close_expired, up to the player's lock: every night, and before the player's page.
ListDaily(p, a) ==
    /\ attempts[a].mode = "daily" /\ attempts[a].state = "overdue"
    /\ Arrives(p, [step |-> "close", day |-> day, attempt |-> a])
    /\ UNCHANGED <<world, draw, attempts, runs, xp, known>>

\* close_expired, under it; from then on the player may look at the answer (review).
CloseDaily(p) ==
    /\ IsAt(p, "close")
    /\ LET a == request[p].attempt
           now == request[p].day
       IN  \/ /\ StillOpen(a)
              /\ attempts' = [attempts EXCEPT ![a] = Scored(a, "closed", ClosedDailyRate(a, now))]
              /\ known' = known \union {<<attempts[a].question, Season(now)>>}
           \/ /\ ~ StillOpen(a)
              /\ UNCHANGED <<attempts, known>>
    /\ Returns(p)
    /\ UNCHANGED <<world, draw, runs, xp>>

-------------------------------------------------------------------------------
(* The mock quiz                                                           *)

OnScreen(r) == {a \in OfRun(r) : ~ Submitted(a)}

\* _time_out of the attempts in S.
TimedOut(S) ==
    [a \in Ids |-> IF a \in S THEN Scored(a, "closed", MockRate(a, day)) ELSE attempts[a]]

\* start: the quiz can be played; whether it was this season.
AskForRun(p) ==
    /\ Quiz \cap playable # {}
    /\ Len(runs) + Waiting("run") < MaxRuns
    /\ Arrives(p, [step |-> "run", day |-> day,
                   counted |-> \A r \in RunIds : Season(runs[r].day) # Season(day)])
    /\ UNCHANGED <<world, draw, attempts, runs, xp, known>>

\* uq_mock_sessions_open.
MayStart == \A r \in RunIds : runs[r].finished

\* start: the insert, which does nothing if the quiz has an open run.
StartRun(p) ==
    /\ IsAt(p, "run")
    /\ LET r == request[p] IN
       runs' = IF MayStart
               THEN Append(runs, [day |-> r.day, counted |-> r.counted, finished |-> FALSE])
               ELSE runs
    /\ Returns(p)
    /\ UNCHANGED <<world, draw, attempts, xp, known>>

NotShown(r) == (Quiz \cap playable) \ {attempts[a].question : a \in OfRun(r)}

\* state and _advance, for a run with nothing on screen or a question that ran out: that is closed,
\* and the next question's clock starts, or the run is over.  (Questions come in the quiz's order,
\* which here may be any.)
Show(r) ==
    /\ ~ runs[r].finished
    /\ \A a \in OnScreen(r) : attempts[a].state = "overdue"
    /\ \/ /\ \E q \in NotShown(r) :
               attempts' = Append(TimedOut(OnScreen(r)), New("mock", q, day, r))
          /\ UNCHANGED runs
       \/ /\ NotShown(r) = {}
          /\ attempts' = TimedOut(OnScreen(r))
          /\ runs' = [runs EXCEPT ![r].finished = TRUE]
    /\ UNCHANGED <<world, draw, xp, known>>

\* The player comes back to the run.
ComeBack(r) == Show(r) /\ UNCHANGED request

\* answer; the run is shown in a second transaction.
AnswerMock(p, a) ==
    /\ attempts[a].mode = "mock" /\ StillOpen(a)
    /\ LET rate == MockRate(a, day) IN
       /\ attempts' = [attempts EXCEPT ![a] = Scored(a, "answered", rate)]
       /\ xp' = xp + Pays[rate]
    /\ Arrives(p, [step |-> "show", run |-> attempts[a].run])
    /\ UNCHANGED <<world, draw, runs, known>>

NothingToShow(r) ==
    runs[r].finished \/ \E a \in OnScreen(r) : attempts[a].state = "running"

ShowNext(p) ==
    /\ IsAt(p, "show")
    /\ LET r == request[p].run IN
       \/ Show(r)
       \/ NothingToShow(r) /\ UNCHANGED <<world, draw, attempts, runs, xp, known>>
    /\ Returns(p)

\* close_expired: every night, a question that ran out; it looks again under the locks.
CloseMock(a) ==
    /\ attempts[a].mode = "mock" /\ attempts[a].state = "overdue"
    /\ attempts' = TimedOut({a})
    /\ UNCHANGED <<world, draw, runs, xp, request, known>>

\* A slip: the run ends and the question on screen keeps its clock.
ClosesNothing(r) == {}

ClosedByEnd(r) == OnScreen(r)

\* _end: the question on screen is closed as out of time; those not reached are not scored.
Finish(r) ==
    /\ ~ runs[r].finished
    /\ attempts' = TimedOut(ClosedByEnd(r))
    /\ runs' = [runs EXCEPT ![r].finished = TRUE]
    /\ UNCHANGED <<world, draw, xp, known>>

\* end, by the player.
EndRun(r) == Finish(r) /\ UNCHANGED request

\* end_stale: nothing of the run was shown for StaleAfter days.
Stale(r, now) ==
    /\ runs[r].day + StaleAfter <= now
    /\ \A a \in OfRun(r) : attempts[a].day + StaleAfter <= now

\* end_stale lists the stale runs, every night, and then takes each under the locks.
ListStale(p, r) ==
    /\ ~ runs[r].finished /\ Stale(r, day)
    /\ Arrives(p, [step |-> "end", run |-> r])
    /\ UNCHANGED <<world, draw, attempts, runs, xp, known>>

EndStale(p) ==
    /\ IsAt(p, "end")
    /\ LET r == request[p].run IN
       \/ Finish(r)
       \/ runs[r].finished /\ UNCHANGED <<world, draw, attempts, runs, xp, known>>
    /\ Returns(p)

\* _summary: a finished run shows its answers, but for the questions still running elsewhere.
Summarised(r) == {attempts[a].question : a \in OfRun(r)} \ Running(day)

ReadSummary(r) ==
    /\ runs[r].finished
    /\ ~ (Summarised(r) \X {Season(day)} \subseteq known)
    /\ known' = known \union (Summarised(r) \X {Season(day)})
    /\ UNCHANGED <<world, draw, attempts, runs, xp, request>>

-------------------------------------------------------------------------------
(* Practice                                                                *)

Practised == Cardinality({a \in Ids : attempts[a].mode = "practice"})

\* answer, up to the player's lock: the question is not to be answered elsewhere first.
AskPractice(p, q) ==
    /\ q \in playable \ Running(day)
    /\ Practised + Waiting("practice") < MaxPractice
    /\ Arrives(p, [step |-> "practice", day |-> day, question |-> q])
    /\ UNCHANGED <<world, draw, attempts, runs, xp, known>>

\* answer, under it: the attempt is written and the answer shown.
AnswerPractice(p) ==
    /\ IsAt(p, "practice")
    /\ LET q == request[p].question
           now == request[p].day
           rate == Rate(LastSeen(Ids, q, now), AnsweredToday(Ids, q, now))
       IN  /\ attempts' = Append(attempts, [New("practice", q, now, NoRun)
                    EXCEPT !.state = "answered", !.rate = rate, !.knew = Knows(q, now)])
           /\ xp' = xp + Pays[rate]
           /\ known' = known \union {<<q, Season(now)>>}
    /\ Returns(p)
    /\ UNCHANGED <<world, draw, runs>>

-------------------------------------------------------------------------------
(* Time and reviewers                                                      *)

Midnight ==
    /\ day < LastDay
    /\ day' = day + 1
    /\ UNCHANGED <<playable, reviews, draw, attempts, runs, xp, request, known>>

\* A question's deadline and its grace pass.
TimeUp(a) ==
    /\ attempts[a].state = "running"
    /\ attempts' = [attempts EXCEPT ![a].state = "overdue"]
    /\ UNCHANGED <<world, draw, runs, xp, request, known>>

\* A reviewer hides a question, or shows it again.
Review(q) ==
    /\ reviews < MaxReviews
    /\ reviews' = reviews + 1
    /\ playable' = IF q \in playable THEN playable \ {q} ELSE playable \union {q}
    /\ UNCHANGED <<day, draw, attempts, runs, xp, request, known>>

-------------------------------------------------------------------------------
Init ==
    /\ day = 0
    /\ playable = Questions /\ reviews = 0
    /\ drawn = [d \in Days |-> NoQuestion] /\ drawnAt = [d \in Days |-> {}]
    /\ overtaken = {}
    /\ attempts = <<>> /\ runs = <<>> /\ xp = 0
    /\ request = [p \in Requests |-> Idle]
    /\ known = {}

OfDaily(p) ==
    \/ AskForDraw(p) \/ DrawDaily(p)
    \/ StartDaily(p) \/ InsertDaily(p)
    \/ \E a \in Ids : ReadDaily(p, a) \/ ListDaily(p, a)
    \/ AnswerDaily(p) \/ CloseDaily(p)

OfMock(p) ==
    \/ AskForRun(p) \/ StartRun(p)
    \/ \E a \in Ids : AnswerMock(p, a)
    \/ ShowNext(p)
    \/ \E r \in RunIds : ListStale(p, r)
    \/ EndStale(p)

OfRuns == \E r \in RunIds : ComeBack(r) \/ EndRun(r) \/ ReadSummary(r)

OfPractice(p) == (\E q \in Questions : AskPractice(p, q)) \/ AnswerPractice(p)

Next ==
    \/ \E p \in Requests : OfDaily(p) \/ OfMock(p) \/ OfPractice(p)
    \/ OfRuns
    \/ \E a \in Ids : CloseMock(a) \/ TimeUp(a)
    \/ Midnight
    \/ \E q \in Questions : Review(q)

Spec == Init /\ [][Next]_vars

-------------------------------------------------------------------------------
(* Properties                                                              *)

RequestTypeOK(r) ==
    CASE r.step = "idle"     -> TRUE
      [] r.step = "draw"     -> r.day \in Days /\ r.closed \subseteq Ids
      [] r.step = "insert"   -> r.day \in Days /\ r.question \in Questions
      [] r.step = "practice" -> r.day \in Days /\ r.question \in Questions
      [] r.step \in {"answer", "close"} ->
            r.day \in Days /\ r.attempt \in Ids /\ attempts[r.attempt].mode = "daily"
      [] r.step = "run"      -> r.day \in Days /\ r.counted \in BOOLEAN
      [] r.step \in {"show", "end"} -> r.run \in RunIds
      [] OTHER -> FALSE

\* Types: every variable has its type, what one row or request says of another exists, and exactly
\* the mock attempts belong to a run (attempts.session_id).
PlayTypeOK ==
    /\ day \in Days /\ playable \subseteq Questions /\ reviews \in 0 .. MaxReviews
    /\ drawn \in [Days -> Questions \union {NoQuestion}]
    /\ drawnAt \in [Days -> SUBSET Ids]
    /\ attempts \in Seq(Attempt)
    /\ \A a \in Ids : attempts[a].run \in (IF attempts[a].mode = "mock" THEN RunIds ELSE {NoRun})
    /\ runs \in Seq(Run)
    /\ xp \in Nat
    /\ \A p \in Requests : RequestTypeOK(request[p])
    /\ known \subseteq Questions \X {0, 1} /\ overtaken \subseteq Days

PaidInFull(a) == attempts[a].state = "answered" /\ attempts[a].rate = "full"

\* Two answers to one question are never both paid in full in the season they were played in,
\* whichever modes and tabs they come from and however they interleave (last_seen and
\* answered_today, xp.py:79 and 120, under xp.lock).  It fails for a daily question that is started in one
\* season and answered in the next (README, section 4), which a run within one season does not have.
FullPayOnceASeason ==
    \A a, b \in Ids :
        /\ PaidInFull(a) /\ PaidInFull(b)
        /\ attempts[a].question = attempts[b].question
        /\ Season(PlayDay(a)) = Season(PlayDay(b))
        => a = b

\* Within a season, an answer is paid in full only if the player had not been shown the answer before:
\* what the summary of a run keeps back (running), and what a daily question does not count as seen
\* (_hidden_mock), are the same questions.  The exception is a daily question that was drawn by a request
\* while a mock question was closed, or started by one while its day ended or another was drawn.
ShownAnswersPayLess ==
    \A a \in Ids : PaidInFull(a) /\ attempts[a].knew =>
        attempts[a].mode = "daily" /\ attempts[a].day \in overtaken

\* Not so (README, section 4): what a daily question does not count as seen was kept from the player:
\* xp.py:74, "the run's summary kept its answer hidden, so the player neither answered it nor saw its
\* answer".
WhatWasHiddenWasNotShown == \A a \in Ids : attempts[a].mode = "daily" /\ PaidInFull(a) => ~ attempts[a].knew

PaidFor(a) == IF attempts[a].state = "answered" THEN Pays[attempts[a].rate] ELSE 0

\* The player's XP is the sum of what the attempts were granted: no answer is paid twice, however
\* often it is sent or closed at the same time (the update's condition in daily.py:262 and 323).
XpIsTheSum == xp = MapThenSumSet(PaidFor, Ids)

\* A player has one try at the day's question, from however many tabs it is started
\* (uq_attempts_daily); an open run has one question on screen at most and a finished one has none,
\* and there is one open run of a quiz (mock.py: _advance, _end, close_expired; uq_mock_sessions_open).
OneTryAtATime ==
    /\ \A d \in Days : Cardinality(DailyOf(d)) <= 1
    /\ \A r \in RunIds : Cardinality(OnScreen(r)) <= (IF runs[r].finished THEN 0 ELSE 1)
    /\ Cardinality({r \in RunIds : ~ runs[r].finished}) <= 1

\* The day's question, once drawn, is replaced only when it can no longer be served, however many
\* requests find nothing drawn at the same time (ensure_daily looks again under its lock).
TheDrawStands ==
    [][\A d \in Days : drawn'[d] # drawn[d] => ~ Chosen(d)]_vars

\* Not so (README, section 4): the night's job ends only runs that nobody has touched for StaleAfter
\* days: docs/game-rules.md:297, "the nightly job ends a run nobody has touched for 2 days".
OnlyStaleRunsEndByNight ==
    [][\A p \in Requests : EndStale(p) =>
        \A r \in RunIds : runs[r].finished # runs'[r].finished => Stale(r, day)]_vars
===============================================================================
