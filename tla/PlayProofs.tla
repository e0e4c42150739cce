------------------------------- MODULE PlayProofs -------------------------------
(***************************************************************************)
(* Proofs about one player's daily questions, mock runs and practice, for  *)
(* any questions, days, runs and number of requests at the same time.      *)
(*                                                                         *)
(* What makes them go: an attempt keeps its question, its day and its run, *)
(* and once it is submitted it is never touched again; so what an answer   *)
(* was paid for is decided by the attempts that were submitted before it.  *)
(***************************************************************************)
EXTENDS Play, FiniteSetTheorems, SequenceTheorems, Sums, TLAPS

\* One try at a day's question, one question on a run's screen, one open run.
OneDaily ==
    \A a, b \in Ids :
        attempts[a].mode = "daily" /\ attempts[b].mode = "daily" /\ attempts[a].day = attempts[b].day => a = b
OneOnScreen ==
    \A r \in RunIds : \A a, b \in OnScreen(r) : a = b /\ ~ runs[r].finished
OneOpenRun ==
    \A r, s \in RunIds : ~ runs[r].finished /\ ~ runs[s].finished => r = s

\* RequestTypeOK, of the attempts in as and the runs in rs.
Fits(r, as, rs) ==
    \/ r.step = "idle"
    \/ r.step = "draw" /\ r.day \in Days /\ r.closed \subseteq DOMAIN as
    \/ r.step \in {"insert", "practice"} /\ r.day \in Days /\ r.question \in Questions
    \/ /\ r.step \in {"answer", "close"} /\ r.day \in Days
       /\ r.attempt \in DOMAIN as /\ as[r.attempt].mode = "daily"
    \/ r.step = "run" /\ r.day \in Days /\ r.counted \in BOOLEAN
    \/ r.step \in {"show", "end"} /\ r.run \in DOMAIN rs

RequestsOK ==
    /\ request = [p \in Requests |-> request[p]]
    /\ \A p \in Requests : Fits(request[p], attempts, runs)

PInv == PlayTypeOK /\ RequestsOK /\ OneDaily /\ OneOnScreen /\ OneOpenRun

-------------------------------------------------------------------------------
(* How attempts change                                                     *)

\* An attempt stays what it is of, and once submitted stays as it is.
Kept(a) ==
    /\ a \in Ids'
    /\ attempts'[a].mode = attempts[a].mode /\ attempts'[a].question = attempts[a].question
    /\ attempts'[a].day = attempts[a].day /\ attempts'[a].run = attempts[a].run
    /\ Submitted(a) => attempts'[a] = attempts[a]

AllKept == attempts' \in Seq(Attempt) /\ \A a \in Ids : Kept(a)

LEMMA KnowsOrNot == \A q, d : Knows(q, d) \in BOOLEAN
<1> TAKE q, d
<1>1. CASE <<q, Season(d)>> \in known
  BY <1>1 DEF Knows
<1>2. CASE <<q, Season(d)>> \notin known
  BY <1>2 DEF Knows
<1> QED
  BY <1>1, <1>2

\* What is scored is an attempt like before.
LEMMA ScoresAreTyped ==
    ASSUME NEW a, attempts[a] \in Attempt, NEW state \in {"answered", "closed"}, NEW rate \in Rates,
           NEW w, w = Scored(a, state, rate)
    PROVE  /\ w \in Attempt /\ w.mode = attempts[a].mode /\ w.question = attempts[a].question
           /\ w.day = attempts[a].day /\ w.run = attempts[a].run
           /\ w.state = state /\ w.rate = rate /\ w.knew = Knows(attempts[a].question, PlayDay(a))
<1>1. PICK knew \in BOOLEAN : knew = Knows(attempts[a].question, PlayDay(a))
  BY KnowsOrNot
<1>2. w = [attempts[a] EXCEPT !.state = state, !.rate = rate, !.knew = knew]
  BY <1>1 DEF Scored
<1> QED
  BY <1>1, <1>2 DEF Attempt

\* Rates.
LEMMA RatesAreTyped ==
    /\ \A repeat, again : Rate(repeat, again) \in Rates
    /\ \A a, d : DailyRate(a, d) \in Rates /\ ClosedDailyRate(a, d) \in Rates /\ MockRate(a, d) \in Rates
    /\ \A rate \in Rates : Pays[rate] \in Nat
    /\ \A d : Season(d) \in {0, 1}
BY DEF Rate, Rates, DailyRate, ClosedDailyRate, MockRate, Pays, Season

\* One more attempt.
LEMMA OneMore ==
    ASSUME attempts \in Seq(Attempt), NEW c \in Attempt, attempts' = Append(attempts, c)
    PROVE  /\ AllKept /\ Ids' = Ids \union {Len(attempts) + 1} /\ Len(attempts) + 1 \notin Ids
           /\ attempts'[Len(attempts) + 1] = c /\ \A a \in Ids : attempts'[a] = attempts[a]
<1>1. /\ attempts' \in Seq(Attempt) /\ Ids' = Ids \union {Len(attempts) + 1} /\ Len(attempts) + 1 \notin Ids
      /\ attempts'[Len(attempts) + 1] = c /\ \A a \in Ids : attempts'[a] = attempts[a]
  BY DEF Ids
<1> QED
  BY <1>1 DEF AllKept, Kept

\* One attempt that was not submitted is another.
LEMMA OneElse ==
    ASSUME attempts \in Seq(Attempt), NEW a \in Ids, ~ Submitted(a), NEW c \in Attempt,
           attempts' = [attempts EXCEPT ![a] = c],
           c.mode = attempts[a].mode, c.question = attempts[a].question,
           c.day = attempts[a].day, c.run = attempts[a].run
    PROVE  /\ AllKept /\ Ids' = Ids /\ attempts'[a] = c
           /\ \A b \in Ids : b # a => attempts'[b] = attempts[b]
<1>1. /\ attempts' \in Seq(Attempt) /\ Ids' = Ids /\ attempts'[a] = c
      /\ \A b \in Ids : b # a => attempts'[b] = attempts[b]
  BY DEF Ids
<1> QED
  BY <1>1 DEF AllKept, Kept

\* Some that are not submitted run out.
LEMMA SomeTimeOut ==
    ASSUME PlayTypeOK, NEW S \in SUBSET Ids, \A a \in S : ~ Submitted(a)
    PROVE  /\ TimedOut(S) \in Seq(Attempt) /\ DOMAIN TimedOut(S) = Ids /\ Len(TimedOut(S)) = Len(attempts)
           /\ \A a \in Ids \ S : TimedOut(S)[a] = attempts[a]
           /\ \A a \in S : /\ TimedOut(S)[a].mode = attempts[a].mode
                           /\ TimedOut(S)[a].question = attempts[a].question
                           /\ TimedOut(S)[a].day = attempts[a].day /\ TimedOut(S)[a].run = attempts[a].run
                           /\ TimedOut(S)[a].state = "closed"
<1>a. attempts \in Seq(Attempt) /\ Ids = 1 .. Len(attempts) /\ Len(attempts) \in Nat
  BY DEF PlayTypeOK, Ids
<1>1. ASSUME NEW a \in Ids
      PROVE  /\ attempts[a] \in Attempt
             /\ \A w : w = Scored(a, "closed", MockRate(a, day)) =>
                   /\ w \in Attempt /\ w.mode = attempts[a].mode /\ w.question = attempts[a].question
                   /\ w.day = attempts[a].day /\ w.run = attempts[a].run /\ w.state = "closed"
  BY <1>a, RatesAreTyped, ScoresAreTyped
<1>2. TimedOut(S) = [a \in Ids |-> IF a \in S THEN Scored(a, "closed", MockRate(a, day)) ELSE attempts[a]]
  BY DEF TimedOut
<1>3. TimedOut(S) \in [1 .. Len(attempts) -> Attempt]
  BY <1>a, <1>1, <1>2
<1>4. TimedOut(S) \in Seq(Attempt) /\ Len(TimedOut(S)) = Len(attempts)
  BY <1>a, <1>3, SeqDef, LenProperties
<1> QED
  BY <1>1, <1>2, <1>4, ZenonT(40)

-------------------------------------------------------------------------------
(* What an answer is paid for                                              *)

RunsKept ==
    /\ runs' \in Seq(Run)
    /\ \A r \in RunIds : r \in RunIds' /\ runs'[r].day = runs[r].day /\ (runs[r].finished => runs'[r] = runs[r])

\* a is answered in this step.
AnswersNow(a) == a \in Ids' /\ attempts'[a].state = "answered" /\ (a \in Ids => ~ Submitted(a))

DailyAnswer(a) ==
    /\ a \in Ids /\ attempts[a].mode = "daily"
    /\ \E p \in Requests :
          /\ IsAt(p, "answer") /\ request[p].attempt = a
          /\ attempts'[a].rate = DailyRate(a, request[p].day)
    /\ attempts'[a].knew = Knows(attempts[a].question, PlayDay(a))

MockAnswer(a) ==
    /\ a \in Ids /\ attempts[a].mode = "mock"
    /\ attempts'[a].rate = MockRate(a, day)
    /\ attempts'[a].knew = Knows(attempts[a].question, PlayDay(a))

PracticeAnswer(a) ==
    /\ a = Len(attempts) + 1 /\ a \notin Ids
    /\ LET q == attempts'[a].question  now == attempts'[a].day IN
       /\ attempts'[a].run = NoRun
       /\ attempts'[a].rate = Rate(LastSeen(Ids, q, now), AnsweredToday(Ids, q, now))
       /\ attempts'[a].knew = Knows(q, now)

\* Attempts and runs are kept, and an answer is scored by the attempts that there are,
\* and paid once.
PaysByTheRules ==
    /\ AllKept /\ RunsKept /\ \A a, b \in Ids' \ Ids : a = b
    /\ \A a \in Ids' : AnswersNow(a) => DailyAnswer(a) \/ MockAnswer(a) \/ PracticeAnswer(a)
    /\ \A a, b \in Ids' : AnswersNow(a) /\ AnswersNow(b) => a = b
    /\ \A a \in Ids' : AnswersNow(a) => xp' = xp + Pays[attempts'[a].rate]
    /\ (\A a \in Ids' : ~ AnswersNow(a)) => xp' = xp

\* At most one request changes, and what it carries then is there.
Follows ==
    \/ request' = request
    \/ \E p \in Requests : \E c : request' = [request EXCEPT ![p] = c] /\ Fits(c, attempts', runs')

LEMMA RequestsReturn == \A p \in Requests : Returns(p) => Follows
<1>1. Fits(Idle, attempts', runs')
  BY DEF Fits, Idle
<1> QED
  BY <1>1 DEF Returns, Follows

LEMMA RequestsArrive == \A p \in Requests : \A c : Arrives(p, c) /\ Fits(c, attempts', runs') => Follows
BY DEF Arrives, Follows

\* What a request carries stays there.
LEMMA RequestsFollow ==
    ASSUME RequestsOK, AllKept, RunsKept,
           Follows
    PROVE  RequestsOK'
<1>1. \A p \in Requests : Fits(request[p], attempts', runs')
  BY DEF RequestsOK, Fits, AllKept, Kept, RunsKept, Ids, RunIds
<1>2. CASE request' = request
  BY <1>1, <1>2 DEF RequestsOK
<1>3. ASSUME NEW p \in Requests, NEW c, request' = [request EXCEPT ![p] = c], Fits(c, attempts', runs')
      PROVE  RequestsOK'
  <2>0. request = [q \in Requests |-> request[q]]
    BY DEF RequestsOK
  <2>1. \A q \in Requests : request'[q] = IF q = p THEN c ELSE request[q]
    BY <1>3, <2>0
  <2>2. request' = [q \in Requests |-> request'[q]]
    <3> DEFINE f == [q \in Requests |-> IF q = p THEN c ELSE request[q]]
    <3>1. request' = f
      BY <1>3, <2>0
    <3>2. f = [q \in Requests |-> f[q]]
      OBVIOUS
    <3> QED
      BY <3>1, <3>2
  <2>3. \A q \in Requests : Fits(request'[q], attempts', runs')
    BY <1>1, <1>3, <2>1
  <2> QED
    BY <2>2, <2>3 DEF RequestsOK
<1> QED
  BY <1>2, <1>3 DEF Follows

\* The rest of the types.
OthersOK ==
    /\ day \in Days /\ playable \subseteq Questions /\ reviews \in 0 .. MaxReviews
    /\ drawn \in [Days -> Questions \union {NoQuestion}]
    /\ drawnAt \in [Days -> SUBSET Ids]
    /\ xp \in Nat
    /\ known \subseteq Questions \X {0, 1} /\ overtaken \subseteq Days
RefsOK == \A a \in Ids : attempts[a].run \in (IF attempts[a].mode = "mock" THEN RunIds ELSE {NoRun})

Parts ==
    /\ OthersOK /\ attempts \in Seq(Attempt) /\ RefsOK /\ runs \in Seq(Run) /\ RequestsOK
    /\ OneDaily /\ OneOnScreen /\ OneOpenRun

LEMMA TypesInParts == PInv <=> Parts
<1>1. ASSUME NEW r PROVE RequestTypeOK(r) <=> Fits(r, attempts, runs)
  BY DEF RequestTypeOK, Fits, Ids, RunIds
<1>2. (\A p \in Requests : RequestTypeOK(request[p])) <=> \A p \in Requests : Fits(request[p], attempts, runs)
  BY <1>1
<1>3. PlayTypeOK <=> /\ OthersOK /\ attempts \in Seq(Attempt) /\ RefsOK /\ runs \in Seq(Run)
                     /\ \A p \in Requests : RequestTypeOK(request[p])
  BY Zenon DEF PlayTypeOK, OthersOK, RefsOK
<1>4. RequestsOK <=> /\ request = [p \in Requests |-> request[p]]
                     /\ \A p \in Requests : Fits(request[p], attempts, runs)
  BY Zenon DEF RequestsOK
<1> QED
  BY <1>2, <1>3, <1>4 DEF PInv, Parts

LEMMA PartsAfter == Parts' => PInv'
BY TypesInParts, PTL

\* A step that touches no attempt and no run.
LEMMA QuietSteps ==
    ASSUME PInv, UNCHANGED <<attempts, runs, xp>>, OthersOK',
           Follows
    PROVE  PInv' /\ PaysByTheRules
<1>1. AllKept /\ RunsKept
  BY DEF PInv, PlayTypeOK, AllKept, Kept, RunsKept, Ids, RunIds
<1>2. RequestsOK'
  BY <1>1, RequestsFollow DEF PInv
<1>3. \A a \in Ids' : ~ AnswersNow(a)
  BY DEF AnswersNow, Ids, Submitted
<1>4. RefsOK' /\ OneDaily' /\ OneOnScreen' /\ OneOpenRun' /\ attempts' \in Seq(Attempt) /\ runs' \in Seq(Run)
  BY DEF PInv, PlayTypeOK, RefsOK, OneDaily, OneOnScreen, OneOpenRun, Ids, RunIds, OnScreen, OfRun, Submitted
<1>5. Parts'
  BY <1>2, <1>4 DEF Parts
<1> QED
  BY <1>1, <1>3, <1>5, PartsAfter DEF PaysByTheRules, Ids

-------------------------------------------------------------------------------
(* The steps that touch an attempt or a run                                *)

IsSubmitted(t) == t.state \in {"answered", "closed"}

\* What is new is one attempt or one run, where there was room for it; what ends has nothing on screen.
NewFits ==
    /\ \A a, b \in Ids' \ Ids : a = b
    /\ \A a \in Ids' \ Ids :
          /\ attempts'[a].run \in (IF attempts'[a].mode = "mock" THEN RunIds ELSE {NoRun})
          /\ attempts'[a].mode = "daily" => \A b \in Ids : ~ b \in DailyOf(attempts'[a].day)
          /\ attempts'[a].mode = "mock" =>
                /\ ~ runs'[attempts'[a].run].finished
                /\ \A b \in OnScreen(attempts'[a].run) : IsSubmitted(attempts'[b])
    /\ \A r, s \in RunIds' \ RunIds : r = s
    /\ \A r \in RunIds' \ RunIds : \A s \in RunIds : runs[s].finished
    /\ \A r \in RunIds : runs'[r].finished =>
          runs[r].finished \/ \A b \in OnScreen(r) : IsSubmitted(attempts'[b])

LEMMA StepsKeep ==
    ASSUME PInv, AllKept, RunsKept, Follows, OthersOK', NewFits
    PROVE  PInv'
<1>1. RequestsOK'
  BY RequestsFollow DEF PInv
<1>2. /\ attempts \in Seq(Attempt) /\ attempts' \in Seq(Attempt) /\ runs \in Seq(Run) /\ runs' \in Seq(Run)
      /\ NoRun \notin RunIds /\ NoRun \notin RunIds'
      /\ RunIds \subseteq RunIds' /\ Ids \subseteq Ids'
  BY DEF PInv, PlayTypeOK, AllKept, Kept, RunsKept, RunIds, NoRun
<1>3. \A a \in Ids : attempts[a].run \in (IF attempts[a].mode = "mock" THEN RunIds ELSE {NoRun})
  BY DEF PInv, PlayTypeOK
<1>4. \A a \in Ids : /\ attempts'[a].mode = attempts[a].mode /\ attempts'[a].day = attempts[a].day
                     /\ attempts'[a].run = attempts[a].run
                     /\ IsSubmitted(attempts[a]) => IsSubmitted(attempts'[a])
  BY DEF AllKept, Kept, IsSubmitted, Submitted
<1>5. RefsOK'
  <2> SUFFICES ASSUME NEW a \in Ids'
               PROVE  attempts'[a].run \in (IF attempts'[a].mode = "mock" THEN RunIds' ELSE {NoRun})
    BY DEF RefsOK
  <2>1. CASE a \in Ids
    BY <1>2, <1>3, <1>4, <2>1
  <2>2. CASE a \notin Ids
    BY <1>2, <2>2 DEF NewFits
  <2> QED
    BY <2>1, <2>2
<1>6. OneDaily'
  <2> SUFFICES ASSUME NEW a \in Ids', NEW b \in Ids', attempts'[a].mode = "daily", attempts'[b].mode = "daily",
                      attempts'[a].day = attempts'[b].day
               PROVE  a = b
    BY DEF OneDaily
  <2>1. CASE a \in Ids /\ b \in Ids
    BY <1>4, <2>1 DEF PInv, OneDaily
  <2>2. CASE a \notin Ids /\ b \in Ids
    BY <1>4, <2>2 DEF NewFits, DailyOf
  <2>3. CASE a \in Ids /\ b \notin Ids
    BY <1>4, <2>3 DEF NewFits, DailyOf
  <2>4. CASE a \notin Ids /\ b \notin Ids
    BY <2>4 DEF NewFits
  <2> QED
    BY <2>1, <2>2, <2>3, <2>4
<1>7. OneOnScreen'
  <2>1. \A r \in RunIds', a \in Ids' : a \in OnScreen(r)' <=> attempts'[a].run = r /\ ~ IsSubmitted(attempts'[a])
    BY DEF OnScreen, OfRun, Submitted, IsSubmitted
  <2>2. \A a \in Ids : \A r : a \in OnScreen(r) <=> attempts[a].run = r /\ ~ IsSubmitted(attempts[a])
    BY DEF OnScreen, OfRun, Submitted, IsSubmitted
  <2>3. \A r \in RunIds' : OnScreen(r)' \subseteq Ids'
    BY DEF OnScreen, OfRun
  <2>4. \A r \in RunIds : OnScreen(r) \subseteq Ids
    BY DEF OnScreen, OfRun
  <2>5. \A a \in Ids : \A r \in RunIds' :
            attempts'[a].run = r /\ ~ IsSubmitted(attempts'[a]) =>
                r \in RunIds /\ a \in OnScreen(r) /\ ~ runs'[r].finished
    <3> SUFFICES ASSUME NEW a \in Ids, NEW r \in RunIds', attempts'[a].run = r, ~ IsSubmitted(attempts'[a])
                 PROVE  r \in RunIds /\ a \in OnScreen(r) /\ ~ runs'[r].finished
      OBVIOUS
    <3>1. r \in RunIds
      BY <1>2, <1>3, <1>4
    <3>2. a \in OnScreen(r)
      BY <1>4, <2>2
    <3>3. ~ runs[r].finished
      BY <3>1, <3>2 DEF PInv, OneOnScreen
    <3> QED
      BY <3>1, <3>2, <3>3 DEF NewFits
  <2>6. \A a \in Ids' \ Ids : \A r \in RunIds' :
            attempts'[a].run = r =>
                /\ r \in RunIds /\ ~ runs'[r].finished
                /\ \A b \in OnScreen(r) : IsSubmitted(attempts'[b])
    BY <1>2 DEF NewFits
  <2>7. \A r \in RunIds' : \A a, b \in Ids' :
            /\ attempts'[a].run = r /\ ~ IsSubmitted(attempts'[a])
            /\ attempts'[b].run = r /\ ~ IsSubmitted(attempts'[b])
            => a = b /\ ~ runs'[r].finished
    <3> SUFFICES ASSUME NEW r \in RunIds', NEW a \in Ids', NEW b \in Ids',
                        attempts'[a].run = r, ~ IsSubmitted(attempts'[a]),
                        attempts'[b].run = r, ~ IsSubmitted(attempts'[b])
                 PROVE  a = b /\ ~ runs'[r].finished
      OBVIOUS
    <3>1. CASE a \in Ids /\ b \in Ids
      BY <2>5, <3>1 DEF PInv, OneOnScreen
    <3>2. CASE a \notin Ids /\ b \in Ids
      BY <2>5, <2>6, <3>2
    <3>3. CASE a \in Ids /\ b \notin Ids
      BY <2>5, <2>6, <3>3
    <3>4. CASE a \notin Ids /\ b \notin Ids
      BY <2>6, <3>4 DEF NewFits
    <3> QED
      BY <3>1, <3>2, <3>3, <3>4
  <2> QED
    BY <2>1, <2>3, <2>7 DEF OneOnScreen
<1>8. OneOpenRun'
  BY <1>2 DEF PInv, OneOpenRun, NewFits, RunsKept
<1>9. Parts'
  BY <1>1, <1>2, <1>5, <1>6, <1>7, <1>8 DEF Parts
<1> QED
  BY <1>9, PartsAfter

LEMMA NoneAnswers ==
    ASSUME \A b \in Ids' : attempts'[b].state = "answered" => b \in Ids /\ attempts[b].state = "answered"
    PROVE  \A b \in Ids' : ~ AnswersNow(b)
BY DEF AnswersNow, Submitted

LEMMA SameRuns == PInv /\ runs' = runs => RunsKept
BY DEF PInv, PlayTypeOK, RunsKept, RunIds

LEMMA SameAttempts == PInv /\ attempts' = attempts => AllKept
BY DEF PInv, PlayTypeOK, AllKept, Kept, Ids

\* What surrounds attempts and runs, when it is left alone.
LEMMA OthersStay ==
    ASSUME PInv, UNCHANGED <<world, draw, known>>, Ids \subseteq Ids', xp' \in Nat
    PROVE  OthersOK'
BY DEF PInv, PlayTypeOK, OthersOK, world, draw

LEMMA OthersStayOvertaken ==
    ASSUME PInv, UNCHANGED <<world, drawn, drawnAt, known>>, Ids \subseteq Ids', xp' \in Nat,
           overtaken' \subseteq Days
    PROVE  OthersOK'
BY DEF PInv, PlayTypeOK, OthersOK, world

LEMMA InsertsDaily ==
    ASSUME PInv, NEW p \in Requests, InsertDaily(p)
    PROVE  PInv' /\ PaysByTheRules
<1> DEFINE d == request[p].day
           c == New("daily", request[p].question, d, NoRun)
<1>1. d \in Days /\ request[p].question \in Questions
  BY DEF PInv, RequestsOK, Fits, InsertDaily, IsAt
<1>2. c \in Attempt /\ c.mode = "daily" /\ c.day = d /\ c.run = NoRun /\ c.state = "running"
  BY <1>1 DEF New, Attempt, Rates, NoRun
<1>3. Follows /\ RunsKept /\ runs' = runs
  BY RequestsReturn, SameRuns DEF InsertDaily
<1>4. CASE Conflicts(d)
  <2>1. UNCHANGED <<attempts, runs, xp>> /\ UNCHANGED <<world, draw, known>> /\ xp' \in Nat
    BY <1>4 DEF InsertDaily, PInv, PlayTypeOK, draw
  <2>2. OthersOK'
    BY <2>1, OthersStay DEF Ids
  <2> QED
    BY <1>3, <2>1, <2>2, QuietSteps
<1>5. CASE ~ Conflicts(d)
  <2>1. /\ attempts' = Append(attempts, c) /\ UNCHANGED <<world, drawn, drawnAt, known>>
        /\ xp' \in Nat /\ xp' = xp
    BY <1>5 DEF InsertDaily, PInv, PlayTypeOK
  <2>8. overtaken' \subseteq Days
    BY <1>1, <1>5 DEF InsertDaily, PInv, PlayTypeOK
  <2> HIDE DEF c, d
  <2>2. attempts \in Seq(Attempt)
    BY DEF PInv, PlayTypeOK
  <2>3. /\ AllKept /\ Ids' = Ids \union {Len(attempts) + 1} /\ Len(attempts) + 1 \notin Ids
        /\ attempts'[Len(attempts) + 1] = c /\ \A a \in Ids : attempts'[a] = attempts[a]
    BY <1>2, <2>1, <2>2, OneMore
  <2>4. OthersOK'
    BY <2>1, <2>3, <2>8, OthersStayOvertaken
  <2>5. \A b \in Ids' : attempts'[b].state = "answered" => b \in Ids /\ attempts[b].state = "answered"
    BY <1>2, <2>3
  <2>6. \A b \in Ids' : ~ AnswersNow(b)
    BY <2>5, NoneAnswers
  <2>7. NewFits
    BY <1>2, <1>3, <1>5, <2>3 DEF NewFits, Conflicts, RunIds
  <2> QED
    BY <1>3, <2>1, <2>3, <2>4, <2>6, <2>7, StepsKeep DEF PaysByTheRules
<1> QED
  BY <1>4, <1>5

\* One attempt of this run or day is answered or closed, or runs over its time.
LEMMA OneChanges ==
    ASSUME PInv, NEW a \in Ids, ~ Submitted(a), NEW c \in Attempt,
           attempts' = [attempts EXCEPT ![a] = c], runs' = runs,
           c.mode = attempts[a].mode, c.question = attempts[a].question,
           c.day = attempts[a].day, c.run = attempts[a].run,
           Follows, UNCHANGED <<world, draw>>, xp' \in Nat,
           xp' = xp + (IF c.state = "answered" THEN Pays[c.rate] ELSE 0), known' \subseteq Questions \X {0, 1},
           c.state = "answered" => DailyAnswer(a) \/ MockAnswer(a) \/ PracticeAnswer(a)
    PROVE  PInv' /\ PaysByTheRules
<1>1. /\ AllKept /\ Ids' = Ids /\ attempts'[a] = c
      /\ \A b \in Ids : b # a => attempts'[b] = attempts[b]
  BY OneElse DEF PInv, PlayTypeOK
<1>2. RunsKept
  BY SameRuns
<1>3. OthersOK'
  BY <1>1 DEF PInv, PlayTypeOK, OthersOK, world, draw
<1>4. NewFits
  BY <1>1 DEF NewFits, RunIds
<1>5. \A b \in Ids' : AnswersNow(b) <=> b = a /\ c.state = "answered"
  BY <1>1 DEF AnswersNow, Submitted
<1>6. PaysByTheRules
  <2>1. xp \in Nat /\ (c.state # "answered" => xp' = xp)
    BY DEF PInv, PlayTypeOK
  <2> QED
    BY <1>1, <1>2, <1>5, <2>1 DEF PaysByTheRules
<1> QED
  BY <1>1, <1>2, <1>3, <1>4, <1>6, StepsKeep

LEMMA AnswersDaily ==
    ASSUME PInv, NEW p \in Requests, AnswerDaily(p)
    PROVE  PInv' /\ PaysByTheRules
<1> DEFINE a == request[p].attempt
           now == request[p].day
           rate == DailyRate(a, now)
           c == Scored(a, "answered", rate)
<1>1. a \in Ids /\ attempts[a].mode = "daily" /\ now \in Days /\ IsAt(p, "answer")
  BY DEF PInv, RequestsOK, Fits, AnswerDaily, IsAt, Ids
<1>2. attempts[a] \in Attempt
  BY <1>1 DEF PInv, PlayTypeOK, Ids
<1>3. rate \in Rates /\ Pays[rate] \in Nat /\ Season(now) \in {0, 1}
  BY RatesAreTyped
<1>4. /\ c \in Attempt /\ c.mode = attempts[a].mode /\ c.question = attempts[a].question
      /\ c.day = attempts[a].day /\ c.run = attempts[a].run
      /\ c.state = "answered" /\ c.rate = rate /\ c.knew = Knows(attempts[a].question, PlayDay(a))
  <2> HIDE DEF rate
  <2> QED
    BY <1>2, <1>3, ScoresAreTyped
<1>5. Follows /\ runs' = runs /\ UNCHANGED <<world, draw>>
  BY RequestsReturn DEF AnswerDaily
<1>6. CASE StillOpen(a)
  <2>1. /\ attempts' = [attempts EXCEPT ![a] = c] /\ xp' = xp + Pays[rate]
        /\ known' = known \union {<<attempts[a].question, Season(now)>>}
    BY <1>6 DEF AnswerDaily
  <2>2. xp' \in Nat
    <3> HIDE DEF rate
    <3> QED
      BY <1>3, <2>1 DEF PInv, PlayTypeOK
  <2>3. known' \subseteq Questions \X {0, 1}
    <3>1. attempts[a].question \in Questions
      BY <1>2 DEF Attempt
    <3> QED
      BY <1>3, <2>1, <3>1 DEF PInv, PlayTypeOK
  <2>4. attempts'[a] = c
    BY <1>1, <2>1 DEF PInv, PlayTypeOK, Ids
  <2>5. DailyAnswer(a)
    BY <1>1, <1>4, <2>4 DEF DailyAnswer
  <2>6. ~ Submitted(a)
    BY <1>6 DEF StillOpen
  <2> HIDE DEF c, rate, a, now
  <2> QED
    BY <1>1, <1>4, <1>5, <2>1, <2>2, <2>3, <2>5, <2>6, OneChanges
<1>7. CASE ~ StillOpen(a)
  <2>1. UNCHANGED <<attempts, runs, xp>> /\ UNCHANGED <<world, draw, known>> /\ xp' \in Nat
    BY <1>7 DEF AnswerDaily, PInv, PlayTypeOK
  <2>2. OthersOK'
    BY <2>1, OthersStay DEF Ids
  <2> QED
    BY <1>5, <2>1, <2>2, QuietSteps
<1> QED
  BY <1>6, <1>7

LEMMA ClosesDaily ==
    ASSUME PInv, NEW p \in Requests, CloseDaily(p)
    PROVE  PInv' /\ PaysByTheRules
<1> DEFINE a == request[p].attempt
           now == request[p].day
           rate == ClosedDailyRate(a, now)
           c == Scored(a, "closed", rate)
<1>1. a \in Ids /\ now \in Days
  BY DEF PInv, RequestsOK, Fits, CloseDaily, IsAt, Ids
<1>2. attempts[a] \in Attempt
  BY <1>1 DEF PInv, PlayTypeOK, Ids
<1>3. rate \in Rates /\ Season(now) \in {0, 1}
  BY RatesAreTyped
<1>4. /\ c \in Attempt /\ c.mode = attempts[a].mode /\ c.question = attempts[a].question
      /\ c.day = attempts[a].day /\ c.run = attempts[a].run /\ c.state = "closed"
  <2> HIDE DEF rate
  <2> QED
    BY <1>2, <1>3, ScoresAreTyped
<1>5. Follows /\ runs' = runs /\ UNCHANGED <<world, draw>> /\ xp' \in Nat /\ xp' = xp /\ xp' = xp + 0
  BY RequestsReturn DEF CloseDaily, PInv, PlayTypeOK
<1>6. CASE StillOpen(a)
  <2>1. /\ attempts' = [attempts EXCEPT ![a] = c]
        /\ known' = known \union {<<attempts[a].question, Season(now)>>}
    BY <1>6 DEF CloseDaily
  <2>2. known' \subseteq Questions \X {0, 1}
    <3>1. attempts[a].question \in Questions
      BY <1>2 DEF Attempt
    <3> QED
      BY <1>3, <2>1, <3>1 DEF PInv, PlayTypeOK
  <2>3. ~ Submitted(a)
    BY <1>6 DEF StillOpen
  <2> HIDE DEF c, rate, a, now
  <2> QED
    BY <1>1, <1>4, <1>5, <2>1, <2>2, <2>3, OneChanges
<1>7. CASE ~ StillOpen(a)
  <2>1. UNCHANGED <<attempts, runs, xp>> /\ UNCHANGED <<world, draw, known>>
    BY <1>7 DEF CloseDaily
  <2>2. OthersOK'
    BY <1>5, <2>1, OthersStay DEF Ids
  <2> QED
    BY <1>5, <2>1, <2>2, QuietSteps
<1> QED
  BY <1>6, <1>7

LEMMA TimesUp ==
    ASSUME PInv, NEW a \in Ids, TimeUp(a)
    PROVE  PInv' /\ PaysByTheRules
<1> DEFINE c == [attempts[a] EXCEPT !.state = "overdue"]
<1>1. attempts[a] \in Attempt
  BY DEF PInv, PlayTypeOK, Ids
<1>2. /\ c \in Attempt /\ c.mode = attempts[a].mode /\ c.question = attempts[a].question
      /\ c.day = attempts[a].day /\ c.run = attempts[a].run /\ c.state = "overdue"
  BY <1>1 DEF Attempt
<1>3. attempts' = [attempts EXCEPT ![a] = c] /\ ~ Submitted(a)
  BY <1>1 DEF TimeUp, Submitted, Attempt
<1>4. /\ Follows /\ runs' = runs /\ UNCHANGED <<world, draw>> /\ xp' \in Nat /\ xp' = xp + 0
      /\ known' \subseteq Questions \X {0, 1}
  BY DEF TimeUp, PInv, PlayTypeOK, Follows
<1> HIDE DEF c
<1> QED
  BY <1>2, <1>3, <1>4, OneChanges

LEMMA AnswersMock ==
    ASSUME PInv, NEW p \in Requests, NEW a \in Ids, AnswerMock(p, a)
    PROVE  PInv' /\ PaysByTheRules
<1> DEFINE rate == MockRate(a, day)
           c == Scored(a, "answered", rate)
           r == [step |-> "show", run |-> attempts[a].run]
<1>1. attempts[a] \in Attempt /\ attempts[a].mode = "mock" /\ ~ Submitted(a) /\ attempts[a].run \in RunIds
  BY DEF PInv, PlayTypeOK, Ids, AnswerMock, StillOpen
<1>2. rate \in Rates /\ Pays[rate] \in Nat
  BY RatesAreTyped
<1>3. /\ c \in Attempt /\ c.mode = attempts[a].mode /\ c.question = attempts[a].question
      /\ c.day = attempts[a].day /\ c.run = attempts[a].run
      /\ c.state = "answered" /\ c.rate = rate /\ c.knew = Knows(attempts[a].question, PlayDay(a))
  <2> HIDE DEF rate
  <2> QED
    BY <1>1, <1>2, ScoresAreTyped
<1>4. /\ attempts' = [attempts EXCEPT ![a] = c] /\ xp' = xp + Pays[rate]
      /\ runs' = runs /\ UNCHANGED <<world, draw>> /\ known' \subseteq Questions \X {0, 1}
      /\ Arrives(p, r)
  BY DEF AnswerMock, PInv, PlayTypeOK
<1>5. xp' \in Nat
  <2> HIDE DEF rate
  <2> QED
    BY <1>2, <1>4 DEF PInv, PlayTypeOK
<1>6. Follows
  <2>1. Fits(r, attempts', runs')
    BY <1>1, <1>4 DEF Fits, RunIds
  <2> HIDE DEF r
  <2> QED
    BY <1>4, <2>1, RequestsArrive
<1>7. attempts'[a] = c
  BY <1>4 DEF PInv, PlayTypeOK, Ids
<1>8. MockAnswer(a)
  BY <1>1, <1>3, <1>7 DEF MockAnswer
<1> HIDE DEF c, rate, r
<1> QED
  BY <1>1, <1>3, <1>4, <1>5, <1>6, <1>8, OneChanges

\* Attempts that are not submitted, if any, are closed, and at most one run ends.
LEMMA SomeClose ==
    ASSUME PInv, NEW S \in SUBSET Ids, \A a \in S : ~ Submitted(a),
           attempts' = TimedOut(S), RunsKept, RunIds' = RunIds, Follows,
           UNCHANGED <<world, draw, known>>, xp' \in Nat, xp' = xp,
           \A r \in RunIds : runs'[r].finished => runs[r].finished \/ OnScreen(r) \subseteq S
    PROVE  PInv' /\ PaysByTheRules
<1>1. /\ attempts' \in Seq(Attempt) /\ DOMAIN attempts' = Ids
      /\ \A a \in Ids \ S : attempts'[a] = attempts[a]
      /\ \A a \in S : /\ attempts'[a].mode = attempts[a].mode
                      /\ attempts'[a].question = attempts[a].question
                      /\ attempts'[a].day = attempts[a].day /\ attempts'[a].run = attempts[a].run
                      /\ attempts'[a].state = "closed"
  BY SomeTimeOut DEF PInv
<1>2. Ids' = Ids
  BY <1>1 DEF Ids
<1>3. AllKept
  BY <1>1, <1>2 DEF AllKept, Kept
<1>4. OthersOK'
  BY <1>2, OthersStay
<1>5. \A b \in Ids' : attempts'[b].state = "answered" => b \in Ids /\ attempts[b].state = "answered"
  BY <1>1, <1>2
<1>6. \A b \in Ids' : ~ AnswersNow(b)
  BY <1>5, NoneAnswers
<1>7. NewFits
  BY <1>1, <1>2 DEF NewFits, IsSubmitted
<1> QED
  BY <1>3, <1>4, <1>6, <1>7, StepsKeep DEF PaysByTheRules, NewFits

LEMMA ClosesMock ==
    ASSUME PInv, NEW a \in Ids, CloseMock(a)
    PROVE  PInv' /\ PaysByTheRules
<1>1. PICK S \in SUBSET Ids : S = {a}
  OBVIOUS
<1>2. /\ attempts' = TimedOut(S) /\ runs' = runs /\ Follows
      /\ UNCHANGED <<world, draw, known>> /\ xp' \in Nat /\ xp' = xp
  BY <1>1 DEF CloseMock, PInv, PlayTypeOK, Follows
<1>3. \A b \in S : ~ Submitted(b)
  BY <1>1 DEF CloseMock, Submitted
<1>4. RunsKept /\ RunIds' = RunIds /\ \A r \in RunIds : runs'[r].finished => runs[r].finished
  BY <1>2, SameRuns DEF RunIds
<1>5. \A r \in RunIds : runs'[r].finished => runs[r].finished \/ OnScreen(r) \subseteq S
  BY <1>4
<1> QED
  BY <1>2, <1>3, <1>4, <1>5, SomeClose

\* One run is another.
LEMMA OneRunElse ==
    ASSUME runs \in Seq(Run), NEW r \in RunIds, NEW c \in Run, runs' = [runs EXCEPT ![r] = c]
    PROVE  runs' \in Seq(Run) /\ RunIds' = RunIds /\ \A s \in RunIds : runs'[s] = IF s = r THEN c ELSE runs[s]
BY DEF RunIds

\* A run ends.
LEMMA OneEnds ==
    ASSUME PInv, NEW r \in RunIds, ~ runs[r].finished, runs' = [runs EXCEPT ![r].finished = TRUE]
    PROVE  RunsKept /\ RunIds' = RunIds /\ \A s \in RunIds : runs'[s].finished => runs[s].finished \/ s = r
<1>1. runs \in Seq(Run) /\ runs[r] \in Run
  BY DEF PInv, PlayTypeOK, RunIds
<1>2. PICK c \in Run : c = [runs[r] EXCEPT !.finished = TRUE]
  BY <1>1 DEF Run
<1>3. c.day = runs[r].day
  BY <1>1, <1>2 DEF Run
<1>4. runs' = [runs EXCEPT ![r] = c]
  BY <1>2
<1>5. runs' \in Seq(Run) /\ RunIds' = RunIds /\ \A s \in RunIds : runs'[s] = IF s = r THEN c ELSE runs[s]
  BY <1>1, <1>4, OneRunElse
<1> QED
  BY <1>3, <1>5 DEF RunsKept

LEMMA RunsEnd ==
    ASSUME PInv, NEW r \in RunIds, Finish(r), Follows
    PROVE  PInv' /\ PaysByTheRules
<1>1. /\ attempts' = TimedOut(OnScreen(r)) /\ OnScreen(r) \in SUBSET Ids
      /\ \A a \in OnScreen(r) : ~ Submitted(a)
      /\ UNCHANGED <<world, draw, known>> /\ xp' \in Nat /\ xp' = xp
  BY DEF Finish, ClosedByEnd, OnScreen, OfRun, PInv, PlayTypeOK
<1>2. RunsKept /\ RunIds' = RunIds /\ \A s \in RunIds : runs'[s].finished => runs[s].finished \/ s = r
  BY OneEnds DEF Finish
<1>3. \A s \in RunIds : runs'[s].finished => runs[s].finished \/ OnScreen(s) \subseteq OnScreen(r)
  BY <1>2
<1> QED
  BY <1>1, <1>2, <1>3, SomeClose

LEMMA RunsShow ==
    ASSUME PInv, NEW r \in RunIds, Show(r), Follows
    PROVE  PInv' /\ PaysByTheRules
<1>1. /\ OnScreen(r) \in SUBSET Ids /\ \A a \in OnScreen(r) : ~ Submitted(a)
      /\ UNCHANGED <<world, draw, known>> /\ xp' \in Nat /\ xp' = xp /\ ~ runs[r].finished
  BY DEF Show, OnScreen, OfRun, PInv, PlayTypeOK
<1>2. CASE attempts' = TimedOut(OnScreen(r)) /\ runs' = [runs EXCEPT ![r].finished = TRUE]
  <2>1. RunsKept /\ RunIds' = RunIds /\ \A s \in RunIds : runs'[s].finished => runs[s].finished \/ s = r
    BY <1>1, <1>2, OneEnds
  <2>2. \A s \in RunIds : runs'[s].finished => runs[s].finished \/ OnScreen(s) \subseteq OnScreen(r)
    BY <2>1
  <2> QED
    BY <1>1, <1>2, <2>1, <2>2, SomeClose
<1>3. CASE /\ \E q \in NotShown(r) : attempts' = Append(TimedOut(OnScreen(r)), New("mock", q, day, r))
           /\ runs' = runs
  <2>1. PICK q \in NotShown(r) : attempts' = Append(TimedOut(OnScreen(r)), New("mock", q, day, r))
    BY <1>3
  <2> DEFINE c == New("mock", q, day, r)
             n == Len(attempts) + 1
             middle == TimedOut(OnScreen(r))
  <2>2. q \in Questions /\ day \in Days /\ r \in Nat
    BY PlayAssumption DEF NotShown, PInv, PlayTypeOK, RunIds
  <2>3. c \in Attempt /\ c.mode = "mock" /\ c.run = r /\ c.state = "running"
    BY <2>2 DEF New, Attempt, Rates
  <2>4. /\ middle \in Seq(Attempt) /\ DOMAIN middle = Ids /\ Len(middle) = Len(attempts)
        /\ \A a \in Ids \ OnScreen(r) : middle[a] = attempts[a]
        /\ \A a \in OnScreen(r) : /\ middle[a].mode = attempts[a].mode
                                  /\ middle[a].question = attempts[a].question
                                  /\ middle[a].day = attempts[a].day /\ middle[a].run = attempts[a].run
                                  /\ middle[a].state = "closed"
    BY <1>1, SomeTimeOut DEF PInv
  <2>5. attempts' = Append(middle, c)
    BY <2>1
  <2> HIDE DEF c, middle
  <2>6. /\ attempts' \in Seq(Attempt) /\ Ids' = Ids \union {n} /\ n \notin Ids
        /\ attempts'[n] = c /\ \A a \in Ids : attempts'[a] = middle[a]
    BY <2>3, <2>4, <2>5 DEF Ids
  <2> HIDE DEF n
  <2>7. AllKept
    BY <1>1, <2>4, <2>6 DEF AllKept, Kept
  <2>8. OthersOK'
    BY <1>1, <2>6, OthersStay
  <2>9. \A b \in Ids' : attempts'[b].state = "answered" => b \in Ids /\ attempts[b].state = "answered"
    BY <1>1, <2>3, <2>4, <2>6
  <2>10. \A b \in Ids' : ~ AnswersNow(b)
    BY <2>9, NoneAnswers
  <2>11. NewFits
    BY <1>1, <1>3, <2>3, <2>4, <2>6, ZenonT(40) DEF NewFits, IsSubmitted, RunIds
  <2>12. RunsKept
    BY <1>3, SameRuns
  <2> QED
    BY <1>1, <2>7, <2>8, <2>10, <2>11, <2>12, StepsKeep DEF PaysByTheRules, NewFits
<1> QED
  BY <1>2, <1>3 DEF Show

LEMMA RunsStart ==
    ASSUME PInv, NEW p \in Requests, StartRun(p)
    PROVE  PInv' /\ PaysByTheRules
<1> DEFINE d == request[p].day
           c == [day |-> d, counted |-> request[p].counted, finished |-> FALSE]
<1>1. d \in Days /\ request[p].counted \in BOOLEAN
  BY DEF PInv, RequestsOK, Fits, StartRun, IsAt
<1>2. c \in Run /\ ~ c.finished
  BY <1>1 DEF Run
<1>3. Follows /\ AllKept /\ attempts' = attempts /\ UNCHANGED <<world, draw, known>> /\ xp' \in Nat /\ xp' = xp
  BY RequestsReturn, SameAttempts DEF StartRun, PInv, PlayTypeOK
<1>4. OthersOK'
  BY <1>3, OthersStay DEF Ids
<1>5. CASE ~ MayStart
  <2>1. runs' = runs
    BY <1>5 DEF StartRun
  <2> QED
    BY <1>3, <1>4, <2>1, QuietSteps
<1>6. CASE MayStart
  <2>1. runs' = Append(runs, c) /\ runs \in Seq(Run)
    BY <1>6 DEF StartRun, PInv, PlayTypeOK
  <2> HIDE DEF c
  <2>2. /\ runs' \in Seq(Run) /\ RunIds' = RunIds \union {Len(runs) + 1} /\ Len(runs) + 1 \notin RunIds
        /\ \A s \in RunIds : runs'[s] = runs[s]
    BY <1>2, <2>1 DEF RunIds
  <2>3. RunsKept
    BY <2>2 DEF RunsKept
  <2>4. \A b \in Ids' : ~ AnswersNow(b)
    BY <1>3 DEF AnswersNow, Submitted, Ids
  <2>5. NewFits
    BY <1>3, <1>6, <2>2 DEF NewFits, MayStart, Ids
  <2> QED
    BY <1>3, <1>4, <2>3, <2>4, <2>5, StepsKeep DEF PaysByTheRules, NewFits
<1> QED
  BY <1>5, <1>6

LEMMA AnswersPractice ==
    ASSUME PInv, NEW p \in Requests, AnswerPractice(p)
    PROVE  PInv' /\ PaysByTheRules
<1> DEFINE q == request[p].question
           now == request[p].day
           rate == Rate(LastSeen(Ids, q, now), AnsweredToday(Ids, q, now))
           knew == Knows(q, now)
           n == Len(attempts) + 1
           c == [New("practice", q, now, NoRun) EXCEPT !.state = "answered", !.rate = rate, !.knew = knew]
<1>1. q \in Questions /\ now \in Days
  BY DEF PInv, RequestsOK, Fits, AnswerPractice, IsAt
<1>2. rate \in Rates /\ Pays[rate] \in Nat /\ Season(now) \in {0, 1} /\ knew \in BOOLEAN
  BY RatesAreTyped, KnowsOrNot
<1>3. /\ attempts' = Append(attempts, c) /\ xp' = xp + Pays[rate]
      /\ known' = known \union {<<q, Season(now)>>} /\ UNCHANGED <<world, draw, runs>>
  BY DEF AnswerPractice
<1>4. Follows /\ RunsKept
  BY <1>3, RequestsReturn, SameRuns DEF AnswerPractice
<1>5. /\ c \in Attempt /\ c.mode = "practice" /\ c.question = q /\ c.day = now /\ c.run = NoRun
      /\ c.state = "answered" /\ c.rate = rate /\ c.knew = knew
  <2> HIDE DEF rate, knew
  <2> QED
    BY <1>1, <1>2 DEF New, Attempt, Rates, NoRun
<1>6. xp' \in Nat /\ known' \subseteq Questions \X {0, 1}
  <2> HIDE DEF rate
  <2> QED
    BY <1>1, <1>2, <1>3 DEF PInv, PlayTypeOK
<1>7. attempts \in Seq(Attempt)
  BY DEF PInv, PlayTypeOK
<1>8. /\ AllKept /\ Ids' = Ids \union {n} /\ n \notin Ids
      /\ attempts'[n] = c /\ \A a \in Ids : attempts'[a] = attempts[a]
  <2> HIDE DEF c
  <2> QED
    BY <1>3, <1>5, <1>7, OneMore
<1>9. PracticeAnswer(n)
  BY <1>5, <1>8 DEF PracticeAnswer
<1> HIDE DEF c, rate, knew
<1>10. OthersOK'
  BY <1>3, <1>6, <1>8 DEF PInv, PlayTypeOK, OthersOK, world, draw
<1>11. NewFits
  BY <1>3, <1>5, <1>8 DEF NewFits, RunIds, NoRun
<1>12. \A b \in Ids' : AnswersNow(b) <=> b = n
  BY <1>5, <1>8 DEF AnswersNow, Submitted
<1>13. PaysByTheRules
  BY <1>3, <1>4, <1>5, <1>8, <1>9, <1>12 DEF PaysByTheRules
<1> QED
  BY <1>4, <1>8, <1>10, <1>11, <1>13, StepsKeep

-------------------------------------------------------------------------------
(* The steps that touch none                                               *)

\* A request is read and waits, and nothing else.
LEMMA Asks ==
    ASSUME PInv, NEW p \in Requests, NEW c, Arrives(p, c), Fits(c, attempts, runs),
           UNCHANGED <<world, draw, attempts, runs, xp, known>>
    PROVE  PInv' /\ PaysByTheRules
<1>1. OthersOK'
  BY OthersStay DEF PInv, PlayTypeOK, Ids
<1>2. Follows
  BY RequestsArrive
<1> QED
  BY <1>1, <1>2, QuietSteps

LEMMA DailyAsks ==
    ASSUME PInv, NEW p \in Requests,
           AskForDraw(p) \/ StartDaily(p) \/ \E a \in Ids : ReadDaily(p, a) \/ ListDaily(p, a)
    PROVE  PInv' /\ PaysByTheRules
<1>1. CASE AskForDraw(p)
  <2> DEFINE c == [step |-> "draw", day |-> day, closed |-> ClosedMock]
  <2>1. Fits(c, attempts, runs)
    BY DEF Fits, ClosedMock, Ids, PInv, PlayTypeOK
  <2>2. Arrives(p, c) /\ UNCHANGED <<world, draw, attempts, runs, xp, known>>
    BY <1>1 DEF AskForDraw
  <2> QED
    BY <2>1, <2>2, Asks
<1>2. CASE StartDaily(p)
  <2> DEFINE c == [step |-> "insert", day |-> day, question |-> drawn[day]]
  <2>1. Fits(c, attempts, runs)
    BY <1>2 DEF Fits, StartDaily, Chosen, PInv, PlayTypeOK
  <2>2. Arrives(p, c) /\ UNCHANGED <<world, draw, attempts, runs, xp, known>>
    BY <1>2 DEF StartDaily
  <2> QED
    BY <2>1, <2>2, Asks
<1>3. ASSUME NEW a \in Ids, ReadDaily(p, a) \/ ListDaily(p, a)
      PROVE  PInv' /\ PaysByTheRules
  <2>1. PICK step \in {"answer", "close"} : Arrives(p, [step |-> step, day |-> day, attempt |-> a])
    BY <1>3 DEF ReadDaily, ListDaily
  <2> DEFINE c == [step |-> step, day |-> day, attempt |-> a]
  <2>2. Fits(c, attempts, runs)
    BY <1>3 DEF Fits, ReadDaily, ListDaily, Ids, PInv, PlayTypeOK
  <2>3. UNCHANGED <<world, draw, attempts, runs, xp, known>>
    BY <1>3 DEF ReadDaily, ListDaily
  <2> QED
    BY <2>1, <2>2, <2>3, Asks
<1> QED
  BY <1>1, <1>2, <1>3

LEMMA OtherAsks ==
    ASSUME PInv, NEW p \in Requests,
           \/ AskForRun(p)
           \/ \E r \in RunIds : ListStale(p, r)
           \/ \E q \in Questions : AskPractice(p, q)
    PROVE  PInv' /\ PaysByTheRules
<1>1. CASE AskForRun(p)
  <2>1. PICK counted \in BOOLEAN : counted = \A r \in RunIds : Season(runs[r].day) # Season(day)
    OBVIOUS
  <2> DEFINE c == [step |-> "run", day |-> day, counted |-> counted]
  <2>2. Fits(c, attempts, runs)
    BY DEF Fits, PInv, PlayTypeOK
  <2>3. Arrives(p, c) /\ UNCHANGED <<world, draw, attempts, runs, xp, known>>
    BY <1>1, <2>1 DEF AskForRun
  <2> QED
    BY <2>2, <2>3, Asks
<1>2. ASSUME NEW r \in RunIds, ListStale(p, r) PROVE PInv' /\ PaysByTheRules
  <2> DEFINE c == [step |-> "end", run |-> r]
  <2>1. Fits(c, attempts, runs)
    BY DEF Fits, RunIds
  <2>2. Arrives(p, c) /\ UNCHANGED <<world, draw, attempts, runs, xp, known>>
    BY <1>2 DEF ListStale
  <2> QED
    BY <2>1, <2>2, Asks
<1>3. ASSUME NEW q \in Questions, AskPractice(p, q) PROVE PInv' /\ PaysByTheRules
  <2> DEFINE c == [step |-> "practice", day |-> day, question |-> q]
  <2>1. Fits(c, attempts, runs)
    BY DEF Fits, PInv, PlayTypeOK
  <2>2. Arrives(p, c) /\ UNCHANGED <<world, draw, attempts, runs, xp, known>>
    BY <1>3 DEF AskPractice
  <2> QED
    BY <2>1, <2>2, Asks
<1> QED
  BY <1>1, <1>2, <1>3

LEMMA DrawsDaily ==
    ASSUME PInv, NEW p \in Requests, DrawDaily(p)
    PROVE  PInv' /\ PaysByTheRules
<1>1. request[p].day \in Days /\ request[p].closed \subseteq Ids
  BY DEF PInv, RequestsOK, Fits, DrawDaily, IsAt, Ids
<1>2. UNCHANGED <<world, attempts, runs, xp, known>> /\ Follows
  BY RequestsReturn DEF DrawDaily
<1>3. /\ playable \subseteq Questions /\ drawn \in [Days -> Questions \union {NoQuestion}]
      /\ drawnAt \in [Days -> SUBSET Ids] /\ overtaken \subseteq Days
  BY DEF PInv, PlayTypeOK
<1>4. /\ drawn' \in [Days -> Questions \union {NoQuestion}] /\ drawnAt' \in [Days -> SUBSET Ids]
      /\ overtaken' \subseteq Days
  <2>1. CASE UNCHANGED draw
    BY <1>3, <2>1 DEF draw
  <2>2. CASE /\ \E q \in playable : drawn' = [drawn EXCEPT ![request[p].day] = q]
             /\ drawnAt' = [drawnAt EXCEPT ![request[p].day] = request[p].closed]
             /\ overtaken' \subseteq overtaken \union {request[p].day}
    BY <1>1, <1>3, <2>2
  <2> QED
    BY <2>1, <2>2 DEF DrawDaily
<1>5. OthersOK'
  BY <1>2, <1>4 DEF PInv, PlayTypeOK, OthersOK, world, Ids
<1> QED
  BY <1>2, <1>5, QuietSteps

LEMMA OutsideSteps ==
    ASSUME PInv, PlayAssumption,
           \/ \E r \in RunIds : ReadSummary(r)
           \/ Midnight
           \/ \E q \in Questions : Review(q)
           \/ UNCHANGED vars
    PROVE  PInv' /\ PaysByTheRules
<1>1. UNCHANGED <<attempts, runs, xp, request>> /\ Follows
  BY DEF ReadSummary, Midnight, Review, vars, Follows
<1>2. CASE \E r \in RunIds : ReadSummary(r)
  <2>1. PICK r \in RunIds : ReadSummary(r)
    BY <1>2
  <2>2. Summarised(r) \subseteq Questions
    <3>1. \A a \in OfRun(r) : attempts[a].question \in Questions
      <4>1. \A a \in Ids : attempts[a] \in Attempt
        BY DEF Ids, PInv, PlayTypeOK
      <4> QED
        BY <4>1 DEF OfRun, Attempt
    <3> QED
      BY <3>1 DEF Summarised
  <2>3. known' \subseteq Questions \X {0, 1}
    BY <2>1, <2>2, RatesAreTyped DEF ReadSummary, PInv, PlayTypeOK
  <2>4. OthersOK'
    BY <1>1, <2>1, <2>3 DEF ReadSummary, PInv, PlayTypeOK, OthersOK, world, draw, Ids
  <2> QED
    BY <1>1, <2>4, QuietSteps
<1>3. CASE Midnight
  <2>1. day' \in Days
    BY <1>3, PlayAssumption DEF Midnight, PInv, PlayTypeOK, Days
  <2>2. OthersOK'
    BY <1>1, <1>3, <2>1 DEF Midnight, PInv, PlayTypeOK, OthersOK, draw, Ids
  <2> QED
    BY <1>1, <2>2, QuietSteps
<1>4. ASSUME NEW q \in Questions, Review(q) PROVE PInv' /\ PaysByTheRules
  <2>1. playable' \subseteq Questions
    BY <1>4 DEF Review, PInv, PlayTypeOK
  <2>2. reviews' \in 0 .. MaxReviews
    BY <1>4, PlayAssumption DEF Review, PInv, PlayTypeOK
  <2>3. OthersOK'
    BY <1>1, <1>4, <2>1, <2>2 DEF Review, PInv, PlayTypeOK, OthersOK, draw, Ids
  <2> QED
    BY <1>1, <2>3, QuietSteps
<1>5. CASE UNCHANGED vars
  <2>1. OthersOK'
    BY <1>5 DEF vars, PInv, PlayTypeOK, OthersOK, draw, world, Ids
  <2> QED
    BY <1>1, <2>1, QuietSteps
<1> QED
  BY <1>2, <1>3, <1>4, <1>5

-------------------------------------------------------------------------------
(* Theorems                                                                *)

LEMMA Starts == Init => PInv
<1> SUFFICES ASSUME Init PROVE PInv
  OBVIOUS
<1>1. attempts = <<>> /\ runs = <<>> /\ Ids = {} /\ RunIds = {}
  BY DEF Init, Ids, RunIds
<1>2. OthersOK
  BY <1>1, PlayAssumption DEF Init, OthersOK, Days
<1>3. RequestsOK
  BY DEF Init, RequestsOK, Fits, Idle
<1>4. RefsOK /\ OneDaily /\ OneOnScreen /\ OneOpenRun /\ attempts \in Seq(Attempt) /\ runs \in Seq(Run)
  BY <1>1 DEF RefsOK, OneDaily, OneOnScreen, OneOpenRun
<1> QED
  BY <1>2, <1>3, <1>4, TypesInParts DEF Parts

LEMMA EveryStep ==
    ASSUME PInv, [Next]_vars
    PROVE  PInv' /\ PaysByTheRules
<1>1. ASSUME NEW p \in Requests, OfDaily(p) PROVE PInv' /\ PaysByTheRules
  BY <1>1, DailyAsks, DrawsDaily, InsertsDaily, AnswersDaily, ClosesDaily DEF OfDaily
<1>2. ASSUME NEW p \in Requests, OfMock(p) PROVE PInv' /\ PaysByTheRules
  <2>1. CASE ShowNext(p)
    <3> DEFINE r == request[p].run
    <3>1. r \in RunIds /\ Follows
      BY <2>1, RequestsReturn DEF PInv, RequestsOK, Fits, ShowNext, IsAt, RunIds
    <3>2. CASE Show(r)
      BY <3>1, <3>2, RunsShow
    <3>3. CASE UNCHANGED <<world, draw, attempts, runs, xp, known>>
      <4>1. OthersOK'
        BY <3>3, OthersStay DEF PInv, PlayTypeOK, Ids
      <4> QED
        BY <3>1, <3>3, <4>1, QuietSteps
    <3> QED
      BY <2>1, <3>2, <3>3 DEF ShowNext
  <2>2. CASE EndStale(p)
    <3> DEFINE r == request[p].run
    <3>1. r \in RunIds /\ Follows
      BY <2>2, RequestsReturn DEF PInv, RequestsOK, Fits, EndStale, IsAt, RunIds
    <3>2. CASE Finish(r)
      BY <3>1, <3>2, RunsEnd
    <3>3. CASE UNCHANGED <<world, draw, attempts, runs, xp, known>>
      <4>1. OthersOK'
        BY <3>3, OthersStay DEF PInv, PlayTypeOK, Ids
      <4> QED
        BY <3>1, <3>3, <4>1, QuietSteps
    <3> QED
      BY <2>2, <3>2, <3>3 DEF EndStale
  <2> QED
    BY <1>2, <2>1, <2>2, OtherAsks, RunsStart, AnswersMock DEF OfMock
<1>3. ASSUME NEW p \in Requests, OfPractice(p) PROVE PInv' /\ PaysByTheRules
  BY <1>3, OtherAsks, AnswersPractice DEF OfPractice
<1>4. ASSUME NEW r \in RunIds, ComeBack(r) \/ EndRun(r) PROVE PInv' /\ PaysByTheRules
  BY <1>4, RunsShow, RunsEnd DEF ComeBack, EndRun, Follows
<1>5. ASSUME NEW a \in Ids, CloseMock(a) \/ TimeUp(a) PROVE PInv' /\ PaysByTheRules
  BY <1>5, ClosesMock, TimesUp
<1> QED
  BY <1>1, <1>2, <1>3, <1>4, <1>5, OutsideSteps, PlayAssumption DEF Next, OfRuns

\* What the model is reasoned about with: types, one try at each day's question, one question on a
\* run's screen and one open run (Play).
THEOREM InvariantHolds == Spec => []PInv
<1>1. PInv /\ [Next]_vars => PInv'
  BY EveryStep
<1> QED
  BY Starts, <1>1, PTL DEF Spec

\* Every variable has its type, and what a row or a request says of another exists: exactly the mock
\* attempts belong to a run (models.py: attempts.session_id).
THEOREM TypeCorrect == Spec => []PlayTypeOK
BY InvariantHolds, PTL DEF PInv

-------------------------------------------------------------------------------
(* The player's XP                                                         *)

\* What each attempt was granted.
Granted == [a \in Ids |-> PaidFor(a)]

\* The sum of Play, as the lemmas about sums have it.
LEMMA XpAsSum ==
    ASSUME attempts \in Seq(Attempt)
    PROVE  IsFiniteSet(Ids) /\ MapThenSumSet(PaidFor, Ids) = SumOf(Granted)
<1> DEFINE P(g) == g = [s \in SUBSET Ids |->
                          IF s = {} THEN 0
                          ELSE PaidFor(CHOOSE x \in s : TRUE) + g[s \ {CHOOSE x \in s : TRUE}]]
           it == CHOOSE g : P(g)
<1>1. IsFiniteSet(Ids)
  <2>1. Ids = 1 .. Len(attempts) /\ Len(attempts) \in Nat
    BY DEF Ids
  <2> QED
    BY <2>1, FS_Interval
<1>2. MapThenSumSet(PaidFor, Ids) = it[Ids]
  BY DEF MapThenSumSet, MapThenFoldSet
<1>3. \A s \in SUBSET Ids : s # {} => Granted[First(s)] = PaidFor(CHOOSE x \in s : TRUE)
  <2> TAKE s \in SUBSET Ids
  <2> HAVE s # {}
  <2>1. First(s) \in Ids
    BY FirstIsIn
  <2>2. Granted[First(s)] = PaidFor(First(s))
    BY <2>1 DEF Granted
  <2> QED
    BY <2>2 DEF First
<1>4. \A g : P(g) <=> Adds(g, Granted, Ids)
  <2> TAKE g
  <2> DEFINE A == [s \in SUBSET Ids |->
                     IF s = {} THEN 0
                     ELSE PaidFor(CHOOSE x \in s : TRUE) + g[s \ {CHOOSE x \in s : TRUE}]]
             B == [s \in SUBSET Ids |-> IF s = {} THEN 0 ELSE Granted[First(s)] + g[s \ {First(s)}]]
  <2>1. \A s \in SUBSET Ids : A[s] = B[s]
    BY <1>3 DEF First
  <2>2. A = B
    BY <2>1
  <2> QED
    BY <2>2 DEF Adds
<1>5. DOMAIN Granted = Ids
  BY DEF Granted
<1>6. it = CHOOSE g : Adds(g, Granted, Ids)
  <2> HIDE DEF P
  <2> QED
    BY <1>4
<1>7. SumOf(Granted) = it[Ids]
  BY <1>5, <1>6 DEF SumOf
<1> QED
  BY <1>1, <1>2, <1>7

\* An answer changes what one attempt was granted, and the XP by as much.
LEMMA XpFollows ==
    ASSUME PInv, PInv', PaysByTheRules, xp = SumOf(Granted)
    PROVE  xp' = SumOf(Granted')
<1>1. attempts \in Seq(Attempt) /\ attempts' \in Seq(Attempt) /\ xp \in Nat
  BY DEF PInv, PlayTypeOK
<1>2. IsFiniteSet(Ids')
  <2>1. Ids' = 1 .. Len(attempts') /\ Len(attempts') \in Nat
    BY <1>1 DEF Ids
  <2> QED
    BY <2>1, FS_Interval
<1>3. Ids \subseteq Ids' /\ \A a, b \in Ids' \ Ids : a = b
  BY DEF PaysByTheRules, AllKept, Kept
<1> DEFINE f == Granted
           h == Granted'
           g == [a \in Ids' |-> IF a \in Ids THEN f[a] ELSE 0]
<1>4. DOMAIN f = Ids /\ DOMAIN h = Ids' /\ DOMAIN g = Ids'
  BY DEF Granted
<1>5. \A a \in Ids : f[a] = IF attempts[a].state = "answered" THEN Pays[attempts[a].rate] ELSE 0
  BY DEF Granted, PaidFor
<1>6. \A a \in Ids' : h[a] = IF attempts'[a].state = "answered" THEN Pays[attempts'[a].rate] ELSE 0
  BY DEF Granted, PaidFor
<1>7. \A a \in Ids : attempts[a].rate \in Rates
  <2>1. \A a \in Ids : attempts[a] \in Attempt
    BY <1>1 DEF Ids
  <2> QED
    BY <2>1 DEF Attempt
<1>8. \A a \in Ids' : attempts'[a].rate \in Rates
  <2>1. \A a \in Ids' : attempts'[a] \in Attempt
    BY <1>1 DEF Ids
  <2> QED
    BY <2>1 DEF Attempt
<1>9. \A rate \in Rates : Pays[rate] \in Int
  BY DEF Rates, Pays
<1>10. (\A a \in Ids : f[a] \in Int) /\ \A a \in Ids' : h[a] \in Int
  BY <1>5, <1>6, <1>7, <1>8, <1>9
<1>11. \A a \in Ids' : ~ AnswersNow(a) => h[a] = g[a]
  <2> TAKE a \in Ids'
  <2> HAVE ~ AnswersNow(a)
  <2>1. CASE a \in Ids /\ Submitted(a)
    <3>1. attempts'[a] = attempts[a]
      BY <2>1 DEF PaysByTheRules, AllKept, Kept
    <3> QED
      BY <1>5, <1>6, <2>1, <3>1
  <2>2. CASE ~ (a \in Ids /\ Submitted(a))
    <3>1. attempts'[a].state # "answered"
      BY <2>2 DEF AnswersNow
    <3>2. a \in Ids => f[a] = 0
      BY <1>5, <2>2 DEF Submitted
    <3> QED
      BY <1>6, <3>1, <3>2
  <2> QED
    BY <2>1, <2>2
<1>12. \A a \in Ids' : AnswersNow(a) => g[a] = 0 /\ h[a] = Pays[attempts'[a].rate]
  <2> TAKE a \in Ids'
  <2> HAVE AnswersNow(a)
  <2>1. a \in Ids => f[a] = 0
    BY <1>5 DEF AnswersNow, Submitted
  <2> QED
    BY <1>6, <2>1 DEF AnswersNow
<1>13. /\ \A a \in Ids : g[a] = f[a]
       /\ \A a \in Ids' \ Ids : g[a] = 0
       /\ \A a \in Ids' : g[a] \in Int
  BY <1>3, <1>10
<1>a. f = [a \in Ids |-> f[a]] /\ h = [a \in Ids' |-> h[a]]
  BY DEF Granted
<1>b. g = [a \in Ids' |-> g[a]]
  OBVIOUS
<1> HIDE DEF f, g, h
<1>14. SumOf(g) = SumOf(f) /\ SumOf(f) = xp
  <2>1. CASE Ids' = Ids
    <3>1. g = f
      BY <1>13, <1>a, <1>b, <2>1
    <3> QED
      BY <3>1 DEF f
  <2>2. CASE Ids' # Ids
    <3>1. PICK n \in Ids' \ Ids : TRUE
      BY <1>3, <2>2
    <3>2. Ids = Ids' \ {n}
      BY <1>3, <3>1
    <3>3. SumOf(f) \in Int /\ SumOf(g) = SumOf(f) + g[n] - (IF n \in DOMAIN f THEN f[n] ELSE 0)
      <4>1. /\ IsFiniteSet(DOMAIN g) /\ n \in DOMAIN g /\ DOMAIN f = DOMAIN g \ {n}
            /\ \A y \in DOMAIN f : f[y] \in Int
            /\ \A y \in DOMAIN g : g[y] \in Int
            /\ \A y \in DOMAIN f \ {n} : f[y] = g[y]
        BY <1>2, <1>4, <1>10, <1>13, <3>1, <3>2
      <4> QED
        BY <4>1, SumOfOneElse
    <3>4. SumOf(g) = SumOf(f) + 0 - 0
      BY <1>4, <1>13, <3>1, <3>3
    <3> QED
      BY <3>3, <3>4 DEF f
  <2> QED
    BY <2>1, <2>2
<1>15. xp' = SumOf(h)
  <2>1. CASE \A a \in Ids' : ~ AnswersNow(a)
    <3>1. h = g
      BY <1>11, <1>a, <1>b, <2>1
    <3> QED
      BY <1>14, <2>1, <3>1 DEF PaysByTheRules
  <2>2. ASSUME NEW a \in Ids', AnswersNow(a) PROVE xp' = SumOf(h)
    <3>1. \A b \in Ids' \ {a} : g[b] = h[b]
      BY <1>11, <2>2 DEF PaysByTheRules
    <3>2. SumOf(g) \in Int /\ SumOf(h) = SumOf(g) + h[a] - (IF a \in DOMAIN g THEN g[a] ELSE 0)
      BY <1>2, <1>4, <1>10, <1>13, <3>1, SumOfOneElse
    <3>3. SumOf(h) = SumOf(g) + Pays[attempts'[a].rate] - 0
      BY <1>4, <1>12, <2>2, <3>2
    <3>4. xp' = xp + Pays[attempts'[a].rate] /\ Pays[attempts'[a].rate] \in Int
      BY <1>8, <1>9, <2>2 DEF PaysByTheRules
    <3> QED
      BY <1>1, <1>14, <3>3, <3>4
  <2> QED
    BY <2>1, <2>2
<1> QED
  BY <1>15 DEF h

\* The XP of a player is the sum of what their attempts were granted, over all of them: no answer is
\* paid twice and none is forgotten, however often it is sent or closed at the same time
\* (services/daily.py, mock.py and practice.py: the conditions of their updates, under xp.lock).
THEOREM XpAddsUp == Spec => []XpIsTheSum
<1>1. PInv => (XpIsTheSum <=> xp = SumOf(Granted))
  BY XpAsSum DEF PInv, PlayTypeOK, XpIsTheSum
<1>2. Init => xp = SumOf(Granted)
  <2> SUFFICES ASSUME Init PROVE xp = SumOf(Granted)
    OBVIOUS
  <2>1. xp = 0 /\ DOMAIN Granted = {}
    BY DEF Init, Granted, Ids
  <2> QED
    BY <2>1, SumOfNone
<1>3. PInv /\ xp = SumOf(Granted) /\ [Next]_vars => (xp = SumOf(Granted))'
  <2> SUFFICES ASSUME PInv, xp = SumOf(Granted), [Next]_vars PROVE xp' = SumOf(Granted')
    OBVIOUS
  <2>1. PInv' /\ PaysByTheRules
    BY EveryStep
  <2> QED
    BY <2>1, XpFollows
<1> QED
  BY <1>1, <1>2, <1>3, InvariantHolds, PTL DEF Spec

LEMMA AtMostOne ==
    ASSUME NEW S, \A a, b \in S : a = b
    PROVE  Cardinality(S) <= 1
<1>1. CASE S = {}
  BY <1>1, FS_EmptySet
<1>2. CASE S # {}
  <2>1. PICK a : S = {a}
    BY <1>2
  <2> QED
    BY <2>1, FS_Singleton
<1> QED
  BY <1>1, <1>2

\* However many tabs start the day's question there is one try at it; a run never has two questions on
\* screen, and none once it is finished; and there is one open run of a quiz (daily.py: start;
\* mock.py: start, _advance, _end, end_stale).
THEOREM OneTryEach == Spec => []OneTryAtATime
<1>1. PInv => OneTryAtATime
  <2> SUFFICES ASSUME PInv PROVE OneTryAtATime
    OBVIOUS
  <2>1. ASSUME NEW d \in Days PROVE Cardinality(DailyOf(d)) <= 1
    BY AtMostOne DEF PInv, OneDaily, DailyOf
  <2>2. ASSUME NEW r \in RunIds
        PROVE  Cardinality(OnScreen(r)) <= (IF runs[r].finished THEN 0 ELSE 1)
    <3>1. CASE runs[r].finished
      <4>1. OnScreen(r) = {}
        BY <3>1 DEF PInv, OneOnScreen
      <4> QED
        BY <3>1, <4>1, FS_EmptySet
    <3>2. CASE ~ runs[r].finished
      <4>1. Cardinality(OnScreen(r)) <= 1
        BY AtMostOne DEF PInv, OneOnScreen
      <4> QED
        BY <3>2, <4>1
    <3> QED
      BY <3>1, <3>2
  <2>3. Cardinality({r \in RunIds : ~ runs[r].finished}) <= 1
    BY AtMostOne DEF PInv, OneOpenRun
  <2> QED
    BY <2>1, <2>2, <2>3 DEF OneTryAtATime
<1> QED
  BY <1>1, InvariantHolds, PTL

\* The day's question is replaced only when it can no longer be served, however many requests find
\* nothing drawn at the same time (daily.py: ensure_daily looks again under its lock).
THEOREM DrawsStand == Spec => TheDrawStands
<1>1. ASSUME PInv, [Next]_vars, NEW d \in Days, drawn'[d] # drawn[d] PROVE ~ Chosen(d)
  <2>1. PICK p \in Requests : DrawDaily(p)
    BY <1>1 DEF Next, OfDaily, OfMock, OfPractice, OfRuns, vars, draw, world, AskForDraw, StartDaily, InsertDaily,
        ReadDaily, ListDaily, AnswerDaily, CloseDaily, AskForRun, StartRun, AnswerMock, ShowNext, Show,
        ListStale, EndStale, Finish, ComeBack, EndRun, ReadSummary, AskPractice, AnswerPractice,
        CloseMock, TimeUp, Midnight, Review
  <2>2. NeedsDraw(request[p].day) /\ \E q \in playable : drawn' = [drawn EXCEPT ![request[p].day] = q]
    BY <1>1, <2>1 DEF DrawDaily, draw
  <2>3. request[p].day = d
    BY <1>1, <2>2 DEF PInv, PlayTypeOK
  <2> QED
    BY <2>2, <2>3 DEF NeedsDraw
<1>2. PInv /\ [Next]_vars => \A d \in Days : drawn'[d] # drawn[d] => ~ Chosen(d)
  BY <1>1
<1> QED
  BY <1>2, InvariantHolds, PTL DEF Spec, TheDrawStands

-------------------------------------------------------------------------------
(* Full pay                                                                *)

\* A daily question is answered in the season it was started in.  (Not so on the last day of a season:
\* daily.py:274 looks earlier answers up in the season of the answer.)
InSeason ==
    \A p \in Requests :
        IsAt(p, "answer") => Season(request[p].day) = Season(attempts[request[p].attempt].day)

\* What is answered now is not paid in full if another answer of the season was.
LEMMA PaidAgain ==
    ASSUME PInv, PaysByTheRules, InSeason, NEW a \in Ids', AnswersNow(a), attempts'[a].rate = "full",
           NEW b \in Ids, b # a, attempts[b].state = "answered",
           attempts[b].question = attempts'[a].question,
           Season(PlayDay(b)) = Season(PlayDay(a)')
    PROVE  FALSE
<1> DEFINE q == attempts'[a].question
<1>1. \A d : Season(d) \in {0, 1}
  BY RatesAreTyped
<1>2. Submitted(b) /\ b \notin ClosedMock
  BY DEF Submitted, ClosedMock
<1>3. ASSUME NEW d, Season(d) = Season(PlayDay(b)), NEW S, b \in S
      PROVE  LastSeen(S, q, d)
  <2>1. Season(PlayDay(b)) >= Season(d)
    BY <1>1, <1>3
  <2> QED
    BY <1>2, <1>3, <2>1 DEF LastSeen
<1>4. \A again : Rate(TRUE, again) # "full"
  BY DEF Rate
<1>5. attempts \in Seq(Attempt) /\ Ids = 1 .. Len(attempts)
  BY DEF PInv, PlayTypeOK, Ids
<1>6. a \in Ids => attempts'[a].question = attempts[a].question /\ attempts'[a].day = attempts[a].day
                   /\ attempts'[a].run = attempts[a].run
  BY DEF PaysByTheRules, AllKept, Kept
<1>7. a \in Ids => PlayDay(a)' = PlayDay(a)
  BY <1>6 DEF PlayDay, PaysByTheRules, RunsKept, PInv, PlayTypeOK
<1>8. CASE DailyAnswer(a)
  <2>1. PICK p \in Requests : /\ IsAt(p, "answer") /\ request[p].attempt = a
                              /\ attempts'[a].rate = DailyRate(a, request[p].day)
    BY <1>8 DEF DailyAnswer
  <2>2. b \in OthersOfDaily(a)
    BY <1>2 DEF OthersOfDaily, Others, HiddenMock
  <2>3. a \in Ids /\ attempts[a].run = NoRun
    BY <1>8 DEF DailyAnswer, PInv, PlayTypeOK
  <2>4. Season(request[p].day) = Season(PlayDay(a))
    BY <2>1, <2>3 DEF InSeason, PlayDay
  <2>5. LastSeen(OthersOfDaily(a), q, request[p].day)
    BY <1>3, <1>7, <2>2, <2>3, <2>4
  <2>6. DailyRate(a, request[p].day) # "full"
    BY <1>4, <1>6, <2>3, <2>5 DEF DailyRate, Rate
  <2> QED
    BY <2>1, <2>6
<1>9. CASE MockAnswer(a)
  <2>1. b \in Others(a) /\ a \in Ids /\ attempts'[a].rate = MockRate(a, day)
    BY <1>9 DEF Others, MockAnswer
  <2>2. LastSeen(Others(a), q, PlayDay(a))
    BY <1>3, <1>7, <2>1
  <2> QED
    BY <1>4, <1>6, <2>1, <2>2 DEF MockRate, Rate
<1>10. CASE PracticeAnswer(a)
  <2> DEFINE now == attempts'[a].day
  <2>1. /\ attempts'[a].run = NoRun
        /\ attempts'[a].rate = Rate(LastSeen(Ids, q, now), AnsweredToday(Ids, q, now))
    BY <1>10 DEF PracticeAnswer
  <2>2. PlayDay(a)' = now
    BY <2>1 DEF PlayDay
  <2>3. LastSeen(Ids, q, now)
    BY <1>3, <2>2
  <2> QED
    BY <2>1, <2>3 DEF Rate
<1> QED
  BY <1>8, <1>9, <1>10 DEF PaysByTheRules

LEMMA FullPayStays ==
    ASSUME PInv, FullPayOnceASeason, InSeason, PaysByTheRules
    PROVE  FullPayOnceASeason'
<1> SUFFICES ASSUME NEW a \in Ids', NEW b \in Ids', PaidInFull(a)', PaidInFull(b)',
                    attempts'[a].question = attempts'[b].question,
                    Season(PlayDay(a)') = Season(PlayDay(b)'), a # b
             PROVE  FALSE
  BY DEF FullPayOnceASeason, Season
<1>1. ASSUME NEW c \in Ids', ~ AnswersNow(c), PaidInFull(c)'
      PROVE  /\ c \in Ids /\ attempts'[c] = attempts[c] /\ PaidInFull(c) /\ attempts[c].state = "answered"
             /\ PlayDay(c)' = PlayDay(c)
  <2>1. c \in Ids /\ Submitted(c)
    BY <1>1 DEF AnswersNow, PaidInFull
  <2>2. attempts'[c] = attempts[c]
    BY <2>1 DEF PaysByTheRules, AllKept, Kept
  <2>3. attempts[c].run = NoRun \/ attempts[c].run \in RunIds
    BY <2>1 DEF PInv, PlayTypeOK
  <2>4. PlayDay(c)' = PlayDay(c)
    BY <2>2, <2>3 DEF PlayDay, PaysByTheRules, RunsKept
  <2> QED
    BY <1>1, <2>1, <2>2, <2>4 DEF PaidInFull
<1>2. CASE ~ AnswersNow(a) /\ ~ AnswersNow(b)
  BY <1>1, <1>2 DEF FullPayOnceASeason
<1>3. CASE AnswersNow(a) /\ ~ AnswersNow(b)
  <2>1. /\ b \in Ids /\ attempts'[b] = attempts[b] /\ attempts[b].state = "answered" /\ PlayDay(b)' = PlayDay(b)
    BY <1>1, <1>3
  <2>2. attempts'[a].rate = "full" /\ Season(PlayDay(b)) = Season(PlayDay(a)')
    BY <2>1 DEF PaidInFull
  <2> QED
    BY <1>3, <2>1, <2>2, PaidAgain
<1>4. CASE ~ AnswersNow(a) /\ AnswersNow(b)
  <2>1. /\ a \in Ids /\ attempts'[a] = attempts[a] /\ attempts[a].state = "answered" /\ PlayDay(a)' = PlayDay(a)
    BY <1>1, <1>4
  <2>2. attempts'[b].rate = "full" /\ Season(PlayDay(a)) = Season(PlayDay(b)')
    BY <2>1 DEF PaidInFull
  <2> QED
    BY <1>4, <2>1, <2>2, PaidAgain
<1>5. CASE AnswersNow(a) /\ AnswersNow(b)
  BY <1>5 DEF PaysByTheRules
<1> QED
  BY <1>2, <1>3, <1>4, <1>5

\* In whatever mode, tab and order a question is answered, it is paid in full once a season, as long as
\* no daily question is answered in another season than it was started in (xp.py: last_seen and
\* answered_today under the lock of the player's row).
THEOREM FullPayOnce == Spec /\ []InSeason => []FullPayOnceASeason
<1>1. Init => FullPayOnceASeason
  BY DEF Init, FullPayOnceASeason, Ids
<1>2. PInv /\ InSeason /\ FullPayOnceASeason /\ [Next]_vars => FullPayOnceASeason'
  BY EveryStep, FullPayStays
<1> QED
  BY <1>1, <1>2, InvariantHolds, PTL DEF Spec

-------------------------------------------------------------------------------
(* Answers that were shown                                                 *)

\* An attempt that was submitted to q and is not a mock question closed after what is in `before` was.
Counts(as, before, b, q) ==
    /\ as[b].question = q /\ IsSubmitted(as[b])
    /\ ~ (as[b].mode = "mock" /\ as[b].state = "closed" /\ b \notin before)

\* In a season: what was shown was submitted; and of a daily question that is open, or is today's, what
\* was shown counts for it too, unless its draw or its start was overtaken.  Nothing is
\* drawn ahead.
ShownWasSubmitted ==
    \A q \in Questions : <<q, 0>> \in known => \E b \in Ids : attempts[b].question = q /\ IsSubmitted(attempts[b])
OpenDailiesCountIt ==
    \A a \in Ids :
        /\ attempts[a].mode = "daily" /\ ~ IsSubmitted(attempts[a]) /\ attempts[a].day \notin overtaken
        /\ <<attempts[a].question, 0>> \in known
        => \E b \in Ids : Counts(attempts, drawnAt[attempts[a].day], b, attempts[a].question)
TodayCountsIt ==
    day \notin overtaken /\ <<drawn[day], 0>> \in known =>
        \E b \in Ids : Counts(attempts, drawnAt[day], b, drawn[day])
DrawsAreDated ==
    \A d \in Days :
        /\ \A b \in drawnAt[d] : attempts[b].mode = "mock" /\ attempts[b].state = "closed"
        /\ d > day => drawn[d] = NoQuestion
DrawsSoFar ==
    \A p \in Requests : IsAt(p, "draw") => request[p].day <= day /\ request[p].closed \subseteq ClosedMock

KInv ==
    /\ ShownWasSubmitted /\ OpenDailiesCountIt /\ TodayCountsIt /\ DrawsAreDated /\ DrawsSoFar
    /\ ShownAnswersPayLess

\* A step that draws nothing, starts no daily question and shows only what is answered or closed by it
\* or was before, other than mock questions.
Ordinary ==
    /\ UNCHANGED <<drawn, drawnAt, overtaken, day>>
    /\ \A a \in Ids' \ Ids : attempts'[a].mode # "daily"
    /\ \A q \in Questions : <<q, 0>> \in known' =>
          \/ <<q, 0>> \in known
          \/ \E b \in Ids' : attempts'[b].question = q /\ IsSubmitted(attempts'[b]) /\ attempts'[b].mode # "mock"

LEMMA OrdinarySteps ==
    ASSUME PInv, [Next]_vars
    PROVE  \/ Ordinary
           \/ Midnight
           \/ \E p \in Requests : DrawDaily(p) \/ InsertDaily(p)
           \/ \E r \in RunIds : ReadSummary(r)
<1>1. PInv' /\ PaysByTheRules
  BY EveryStep
<1>2. ASSUME UNCHANGED <<drawn, drawnAt, overtaken, day, attempts, known>> PROVE Ordinary
  BY <1>2 DEF Ordinary, Ids
<1>3. ASSUME NEW a \in Ids, UNCHANGED <<drawn, drawnAt, overtaken, day, known>>, Ids' = Ids PROVE Ordinary
  BY <1>3 DEF Ordinary
<1>4. attempts \in Seq(Attempt) /\ attempts' \in Seq(Attempt)
  BY <1>1 DEF PInv, PlayTypeOK
<1>5. ASSUME NEW p \in Requests, OfDaily(p), ~ DrawDaily(p), ~ InsertDaily(p) PROVE Ordinary
  <2>1. CASE AskForDraw(p) \/ StartDaily(p) \/ \E a \in Ids : ReadDaily(p, a) \/ ListDaily(p, a)
    BY <1>2, <2>1 DEF AskForDraw, StartDaily, ReadDaily, ListDaily, world, draw
  <2>2. CASE AnswerDaily(p) \/ CloseDaily(p)
    <3> DEFINE a == request[p].attempt
    <3>1. a \in Ids /\ attempts[a].mode = "daily"
      BY <2>2 DEF PInv, RequestsOK, Fits, AnswerDaily, CloseDaily, IsAt, Ids
    <3>2. UNCHANGED <<drawn, drawnAt, overtaken, day>>
      BY <2>2 DEF AnswerDaily, CloseDaily, world, draw
    <3>3. CASE UNCHANGED <<attempts, known>>
      BY <1>2, <3>2, <3>3
    <3>4. CASE ~ UNCHANGED <<attempts, known>>
      <4>1. /\ \/ attempts' = [attempts EXCEPT ![a] = Scored(a, "answered", DailyRate(a, request[p].day))]
               \/ attempts' = [attempts EXCEPT ![a] = Scored(a, "closed", ClosedDailyRate(a, request[p].day))]
            /\ known' = known \union {<<attempts[a].question, Season(request[p].day)>>}
        BY <2>2, <3>4 DEF AnswerDaily, CloseDaily
      <4>2. attempts[a] \in Attempt
        BY <1>4, <3>1 DEF Ids
      <4>3. PICK state \in {"answered", "closed"}, rate \in Rates :
                attempts' = [attempts EXCEPT ![a] = Scored(a, state, rate)]
        BY <4>1, RatesAreTyped
      <4>4. PICK c : c = Scored(a, state, rate)
        OBVIOUS
      <4>5. c.mode = "daily" /\ c.question = attempts[a].question /\ IsSubmitted(c)
        BY <3>1, <4>2, <4>4, ScoresAreTyped DEF IsSubmitted
      <4>6. Ids' = Ids /\ attempts'[a] = c
        BY <1>4, <3>1, <4>3, <4>4 DEF Ids
      <4> QED
        BY <3>1, <3>2, <4>1, <4>5, <4>6 DEF Ordinary
    <3> QED
      BY <3>3, <3>4
  <2> QED
    BY <1>5, <2>1, <2>2 DEF OfDaily
<1>6. ASSUME NEW p \in Requests, AnswerPractice(p) PROVE Ordinary
  <2> DEFINE q == request[p].question
             now == request[p].day
             rate == Rate(LastSeen(Ids, q, now), AnsweredToday(Ids, q, now))
             c == [New("practice", q, now, NoRun)
                     EXCEPT !.state = "answered", !.rate = rate, !.knew = Knows(q, now)]
             n == Len(attempts) + 1
  <2>1. /\ attempts' = Append(attempts, c) /\ known' = known \union {<<q, Season(now)>>}
        /\ UNCHANGED <<drawn, drawnAt, overtaken, day>>
    BY <1>6 DEF AnswerPractice, world, draw
  <2>2. c.mode = "practice" /\ c.question = q /\ IsSubmitted(c)
    BY DEF New, IsSubmitted
  <2> HIDE DEF c
  <2>3. Ids' = Ids \union {n} /\ attempts'[n] = c
    BY <1>4, <2>1 DEF Ids
  <2> QED
    BY <2>1, <2>2, <2>3 DEF Ordinary
<1>7. ASSUME NEW r \in RunIds, Show(r) PROVE Ordinary
  <2>1. OnScreen(r) \in SUBSET Ids /\ \A a \in OnScreen(r) : ~ Submitted(a)
    BY DEF OnScreen, OfRun
  <2>2. PICK middle : middle = TimedOut(OnScreen(r))
    OBVIOUS
  <2>3. middle \in Seq(Attempt) /\ DOMAIN middle = Ids /\ Len(middle) = Len(attempts)
    BY <2>1, <2>2, SomeTimeOut DEF PInv
  <2>4. UNCHANGED <<drawn, drawnAt, overtaken, day, known>>
    BY <1>7 DEF Show, world, draw
  <2>5. CASE attempts' = middle
    BY <2>3, <2>4, <2>5 DEF Ordinary, Ids
  <2>6. CASE \E q \in NotShown(r) : attempts' = Append(middle, New("mock", q, day, r))
    <3>1. PICK q, c : attempts' = Append(middle, c) /\ c = New("mock", q, day, r)
      BY <2>6
    <3>2. c.mode = "mock"
      BY <3>1 DEF New
    <3>3. Ids' = Ids \union {Len(attempts) + 1} /\ attempts'[Len(attempts) + 1] = c
      BY <2>3, <3>1 DEF Ids
    <3> QED
      BY <2>4, <3>2, <3>3 DEF Ordinary
  <2> QED
    BY <1>7, <2>2, <2>5, <2>6 DEF Show
<1>8. ASSUME NEW r \in RunIds, Finish(r) PROVE Ordinary
  <2>1. OnScreen(r) \in SUBSET Ids /\ \A a \in OnScreen(r) : ~ Submitted(a)
    BY DEF OnScreen, OfRun
  <2>2. attempts' = TimedOut(OnScreen(r)) /\ UNCHANGED <<drawn, drawnAt, overtaken, day, known>>
    BY <1>8 DEF Finish, ClosedByEnd, world, draw
  <2>3. Ids' = Ids
    BY <2>1, <2>2, SomeTimeOut DEF PInv, Ids
  <2> QED
    BY <2>2, <2>3 DEF Ordinary
<1>9. ASSUME NEW p \in Requests, OfMock(p) PROVE Ordinary
  <2>1. CASE AskForRun(p) \/ StartRun(p) \/ \E r \in RunIds : ListStale(p, r)
    BY <1>2, <2>1 DEF AskForRun, StartRun, ListStale, world, draw
  <2>2. ASSUME NEW a \in Ids, AnswerMock(p, a) PROVE Ordinary
    <3>1. UNCHANGED <<drawn, drawnAt, overtaken, day, known>> /\ Ids' = Ids
      BY <1>4, <2>2 DEF AnswerMock, world, draw, Ids
    <3> QED
      BY <1>3, <2>2, <3>1
  <2>3. CASE ShowNext(p)
    <3>1. request[p].run \in RunIds
      BY <2>3 DEF PInv, RequestsOK, Fits, ShowNext, IsAt, RunIds
    <3> QED
      BY <1>2, <1>7, <2>3, <3>1 DEF ShowNext, world, draw
  <2>4. CASE EndStale(p)
    <3>1. request[p].run \in RunIds
      BY <2>4 DEF PInv, RequestsOK, Fits, EndStale, IsAt, RunIds
    <3> QED
      BY <1>2, <1>8, <2>4, <3>1 DEF EndStale, world, draw
  <2> QED
    BY <1>9, <2>1, <2>2, <2>3, <2>4 DEF OfMock
<1>10. ASSUME NEW a \in Ids, CloseMock(a) \/ TimeUp(a) PROVE Ordinary
  <2>1. UNCHANGED <<drawn, drawnAt, overtaken, day, known>>
    BY <1>10 DEF CloseMock, TimeUp, world, draw
  <2>2. Ids' = Ids
    <3>1. CASE TimeUp(a)
      BY <1>4, <3>1 DEF TimeUp, Ids
    <3>2. CASE CloseMock(a)
      BY <3>2 DEF CloseMock, TimedOut, Ids
    <3> QED
      BY <1>10, <3>1, <3>2
  <2> QED
    BY <1>3, <2>1, <2>2
<1>11. ASSUME NEW r \in RunIds, ComeBack(r) \/ EndRun(r) PROVE Ordinary
  BY <1>7, <1>8, <1>11 DEF ComeBack, EndRun
<1>12. CASE (\E q \in Questions : Review(q)) \/ UNCHANGED vars
         \/ \E p \in Requests, q \in Questions : AskPractice(p, q)
  BY <1>2, <1>12 DEF Review, vars, AskPractice, world, draw
<1> QED
  BY <1>5, <1>6, <1>9, <1>10, <1>11, <1>12 DEF Next, OfRuns, OfPractice

LEMMA AttemptsAreTyped == PInv => \A a \in Ids : attempts[a].question \in Questions /\ attempts[a].day \in Days
<1>1. PInv => \A a \in Ids : attempts[a] \in Attempt
  BY DEF PInv, PlayTypeOK, Ids
<1> QED
  BY <1>1 DEF Attempt

\* What counts goes on counting, also for a later draw.
LEMMA CountsStays ==
    ASSUME AllKept, NEW before, NEW later, before \subseteq later, NEW q, NEW b \in Ids,
           Counts(attempts, before, b, q)
    PROVE  b \in Ids' /\ Counts(attempts', later, b, q)
BY DEF AllKept, Kept, Counts, IsSubmitted, Submitted

LEMMA ShownStaysSubmitted ==
    ASSUME AllKept, NEW q, NEW b \in Ids, attempts[b].question = q, IsSubmitted(attempts[b])
    PROVE  b \in Ids' /\ attempts'[b].question = q /\ IsSubmitted(attempts'[b])
BY DEF AllKept, Kept, IsSubmitted, Submitted

LEMMA OrdinaryKeeps ==
    ASSUME PInv, PInv', KInv, PaysByTheRules, Ordinary
    PROVE  ShownWasSubmitted' /\ OpenDailiesCountIt' /\ TodayCountsIt' /\ DrawsAreDated'
<1>1. AllKept /\ \A a \in Ids : Kept(a)
  BY DEF PaysByTheRules, AllKept
<1>2. UNCHANGED <<drawn, drawnAt, overtaken, day>>
  BY DEF Ordinary
<1>3. \A q \in Questions : <<q, 0>> \in known' =>
          \/ <<q, 0>> \in known
          \/ \E b \in Ids' : attempts'[b].question = q /\ IsSubmitted(attempts'[b]) /\ attempts'[b].mode # "mock"
  BY DEF Ordinary
<1>4. \A q, before : \A b \in Ids' :
          attempts'[b].question = q /\ IsSubmitted(attempts'[b]) /\ attempts'[b].mode # "mock"
              => Counts(attempts', before, b, q)
  BY DEF Counts
<1>5. ShownWasSubmitted'
  <2> SUFFICES ASSUME NEW q \in Questions, <<q, 0>> \in known'
               PROVE  \E b \in Ids' : attempts'[b].question = q /\ IsSubmitted(attempts'[b])
    BY DEF ShownWasSubmitted, IsSubmitted
  <2>1. CASE <<q, 0>> \in known
    <3>1. PICK b \in Ids : attempts[b].question = q /\ IsSubmitted(attempts[b])
      BY <2>1 DEF KInv, ShownWasSubmitted
    <3> QED
      BY <1>1, <3>1, ShownStaysSubmitted
  <2> QED
    BY <1>3, <2>1
<1>6. OpenDailiesCountIt'
  <2> SUFFICES ASSUME NEW a \in Ids', attempts'[a].mode = "daily", ~ IsSubmitted(attempts'[a]),
                      attempts'[a].day \notin overtaken, <<attempts'[a].question, 0>> \in known'
               PROVE  \E b \in Ids' : Counts(attempts', drawnAt'[attempts'[a].day], b, attempts'[a].question)
    BY <1>2 DEF OpenDailiesCountIt, IsSubmitted, Counts
  <2> DEFINE q == attempts'[a].question
  <2>1. a \in Ids /\ Kept(a)
    BY <1>1 DEF Ordinary
  <2>2. /\ attempts[a].mode = "daily" /\ ~ IsSubmitted(attempts[a])
        /\ attempts[a].question = q /\ attempts[a].day = attempts'[a].day
    BY <2>1 DEF Kept, Submitted, IsSubmitted
  <2>3. q \in Questions
    BY DEF PInv, PlayTypeOK, Attempt, Ids
  <2>4. CASE <<q, 0>> \in known
    <3>1. PICK b \in Ids : Counts(attempts, drawnAt[attempts[a].day], b, q)
      BY <2>1, <2>2, <2>4 DEF KInv, OpenDailiesCountIt
    <3>2. b \in Ids' /\ Counts(attempts', drawnAt[attempts[a].day], b, q)
      BY <1>1, <3>1, CountsStays
    <3> QED
      BY <1>2, <2>2, <3>2
  <2> HIDE DEF q
  <2>5. CASE <<q, 0>> \notin known
    <3>1. \E b \in Ids' : attempts'[b].question = q /\ IsSubmitted(attempts'[b]) /\ attempts'[b].mode # "mock"
      BY <1>3, <2>3, <2>5 DEF q
    <3> QED
      BY <1>4, <3>1 DEF q
  <2> QED
    BY <2>4, <2>5
<1>7. TodayCountsIt'
  <2> SUFFICES ASSUME day \notin overtaken, <<drawn[day], 0>> \in known'
               PROVE  \E b \in Ids' : Counts(attempts', drawnAt[day], b, drawn[day])
    BY <1>2 DEF TodayCountsIt, IsSubmitted, Counts
  <2>1. drawn[day] \in Questions
    BY DEF PInv, PlayTypeOK
  <2>2. CASE <<drawn[day], 0>> \in known
    <3>1. PICK b \in Ids : Counts(attempts, drawnAt[day], b, drawn[day])
      BY <2>2 DEF KInv, TodayCountsIt
    <3> QED
      BY <1>1, <3>1, CountsStays
  <2> QED
    BY <1>3, <1>4, <2>1, <2>2
<1>8. DrawsAreDated'
  <2>1. \A d \in Days : drawnAt[d] \subseteq Ids
    BY DEF PInv, PlayTypeOK
  <2> QED
    BY <1>1, <1>2, <2>1 DEF KInv, DrawsAreDated, Kept, Submitted
<1> QED
  BY <1>5, <1>6, <1>7, <1>8

LEMMA MidnightKeeps ==
    ASSUME PInv, KInv, Midnight
    PROVE  ShownWasSubmitted' /\ OpenDailiesCountIt' /\ TodayCountsIt' /\ DrawsAreDated'
<1>1. UNCHANGED <<drawn, drawnAt, overtaken, attempts, known>> /\ day' = day + 1 /\ day \in Nat /\ LastDay \in Nat
      /\ day' \in Days
  BY PlayAssumption DEF Midnight, draw, PInv, PlayTypeOK, Days
<1>2. ShownWasSubmitted' /\ OpenDailiesCountIt'
  BY <1>1 DEF KInv, ShownWasSubmitted, OpenDailiesCountIt, Ids, IsSubmitted, Counts
<1>3. drawn[day'] = NoQuestion
  BY <1>1 DEF KInv, DrawsAreDated
<1>4. TodayCountsIt'
  BY <1>1, <1>3, PlayAssumption DEF TodayCountsIt, PInv, PlayTypeOK
<1>5. DrawsAreDated'
  <2>1. \A d \in Days : d > day' => d > day
    BY <1>1 DEF Days
  <2> QED
    BY <1>1, <2>1 DEF KInv, DrawsAreDated
<1> QED
  BY <1>2, <1>4, <1>5

\* The summary of a run shows what was submitted, and neither today's question nor an open one.
LEMMA SummariesKeep ==
    ASSUME PInv, KInv, NEW r \in RunIds, ReadSummary(r)
    PROVE  ShownWasSubmitted' /\ OpenDailiesCountIt' /\ TodayCountsIt' /\ DrawsAreDated'
<1>1. UNCHANGED <<drawn, drawnAt, overtaken, day, attempts>> /\ runs[r].finished
      /\ known' = known \union (Summarised(r) \X {Season(day)})
  BY DEF ReadSummary, world, draw
<1>2. \A q : <<q, 0>> \in known' => <<q, 0>> \in known \/ q \in Summarised(r)
  BY <1>1
<1>3. \A q \in Summarised(r) : q \notin InDaily(day)
  BY DEF Summarised, Running
<1>4. ASSUME NEW q \in Summarised(r)
      PROVE  \E b \in Ids : attempts[b].question = q /\ IsSubmitted(attempts[b])
  <2>1. PICK b \in OfRun(r) : attempts[b].question = q
    BY DEF Summarised
  <2>2. b \in Ids /\ b \notin OnScreen(r)
    BY <1>1 DEF PInv, OneOnScreen, OfRun
  <2>3. IsSubmitted(attempts[b])
    BY <2>2 DEF OnScreen, Submitted, IsSubmitted
  <2> QED
    BY <2>1, <2>2, <2>3
<1>5. ShownWasSubmitted'
  BY <1>1, <1>2, <1>4 DEF KInv, ShownWasSubmitted, Ids, IsSubmitted
<1>6. OpenDailiesCountIt'
  <2>1. \A a \in Ids : attempts[a].mode = "daily" /\ ~ IsSubmitted(attempts[a]) =>
            attempts[a].question \notin Summarised(r)
    <3> SUFFICES ASSUME NEW a \in Ids, attempts[a].mode = "daily", ~ IsSubmitted(attempts[a])
                 PROVE  attempts[a].question \notin Summarised(r)
      OBVIOUS
    <3>1. attempts[a].question \in InDaily(day)
      BY DEF InDaily, Submitted, IsSubmitted
    <3> QED
      BY <1>3, <3>1
  <2> QED
    BY <1>1, <1>2, <2>1 DEF KInv, OpenDailiesCountIt, Ids, IsSubmitted, Counts
<1>7. TodayCountsIt'
  <2> SUFFICES ASSUME day \notin overtaken, <<drawn[day], 0>> \in known'
               PROVE  \E b \in Ids : Counts(attempts, drawnAt[day], b, drawn[day])
    BY <1>1 DEF TodayCountsIt, IsSubmitted, Counts, Ids
  <2>1. CASE <<drawn[day], 0>> \in known
    BY <2>1 DEF KInv, TodayCountsIt
  <2>2. CASE drawn[day] \in Summarised(r)
    <3>1. drawn[day] \in Questions
      BY <1>4, <2>2, AttemptsAreTyped
    <3>2. SubmittedIn(DailyOf(day), drawn[day])
      BY <1>3, <2>2, <3>1 DEF InDaily
    <3>3. PICK b \in DailyOf(day) : attempts[b].question = drawn[day] /\ Submitted(b)
      BY <3>2 DEF SubmittedIn
    <3> QED
      BY <3>3 DEF DailyOf, Counts, IsSubmitted, Submitted
  <2> QED
    BY <1>2, <2>1, <2>2
<1>8. DrawsAreDated'
  BY <1>1 DEF KInv, DrawsAreDated
<1> QED
  BY <1>5, <1>6, <1>7, <1>8

\* What was shown before a question is drawn had been closed by then, or the draw was overtaken.
LEMMA DrawsKeep ==
    ASSUME PInv, KInv, NEW p \in Requests, DrawDaily(p)
    PROVE  ShownWasSubmitted' /\ OpenDailiesCountIt' /\ TodayCountsIt' /\ DrawsAreDated'
<1> DEFINE e == request[p].day
           closed == request[p].closed
<1>1. UNCHANGED <<day, playable, attempts, known>> /\ e <= day
  BY DEF DrawDaily, world, KInv, DrawsSoFar
<1>2. /\ day \in Days /\ drawn \in [Days -> Questions \union {NoQuestion}]
      /\ drawnAt \in [Days -> SUBSET Ids] /\ e \in Days
  BY DEF PInv, PlayTypeOK, RequestsOK, Fits, DrawDaily, IsAt
<1>3. ShownWasSubmitted'
  BY <1>1 DEF KInv, ShownWasSubmitted, Ids, IsSubmitted
<1>4. CASE UNCHANGED draw
  BY <1>1, <1>3, <1>4 DEF KInv, OpenDailiesCountIt, TodayCountsIt, DrawsAreDated, Ids, IsSubmitted, Counts, draw
<1>5. CASE /\ \E q \in playable : drawn' = [drawn EXCEPT ![e] = q]
           /\ drawnAt' = [drawnAt EXCEPT ![e] = closed]
           /\ overtaken' = IF closed = ClosedMock THEN overtaken ELSE overtaken \union {e}
  <2>1. /\ \A d \in Days : d # e => drawn'[d] = drawn[d] /\ drawnAt'[d] = drawnAt[d]
        /\ drawnAt'[e] = closed
        /\ drawn'[e] \in playable
    BY <1>2, <1>5
  <2>2. \A b \in Ids : b \in ClosedMock <=> attempts[b].mode = "mock" /\ attempts[b].state = "closed"
    BY DEF ClosedMock
  <2>3. \A d \in Days : d \notin overtaken' => drawnAt[d] \subseteq drawnAt'[d] /\ d \notin overtaken
    BY <1>2, <1>5, <2>1, <2>2 DEF KInv, DrawsAreDated
  <2>4. OpenDailiesCountIt'
    <3> SUFFICES ASSUME NEW a \in Ids, attempts[a].mode = "daily", ~ IsSubmitted(attempts[a]),
                        attempts[a].day \notin overtaken', <<attempts[a].question, 0>> \in known
                 PROVE  \E b \in Ids : Counts(attempts, drawnAt'[attempts[a].day], b, attempts[a].question)
      BY <1>1 DEF OpenDailiesCountIt, IsSubmitted, Counts, Ids
    <3>1. attempts[a].day \in Days
      BY AttemptsAreTyped
    <3>2. PICK b \in Ids : Counts(attempts, drawnAt[attempts[a].day], b, attempts[a].question)
      BY <2>3, <3>1 DEF KInv, OpenDailiesCountIt
    <3> QED
      BY <2>3, <3>1, <3>2 DEF Counts
  <2>5. TodayCountsIt'
    <3> SUFFICES ASSUME day \notin overtaken', <<drawn'[day], 0>> \in known
                 PROVE  \E b \in Ids : Counts(attempts, drawnAt'[day], b, drawn'[day])
      BY <1>1 DEF TodayCountsIt, IsSubmitted, Counts, Ids
    <3>1. CASE day # e
      BY <1>2, <2>1, <2>3, <3>1 DEF KInv, TodayCountsIt
    <3>2. CASE day = e
      <4>1. drawn'[day] \in Questions /\ drawnAt'[day] = ClosedMock
        BY <1>5, <2>1, <3>2 DEF PInv, PlayTypeOK
      <4>2. PICK b \in Ids : attempts[b].question = drawn'[day] /\ IsSubmitted(attempts[b])
        BY <4>1 DEF KInv, ShownWasSubmitted
      <4> QED
        BY <2>2, <4>1, <4>2 DEF Counts
    <3> QED
      BY <3>1, <3>2
  <2>6. DrawsAreDated'
    <3>1. \A d \in Days : d > day => d # e
      BY <1>1, <1>2 DEF Days
    <3>2. \A b \in closed : attempts[b].mode = "mock" /\ attempts[b].state = "closed"
      BY DEF KInv, DrawsSoFar, DrawDaily, ClosedMock
    <3> QED
      BY <1>1, <1>2, <2>1, <3>1, <3>2 DEF KInv, DrawsAreDated
  <2> QED
    BY <1>3, <2>4, <2>5, <2>6
<1> QED
  BY <1>1, <1>4, <1>5 DEF DrawDaily

\* What is started is today's question, or the start was overtaken.
LEMMA InsertsKeep ==
    ASSUME PInv, KInv, NEW p \in Requests, InsertDaily(p), AllKept
    PROVE  ShownWasSubmitted' /\ OpenDailiesCountIt' /\ TodayCountsIt' /\ DrawsAreDated'
<1> DEFINE e == request[p].day
           c == New("daily", request[p].question, e, NoRun)
<1>1. UNCHANGED <<drawn, drawnAt, day, known>>
  BY DEF InsertDaily, world
<1>2. attempts \in Seq(Attempt)
  BY DEF PInv, PlayTypeOK
<1>3. \/ attempts' = attempts /\ overtaken' = overtaken
      \/ /\ attempts' = Append(attempts, c)
         /\ overtaken' = IF e = day /\ request[p].question = drawn[day] THEN overtaken ELSE overtaken \union {e}
  BY DEF InsertDaily
<1>4. c.question = request[p].question /\ c.day = e
  BY DEF New
<1>11. c \in Attempt
  <2>1. request[p].question \in Questions /\ e \in Days
    BY DEF PInv, PlayTypeOK, RequestsOK, Fits, InsertDaily, IsAt
  <2> QED
    BY <2>1 DEF New, Attempt, Rates, NoRun
<1> HIDE DEF c
<1>12. \A d : d \notin overtaken' => d \notin overtaken
  BY <1>3
<1>5. \A a \in Ids' :
          \/ a \in Ids /\ attempts'[a] = attempts[a]
          \/ attempts'[a] = c /\ (e \in overtaken' \/ (e = day /\ c.question = drawn[day]))
  <2>1. CASE attempts' = attempts
    BY <2>1 DEF Ids
  <2>2. CASE /\ attempts' = Append(attempts, c)
             /\ overtaken' = IF e = day /\ request[p].question = drawn[day] THEN overtaken ELSE overtaken \union {e}
    <3>1. \A a \in Ids' : (a \in Ids /\ attempts'[a] = attempts[a]) \/ attempts'[a] = c
      BY <1>2, <1>11, <2>2, OneMore
    <3>2. e \in overtaken' \/ (e = day /\ c.question = drawn[day])
      BY <1>4, <2>2
    <3> QED
      BY <3>1, <3>2
  <2> QED
    BY <1>3, <2>1, <2>2
<1>6. ShownWasSubmitted'
  <2> SUFFICES ASSUME NEW q \in Questions, <<q, 0>> \in known
               PROVE  \E b \in Ids' : attempts'[b].question = q /\ IsSubmitted(attempts'[b])
    BY <1>1 DEF ShownWasSubmitted, IsSubmitted
  <2>1. PICK b \in Ids : attempts[b].question = q /\ IsSubmitted(attempts[b])
    BY DEF KInv, ShownWasSubmitted
  <2> QED
    BY <2>1, ShownStaysSubmitted
<1>7. day \notin overtaken' /\ <<drawn[day], 0>> \in known =>
          \E b \in Ids' : Counts(attempts', drawnAt[day], b, drawn[day])
  <2> SUFFICES ASSUME day \notin overtaken', <<drawn[day], 0>> \in known
               PROVE  \E b \in Ids' : Counts(attempts', drawnAt[day], b, drawn[day])
    OBVIOUS
  <2>1. PICK b \in Ids : Counts(attempts, drawnAt[day], b, drawn[day])
    BY <1>12 DEF KInv, TodayCountsIt
  <2> QED
    BY <2>1, CountsStays
<1>8. TodayCountsIt'
  BY <1>1, <1>7 DEF TodayCountsIt, IsSubmitted, Counts
<1>9. OpenDailiesCountIt'
  <2> SUFFICES ASSUME NEW a \in Ids', attempts'[a].mode = "daily", ~ IsSubmitted(attempts'[a]),
                      attempts'[a].day \notin overtaken', <<attempts'[a].question, 0>> \in known
               PROVE  \E b \in Ids' : Counts(attempts', drawnAt[attempts'[a].day], b, attempts'[a].question)
    BY <1>1 DEF OpenDailiesCountIt, IsSubmitted, Counts
  <2>1. CASE a \in Ids /\ attempts'[a] = attempts[a]
    <3>1. PICK b \in Ids : Counts(attempts, drawnAt[attempts[a].day], b, attempts[a].question)
      BY <1>12, <2>1 DEF KInv, OpenDailiesCountIt
    <3>2. b \in Ids' /\ Counts(attempts', drawnAt[attempts[a].day], b, attempts[a].question)
      BY <3>1, CountsStays
    <3> QED
      BY <2>1, <3>2
  <2>2. CASE attempts'[a] = c /\ (e \in overtaken' \/ (e = day /\ c.question = drawn[day]))
    BY <1>4, <1>7, <2>2
  <2> QED
    BY <1>5, <2>1, <2>2
<1>10. DrawsAreDated'
  <2>1. \A d \in Days : drawnAt[d] \subseteq Ids
    BY DEF PInv, PlayTypeOK
  <2> QED
    BY <1>1, <2>1 DEF KInv, DrawsAreDated, AllKept, Kept, Submitted
<1> QED
  BY <1>6, <1>8, <1>9, <1>10

\* A draw that waits is of a day that has come, and what had been closed when it was asked for stays closed.
LEMMA ClosedStays == ASSUME PInv, AllKept PROVE ClosedMock \subseteq ClosedMock'
BY DEF ClosedMock, AllKept, Kept, Submitted

LEMMA DrawsStaySoFar ==
    ASSUME PInv, KInv, AllKept, [Next]_vars
    PROVE  DrawsSoFar'
<1> DEFINE RequestsDrawNow ==
        \A p \in Requests :
            request'[p].step = "draw" =>
                request'[p] = request[p] \/ (request'[p].day = day /\ request'[p].closed = ClosedMock)
<1>1. \A d \in Days : d <= day => d <= day'
  <2>1. day \in Nat /\ (day' = day \/ day' = day + 1)
    <3>1. day \in Nat
      BY DEF PInv, PlayTypeOK, Days
    <3> QED
      BY <3>1 DEF Next, OfDaily, OfMock, OfPractice, OfRuns, vars, draw, world, AskForDraw, DrawDaily, StartDaily,
        InsertDaily, ReadDaily, ListDaily, AnswerDaily, CloseDaily, AskForRun, StartRun, AnswerMock, ShowNext, Show,
        ListStale, EndStale, Finish, ComeBack, EndRun, ReadSummary, AskPractice, AnswerPractice,
        CloseMock, TimeUp, Midnight, Review
  <2> QED
    BY <2>1 DEF Days
<1>2. ASSUME NEW p \in Requests, NEW c, request' = [request EXCEPT ![p] = c],
             c.step = "draw" => c.day = day /\ c.closed = ClosedMock
      PROVE  RequestsDrawNow
  <2>1. \A q \in Requests : request'[q] = IF q = p THEN c ELSE request[q]
    BY <1>2 DEF PInv, RequestsOK
  <2> QED
    BY <1>2, <2>1
<1>3. \A p \in Requests : Returns(p) => RequestsDrawNow
  BY <1>2 DEF Returns, Idle
<1>4. ASSUME UNCHANGED request PROVE RequestsDrawNow
  BY <1>4
<1>5. ASSUME NEW p \in Requests, OfDaily(p) PROVE RequestsDrawNow
  BY <1>2, <1>3, <1>5 DEF OfDaily, AskForDraw, DrawDaily, StartDaily, InsertDaily, ReadDaily, ListDaily,
      AnswerDaily, CloseDaily, Arrives
<1>6. ASSUME NEW p \in Requests, OfMock(p) PROVE RequestsDrawNow
  BY <1>2, <1>3, <1>6 DEF OfMock, AskForRun, StartRun, AnswerMock, ShowNext, ListStale, EndStale, Arrives
<1>7. ASSUME NEW p \in Requests, OfPractice(p) PROVE RequestsDrawNow
  BY <1>2, <1>3, <1>7 DEF OfPractice, AskPractice, AnswerPractice, Arrives
<1>8. ASSUME \/ OfRuns \/ (\E a \in Ids : CloseMock(a) \/ TimeUp(a))
             \/ Midnight \/ (\E q \in Questions : Review(q)) \/ UNCHANGED vars
      PROVE  RequestsDrawNow
  BY <1>4, <1>8 DEF OfRuns, ComeBack, EndRun, ReadSummary, CloseMock, TimeUp, Midnight, Review, vars
<1>9. RequestsDrawNow
  BY <1>5, <1>6, <1>7, <1>8 DEF Next
<1> HIDE DEF RequestsDrawNow
<1>10. ASSUME NEW p \in Requests, request'[p].step = "draw"
       PROVE  request'[p].day <= day' /\ request'[p].closed \subseteq ClosedMock'
  <2>1. CASE request'[p] = request[p]
    <3>1. IsAt(p, "draw")
      BY <1>10, <2>1 DEF IsAt
    <3>2. request[p].day \in Days /\ request[p].day <= day /\ request[p].closed \subseteq ClosedMock
      BY <3>1 DEF PInv, RequestsOK, Fits, KInv, DrawsSoFar, IsAt
    <3> QED
      BY <1>1, <2>1, <3>2, ClosedStays
  <2>2. CASE request'[p].day = day /\ request'[p].closed = ClosedMock
    <3>1. day \in Days /\ day <= day
      BY DEF PInv, PlayTypeOK, Days
    <3> QED
      BY <1>1, <2>2, <3>1, ClosedStays
  <2> QED
    BY <1>9, <1>10, <2>1, <2>2 DEF RequestsDrawNow
<1> QED
  BY <1>10 DEF DrawsSoFar, IsAt, ClosedMock, Ids

LEMMA PlayDaysAreDays == PInv => \A a \in Ids : PlayDay(a) \in Days
<1> SUFFICES ASSUME PInv, NEW a \in Ids PROVE PlayDay(a) \in Days
  OBVIOUS
<1>1. CASE attempts[a].run = NoRun
  BY <1>1, AttemptsAreTyped DEF PlayDay
<1>2. CASE attempts[a].run # NoRun
  <2>1. attempts[a].run \in RunIds
    BY <1>2 DEF PInv, PlayTypeOK
  <2>2. runs[attempts[a].run] \in Run
    BY <2>1 DEF PInv, PlayTypeOK, RunIds
  <2> QED
    BY <1>2, <2>2 DEF PlayDay, Run
<1> QED
  BY <1>1, <1>2

\* Within a season, what was shown is not paid in full any more.
LEMMA ShownPaysLess ==
    ASSUME PInv, PInv', KInv, PaysByTheRules, PlayAssumption, LastDay < NewSeason,
           NEW a \in Ids', AnswersNow(a), attempts'[a].rate = "full", attempts'[a].knew,
           ~ (attempts'[a].mode = "daily" /\ attempts'[a].day \in overtaken)
    PROVE  FALSE
<1> DEFINE q == attempts'[a].question
<1>1. \A d \in Days : Season(d) = 0
  BY PlayAssumption DEF Season, Days
<1>2. \A p, d : d \in Days /\ Knows(p, d) => <<p, 0>> \in known
  BY <1>1 DEF Knows
<1>3. ASSUME NEW b \in Ids, attempts[b].question = q, IsSubmitted(attempts[b]), NEW d \in Days, NEW S, b \in S
      PROVE  LastSeen(S, q, d)
  <2>1. Season(PlayDay(b)) = 0 /\ Season(d) = 0
    BY <1>1, PlayDaysAreDays
  <2>2. Season(PlayDay(b)) >= Season(d) /\ Submitted(b)
    BY <1>3, <2>1 DEF IsSubmitted, Submitted
  <2> QED
    BY <1>3, <2>2 DEF LastSeen
<1>4. a \in Ids => /\ attempts[a].question = q /\ ~ IsSubmitted(attempts[a])
                  /\ attempts[a].mode = attempts'[a].mode /\ attempts[a].day = attempts'[a].day
  BY DEF PaysByTheRules, AllKept, Kept, AnswersNow, Submitted, IsSubmitted
<1>5. CASE DailyAnswer(a)
  <2>1. PICK p \in Requests : /\ IsAt(p, "answer") /\ request[p].attempt = a
                              /\ attempts'[a].rate = DailyRate(a, request[p].day)
    BY <1>5 DEF DailyAnswer
  <2>2. request[p].day \in Days
    BY <2>1 DEF PInv, RequestsOK, Fits, IsAt
  <2>3. /\ a \in Ids /\ attempts[a].mode = "daily"
        /\ attempts'[a].knew = Knows(attempts[a].question, PlayDay(a))
    BY <1>5 DEF DailyAnswer
  <2>4. <<q, 0>> \in known
    BY <1>2, <1>4, <2>3, PlayDaysAreDays
  <2>5. PICK b \in Ids : Counts(attempts, drawnAt[attempts[a].day], b, q)
    BY <1>4, <2>3, <2>4 DEF KInv, OpenDailiesCountIt
  <2>6. b \in OthersOfDaily(a) /\ attempts[b].question = q /\ IsSubmitted(attempts[b])
    BY <1>4, <2>3, <2>5 DEF OthersOfDaily, Others, HiddenMock, ClosedMock, Counts
  <2>7. LastSeen(OthersOfDaily(a), q, request[p].day)
    BY <1>3, <2>2, <2>6
  <2> QED
    BY <1>4, <2>1, <2>3, <2>7 DEF DailyRate, Rate
<1>6. CASE MockAnswer(a)
  <2>1. a \in Ids /\ attempts'[a].rate = MockRate(a, day)
        /\ attempts'[a].knew = Knows(attempts[a].question, PlayDay(a))
    BY <1>6 DEF MockAnswer
  <2>2. PlayDay(a) \in Days
    BY <2>1, PlayDaysAreDays
  <2>3. <<q, 0>> \in known /\ q \in Questions
    BY <1>2, <1>4, <2>1, <2>2, AttemptsAreTyped
  <2>4. PICK b \in Ids : attempts[b].question = q /\ IsSubmitted(attempts[b])
    BY <2>3 DEF KInv, ShownWasSubmitted
  <2>5. b \in Others(a)
    BY <1>4, <2>1, <2>4 DEF Others
  <2>6. LastSeen(Others(a), q, PlayDay(a))
    BY <1>3, <2>2, <2>4, <2>5
  <2> QED
    BY <1>4, <2>1, <2>6 DEF MockRate, Rate
<1>7. CASE PracticeAnswer(a)
  <2> DEFINE now == attempts'[a].day
  <2>1. /\ attempts'[a].rate = Rate(LastSeen(Ids, q, now), AnsweredToday(Ids, q, now))
        /\ attempts'[a].knew = Knows(q, now)
    BY <1>7 DEF PracticeAnswer
  <2>2. now \in Days /\ q \in Questions
    <3>1. attempts'[a] \in Attempt
      BY DEF PInv, PlayTypeOK, Ids
    <3> QED
      BY <3>1 DEF Attempt
  <2>3. <<q, 0>> \in known
    BY <1>2, <2>1, <2>2
  <2>4. PICK b \in Ids : attempts[b].question = q /\ IsSubmitted(attempts[b])
    BY <2>2, <2>3 DEF KInv, ShownWasSubmitted
  <2>5. LastSeen(Ids, q, now)
    BY <1>3, <2>2, <2>4
  <2> QED
    BY <2>1, <2>5 DEF Rate
<1> QED
  BY <1>5, <1>6, <1>7 DEF PaysByTheRules

LEMMA OvertakenStays ==
    ASSUME PInv, [Next]_vars
    PROVE  overtaken \subseteq overtaken'
BY DEF Next, OfDaily, OfMock, OfPractice, OfRuns, vars, draw, AskForDraw, DrawDaily, StartDaily, InsertDaily,
    ReadDaily, ListDaily, AnswerDaily, CloseDaily, AskForRun, StartRun, AnswerMock, ShowNext, Show,
    ListStale, EndStale, Finish, ComeBack, EndRun, ReadSummary, AskPractice, AnswerPractice,
    CloseMock, TimeUp, Midnight, Review

LEMMA KnownStays ==
    ASSUME PInv, KInv, PlayAssumption, LastDay < NewSeason, [Next]_vars
    PROVE  KInv'
<1>1. PInv' /\ PaysByTheRules
  BY EveryStep
<1>2. ShownWasSubmitted' /\ OpenDailiesCountIt' /\ TodayCountsIt' /\ DrawsAreDated'
  BY <1>1, OrdinarySteps, OrdinaryKeeps, MidnightKeeps, SummariesKeep, DrawsKeep, InsertsKeep DEF PaysByTheRules
<1>3. ShownAnswersPayLess'
  <2> SUFFICES ASSUME NEW a \in Ids', attempts'[a].state = "answered", attempts'[a].rate = "full", attempts'[a].knew,
                      ~ (attempts'[a].mode = "daily" /\ attempts'[a].day \in overtaken')
               PROVE  FALSE
    BY DEF ShownAnswersPayLess, PaidInFull
  <2>3. ~ (attempts'[a].mode = "daily" /\ attempts'[a].day \in overtaken)
    BY OvertakenStays
  <2>1. CASE AnswersNow(a)
    BY <1>1, <2>1, <2>3, ShownPaysLess
  <2>2. CASE ~ AnswersNow(a)
    <3>1. a \in Ids /\ Submitted(a)
      BY <2>2 DEF AnswersNow
    <3>2. attempts'[a] = attempts[a]
      BY <1>1, <3>1 DEF PaysByTheRules, AllKept, Kept
    <3> QED
      BY <2>3, <3>1, <3>2 DEF KInv, ShownAnswersPayLess, PaidInFull
  <2> QED
    BY <2>1, <2>2
<1>4. DrawsSoFar'
  BY <1>1, DrawsStaySoFar DEF PaysByTheRules
<1> QED
  BY <1>2, <1>3, <1>4 DEF KInv

\* Within a season, an answer that the player had been shown is never paid in full, in whatever modes,
\* runs and tabs it was shown and given, unless it is to a daily question whose draw or start was
\* overtaken: what a summary keeps back and what a daily question does not count as seen are else the
\* same questions (services/questions.py: running, xp.py: last_seen, _hidden_mock).
THEOREM ShownPayLess == LastDay < NewSeason /\ Spec => []ShownAnswersPayLess
<1> SUFFICES ASSUME LastDay < NewSeason PROVE Spec => []ShownAnswersPayLess
  OBVIOUS
<1>1. Init => KInv
  <2> SUFFICES ASSUME Init PROVE KInv
    OBVIOUS
  <2>1. /\ Ids = {} /\ known = {} /\ \A d \in Days : drawn[d] = NoQuestion /\ drawnAt[d] = {}
        /\ \A p \in Requests : ~ IsAt(p, "draw")
    BY DEF Init, Ids, IsAt, Idle
  <2> QED
    BY <2>1 DEF KInv, ShownWasSubmitted, OpenDailiesCountIt, TodayCountsIt, DrawsAreDated, DrawsSoFar,
        ShownAnswersPayLess
<1>2. PInv /\ KInv /\ [Next]_vars => KInv'
  BY KnownStays, PlayAssumption
<1>3. KInv => ShownAnswersPayLess
  BY DEF KInv
<1> QED
  BY <1>1, <1>2, <1>3, InvariantHolds, PTL DEF Spec
===============================================================================
