------------------------------ MODULE Leaderboard ------------------------------
(***************************************************************************)
(* The boards (services/leaderboard.py, domain/leaderboard.py) as several  *)
(* members of one worker open them at once, while others play, hide, leave *)
(* and are deleted.                                                        *)
(*                                                                         *)
(* A board is read in several queries, each of which sees what was         *)
(* committed before it, and the LP of a period comes from a cache of the   *)
(* worker that is BOARD_TTL old at most.  An answer stands for the LP it   *)
(* moved: a sum is the set of the answers it counts.  The answers are of   *)
(* daily questions, the ones that also count for who played this week.     *)
(***************************************************************************)
EXTENDS Integers, FiniteSets, FiniteSetsExt

CONSTANTS
    Members,
    Views,          \* bound: the requests, each served once
    Boards,         \* "ranked" (everyone, this season), "area" (one area, this season), "week" (climbers)
    Vertical,       \* each member's vertical
    MinVertical,
    WeekDays,
    TopRank,        \* TOP
    BoardTtl,       \* in ticks, as everything timed
    DayLength,
    SeasonStarts,   \* the days that are a 1 September, 0 among them
    Won,            \* the LP an answer may move
    LastTick, MaxAnswers, MaxMoves, \* bounds: on time, answers, and changes of the members (a return is free)
    Nothing

ASSUME LeaderboardAssumption ==
    /\ IsFiniteSet(Members) /\ Boards \subseteq {"ranked", "area", "week"}
    /\ 0 \in SeasonStarts /\ SeasonStarts \subseteq Nat
    /\ MinVertical \in Nat \ {0} /\ WeekDays \in Nat \ {0} /\ TopRank \in Nat \ {0}
    /\ BoardTtl \in Nat \ {0} /\ DayLength \in Nat \ {0} /\ Won \subseteq Int \ {0}
    /\ LastTick \in Nat /\ MaxAnswers \in Nat /\ MaxMoves \in Nat
    /\ Nothing \notin [by : Views, at : 0 .. LastTick]

VARIABLES
    clock,
    people,     \* status and leaderboard_opt_out of each user, and since when (history)
    answers,    \* the attempts that moved a rank
    sums,       \* _sums: per area and first day, what was summed and when
    summing,    \* who holds the worker's lock
    view,       \* what each request has read, and its board once it is shown
    moves       \* the changes of the members, for their bound

boardVars == <<clock, people, answers, sums, summing, view, moves>>

Day(t) == t \div DayLength
LastDayOf == Day(LastTick)
Firsts == (1 - WeekDays) .. LastDayOf
Keys == (Boards \ {"ranked"}) \X Firsts
Attempt == [by : Members, lp : Won, day : 0 .. LastDayOf, at : 0 .. LastTick]
Waiting == [step |-> "waiting"]

BoardInit ==
    /\ clock = 0
    /\ people = [m \in Members |-> [status |-> "active", out |-> FALSE, since |-> -BoardTtl]]
    /\ answers = {}
    /\ sums = [key \in Keys |-> Nothing]
    /\ summing = Nothing
    /\ view = [v \in Views |-> Waiting]
    /\ moves = 0

-------------------------------------------------------------------------------
(* What is read                                                            *)

Active == {m \in Members : people[m].status = "active"}
Visible == {m \in Active : ~people[m].out}

FirstDay(period, today) ==
    IF period = "week" THEN today - (WeekDays - 1) ELSE Max({d \in SeasonStarts : d <= today})

\* _lp: the answers that count since a day, of the active members (or of one).  LP belongs to the day
\* its play started.
LpOf(m, first) == {a \in answers : a.by = m /\ a.day >= first}
Lp(first) == UNION {LpOf(m, first) : m \in Active}

Total(counted, m) == MapThenSumSet(LAMBDA a : a.lp, {a \in counted : a.by = m})

\* _played.
Played(first) == {m \in Active : LpOf(m, first) # {}}

\* cached.
Cached(key) == sums[key] # Nothing /\ clock - sums[key].at < BoardTtl

\* ranks: competition ranking of scores sorted high to low.
Ranks(scores) ==
    LET rank[i \in DOMAIN scores] ==
            IF i > 1 /\ scores[i] = scores[i - 1] THEN rank[i - 1] ELSE i
    IN [i \in DOMAIN scores |-> rank[i]]

\* rank_among.
RankAmong(score, others) == 1 + Cardinality({o \in others : o.score > score})

\* vertical_board: who is averaged in each vertical, and who of them played this week.
VerticalBoard(members, thisWeek) ==
    {r \in {[vertical |-> x, of |-> {m \in members : Vertical[m] = x},
             played |-> {m \in members \intersect thisWeek : Vertical[m] = x}] :
               x \in {Vertical[m] : m \in Members}} : Cardinality(r.of) >= MinVertical}

-------------------------------------------------------------------------------
(* One request                                                             *)

Goes(v, next) == view' = [view EXCEPT ![v] = next]
OnlyViews == UNCHANGED <<clock, people, answers, sums, summing, moves>>
At(v, step) == view[v].step = step
Reading(v) == view[v].step \notin {"waiting", "shown", "failed"}
KeyOf(v) == <<view[v].board, view[v].first>>

\* board: the ranked board needs no sum.  The other boards count a period's LP, of an area or of the week.
\* History: when the request began, its viewer's answers then, and who could be seen at some moment since.
Open(v, m, board) ==
    LET first == FirstDay(IF board = "week" THEN "week" ELSE "season", Day(clock))
    IN /\ At(v, "waiting") /\ m \in Active
       /\ Goes(v, [step |-> IF board = "ranked" THEN "names" ELSE "look", by |-> m, board |-> board,
                   first |-> first, counted |-> {}, began |-> clock, own |-> LpOf(m, first), seen |-> Visible,
                   scores |-> {}])
       /\ OnlyViews

\* _period_lp: a sum that is fresh is taken, before the lock or once it is had.
Hit(v) ==
    /\ At(v, "look") \/ (At(v, "queue") /\ summing = Nothing)
    /\ Cached(KeyOf(v))
    /\ Goes(v, [view[v] EXCEPT !.step = "own", !.counted = sums[KeyOf(v)].counted])
    /\ OnlyViews

Miss(v) ==
    /\ At(v, "look") /\ ~Cached(KeyOf(v))
    /\ Goes(v, [view[v] EXCEPT !.step = "queue"])
    /\ OnlyViews

Sum(v) ==
    /\ At(v, "queue") /\ summing = Nothing /\ ~Cached(KeyOf(v))
    /\ summing' = [by |-> v, at |-> clock]
    /\ Goes(v, [view[v] EXCEPT !.step = "keep", !.counted = Lp(view[v].first)])
    /\ UNCHANGED <<clock, people, answers, sums, moves>>

\* A slip: the age of a sum counts from when it is kept.
KeptLate(v) == [key \in Keys |-> IF key = KeyOf(v) THEN [at |-> clock, counted |-> view[v].counted] ELSE sums[key]]

\* The age of a sum counts from before it was read.
Kept(v) ==
    [key \in Keys |->
        IF key = KeyOf(v) THEN [at |-> summing.at, counted |-> view[v].counted]
        ELSE IF sums[key] # Nothing /\ summing.at - sums[key].at >= BoardTtl THEN Nothing
        ELSE sums[key]]

Keep(v) ==
    /\ At(v, "keep")
    /\ sums' = Kept(v)
    /\ summing' = Nothing
    /\ Goes(v, [view[v] EXCEPT !.step = "names"])
    /\ UNCHANGED <<clock, people, answers, moves>>

\* _scores: the viewer's own LP is read again.
ReadOwn(v) ==
    LET m == view[v].by
    IN /\ At(v, "own")
       /\ Goes(v, [view[v] EXCEPT !.step = "names",
                                  !.counted = {a \in @ : a.by # m}
                                              \union IF m \in Active THEN LpOf(m, view[v].first) ELSE {}])
       /\ OnlyViews

\* The names of whoever has LP and is active now, or (_ranked) whoever has played, at their points now.
Scores(v) ==
    IF view[v].board = "ranked"
      THEN {[who |-> m, score |-> Total(answers, m), out |-> people[m].out] : m \in Played(view[v].first)}
      ELSE {[who |-> m, score |-> Total(view[v].counted, m), out |-> people[m].out] :
              m \in Active \intersect {a.by : a \in view[v].counted}}

ReadNames(v) ==
    /\ At(v, "names")
    /\ Goes(v, [view[v] EXCEPT !.step = "page", !.scores = Scores(v)])
    /\ OnlyViews

\* The page: everyone up to the cut, ties included, with their place, and the viewer's own place.
Page(scores, viewer) ==
    LET shown == {s \in scores : ~s.out}
        sorted == CHOOSE x \in Injection(1 .. Cardinality(shown), shown) :
                      \A i, j \in DOMAIN x : i < j => x[i].score >= x[j].score
        ranks == Ranks([i \in DOMAIN sorted |-> sorted[i].score])
    IN [rows |-> {[who |-> sorted[i].who, score |-> sorted[i].score, rank |-> ranks[i]] :
                    i \in {j \in DOMAIN sorted : ranks[j] <= TopRank}},
        me |-> {[rank |-> RankAmong(s.score, {o \in shown : o.who # viewer}), score |-> s.score] :
                    s \in {x \in scores : x.who = viewer}}]
PageOf(v) == Page(view[v].scores, view[v].by)

\* A second query reads the points and XP of whoever is on the page.
Show(v) ==
    /\ At(v, "page")
    /\ \A r \in PageOf(v).rows : people[r.who].status # "gone"
    /\ Goes(v, [step |-> "shown"])
    /\ OnlyViews

\* One of them was deleted since: a KeyError, and no page.
Fail(v) ==
    /\ At(v, "page")
    /\ \E r \in PageOf(v).rows : people[r.who].status = "gone"
    /\ Goes(v, [step |-> "failed"])
    /\ OnlyViews

\* verticals: one query.
OpenVerticals(v) ==
    /\ At(v, "waiting")
    /\ Goes(v, [step |-> "averages",
                rows |-> VerticalBoard(Visible \intersect Played(FirstDay("season", Day(clock))),
                                       Played(FirstDay("week", Day(clock)))),
                seen |-> Visible])
    /\ OnlyViews

-------------------------------------------------------------------------------
(* Meanwhile                                                               *)

\* An answer moves a rank: on its own day, or after midnight for the day its play started.
Play(m, lp, day) ==
    /\ m \in Active /\ Cardinality(answers) < MaxAnswers
    /\ day \in {Day(clock), Day(clock) - 1} \intersect Nat
    /\ answers' = answers \union {[by |-> m, lp |-> lp, day |-> day, at |-> clock]}
    /\ UNCHANGED <<clock, people, sums, summing, view, moves>>

\* A member hides from the boards or comes back, leaves the team or returns, or is deleted with every answer.
Moved(m, new) ==
    /\ moves' = IF new.status = people[m].status \/ new.status # "active" THEN moves + 1 ELSE moves
    /\ moves' <= MaxMoves
    /\ people' = [people EXCEPT ![m] = [new EXCEPT !.since = clock]]
    /\ view' = [v \in Views |->
                  IF Reading(v) /\ new.status = "active" /\ ~new.out
                    THEN [view[v] EXCEPT !.seen = @ \union {m}] ELSE view[v]]
    /\ UNCHANGED <<clock, sums, summing>>

Hide(m) == m \in Active /\ Moved(m, [people[m] EXCEPT !.out = ~@]) /\ UNCHANGED answers
Leave(m) == m \in Active /\ Moved(m, [people[m] EXCEPT !.status = "left"]) /\ UNCHANGED answers
Return(m) == people[m].status = "left" /\ Moved(m, [people[m] EXCEPT !.status = "active"]) /\ UNCHANGED answers
Delete(m) ==
    /\ people[m].status # "gone" /\ Moved(m, [people[m] EXCEPT !.status = "gone"])
    /\ answers' = {a \in answers : a.by # m}

Tick ==
    /\ clock < LastTick /\ clock' = clock + 1
    /\ UNCHANGED <<people, answers, sums, summing, view, moves>>

BoardNext ==
    \/ \E v \in Views :
          \/ \E m \in Members, b \in Boards : Open(v, m, b)
          \/ Hit(v) \/ Miss(v) \/ Sum(v) \/ Keep(v) \/ ReadOwn(v) \/ ReadNames(v)
          \/ Show(v) \/ Fail(v) \/ OpenVerticals(v)
    \/ \E m \in Members :
          \/ \E lp \in Won, d \in 0 .. LastDayOf : Play(m, lp, d)
          \/ Hide(m) \/ Leave(m) \/ Return(m) \/ Delete(m)
    \/ Tick

BoardSpec == BoardInit /\ [][BoardNext]_boardVars

-------------------------------------------------------------------------------
(* Properties                                                              *)

\* Every row of the cache holds what its key says, and only whoever sums holds the lock.
BoardTypeOK ==
    /\ clock \in 0 .. LastTick /\ moves \in 0 .. MaxMoves
    /\ people \in [Members -> [status : {"active", "left", "gone"}, out : BOOLEAN, since : -BoardTtl .. LastTick]]
    /\ answers \subseteq Attempt
    /\ \A key \in Keys : sums[key] # Nothing => sums[key].at \in 0 .. clock /\ sums[key].counted \subseteq Attempt
    /\ summing # Nothing => At(summing.by, "keep")

Paged == {v \in Views : At(v, "page")}
Summed == {v \in Paged : view[v].board # "ranked"}

\* Nobody is named, or averaged, who was hidden, away or deleted from the request's start to its end.
NamesOnlyTheVisible ==
    /\ \A v \in Paged : {r.who : r \in PageOf(v).rows} \subseteq view[v].seen
    /\ \A v \in Views : At(v, "averages") => \A r \in view[v].rows : r.of \subseteq view[v].seen

\* The viewer's own LP counts every answer from before the request ("the viewer's own is always current").
OwnIsCurrent ==
    \A v \in Summed : (\E s \in view[v].scores : s.who = view[v].by) => view[v].own \subseteq view[v].counted

\* A member in the same standing for BOARD_TTL has every answer of the period counted that is as old.
OthersAreRecent ==
    \A v \in Summed : \A m \in Active, a \in answers :
        /\ people[m].since + BoardTtl <= view[v].began
        /\ a.by = m /\ a.day >= view[v].first /\ a.at + BoardTtl <= view[v].began
        => a \in view[v].counted /\ \E s \in view[v].scores : s.who = m

\* No answer of another period is counted.
CountsThePeriod == \A v \in Summed : \A a \in view[v].counted : a.day >= view[v].first

\* Whoever is ahead has a better place, members level share one, and the viewer's own place is their row's.
PlacesAgree ==
    \A v \in Paged :
        /\ \A r, s \in PageOf(v).rows : r.rank < s.rank <=> r.score > s.score
        /\ \A me \in PageOf(v).me, r \in PageOf(v).rows :
              r.who = view[v].by => r.rank = me.rank /\ r.score = me.score

\* A board tells the truth, as old as the cache may make it, about whoever may be named on it.
BoardsTellTheTruth == NamesOnlyTheVisible /\ OwnIsCurrent /\ OthersAreRecent /\ CountsThePeriod /\ PlacesAgree
===============================================================================
