------------------------------- MODULE MCCareer -------------------------------
(* Rank, Streaks, Awards and Leaderboard in one run: they share no variable,  *)
(* so a behaviour moves one of them and the states are the sum of theirs.     *)
EXTENDS Leaderboard, Rank, Streaks, Awards, TLC
LOCAL INSTANCE Sequences

VARIABLE part

careerVars == <<rankVars, streakVars, awardsVars, boardVars, part>>

Placed == <<0, 1, 3>>
LPs == {-3, -1, 0, 2}
OneVertical == [m \in Members |-> "vertical"]

\* Members, and requests (of both parts), are interchangeable.
Symmetric == Permutations(Members) \union Permutations(Calls)

CareerInit ==
    /\ RankInit /\ StreakInit /\ AwardsInit /\ BoardInit
    /\ \/ part = "rank"
       \/ part \in {"streak", "awards", "boards"} /\ placedIn = 1 /\ position = 1

CareerNext ==
    \/ part = "rank" /\ RankNext /\ UNCHANGED <<streakVars, awardsVars, boardVars, part>>
    \/ part = "streak" /\ StreakNext /\ UNCHANGED <<rankVars, awardsVars, boardVars, part>>
    \/ part = "awards" /\ AwardsNext /\ UNCHANGED <<rankVars, streakVars, boardVars, part>>
    \/ part = "boards" /\ BoardNext /\ UNCHANGED <<rankVars, streakVars, awardsVars, part>>

CareerSpec == CareerInit /\ [][CareerNext]_careerVars

\* The types of all.
CareerTypeOK == RankTypeOK /\ StreaksTypeOK /\ AwardsTypeOK /\ BoardTypeOK

-------------------------------------------------------------------------------
(* The places of a page, for every score of up to three members: a place is   *)
(* one more than the members ahead, the viewer's own is that of their row, and *)
(* the cut leaves out nobody level with a row.                                *)
Scored == [{1, 2, 3} -> [score : -1 .. 1, out : BOOLEAN]]

ASSUME PagesAgree ==
    \A f \in Scored :
        LET scores == {[who |-> m, score |-> f[m].score, out |-> f[m].out] : m \in {1, 2, 3}}
            named == {s \in scores : ~s.out}
            page == Page(scores, 1)
        IN /\ \A r \in page.rows : r.rank = 1 + Cardinality({s \in named : s.score > r.score})
           /\ \A s \in named : (\E r \in page.rows : r.who = s.who) <=>
                               Cardinality({x \in named : x.score > s.score}) < TopRank
           /\ \A me \in page.me, r \in page.rows : r.who = 1 => r.rank = me.rank

-------------------------------------------------------------------------------
(* What an answer pays, for every answer and a few streaks and banks          *)

S == INSTANCE Scoring

Answers ==
    [result : {"right"}, difficulty : S!Difficulties, mode : S!Modes, answered : BOOLEAN, hint : BOOLEAN,
     repeat : BOOLEAN, late : {FALSE}, passed : {FALSE}, again : BOOLEAN, firstWin : BOOLEAN,
     combo : {0, 6}, streakDays : {0, 2, 12}, crit : BOOLEAN, rested : {0, 1, 150}]

ASSUME AnswersPay == \A x \in Answers : S!PaysForAnswers(x) /\ S!HelpPaysNoMore(x)

\* What a player may guess between, and the stakes of the divisions with the skill that is left there.
Guesses ==
    {S!Guess(kind, n, hint, right) : kind \in {"choice-one", "choice-many", "text"}, n \in 0 .. 5,
                                     hint \in BOOLEAN, right \in 0 .. 5}

ASSUME NoBlindGuessPays ==
    \A guess \in Guesses, skill \in S!LeastSkill .. S!Sure - 1, division \in S!Divisions, hint \in BOOLEAN,
       misses \in {0, 3} : S!GuessingNeverPays(guess, skill, S!Stakes(division), hint, misses)

ASSUME AidsGoOneByOne == \A division \in S!Divisions \ {15} : S!WheelsComeOff(division)

ASSUME LevelsGoUp == \A xp \in 0 .. 2000 : S!LevelsAdd(xp)

ASSUME DifficultyFollows ==
    \A kind \in {"choice-one", "numbers"}, seconds \in {0, 60, 61, 360}, answered \in {0, 19, 20, 21} :
        \A right \in 0 .. answered - 1 : S!FollowsTheAnswers(kind, seconds, answered, right)

\* Two people, three answers of theirs, and one more.
GivenBy ==
    [by : {1, 2}, at : 1 .. 3, result : {"right", "wrong", "none"}, late : BOOLEAN, mode : {"daily", "live"}]

ASSUME FirstAnswersStand ==
    \A a, b, again \in GivenBy :
        a.at # b.at /\ again.at \notin {a.at, b.at} =>
            /\ S!NobodyDrags({a, b}, again)
            /\ S!Recalibrate("numbers", 0, 2, {a, b}) \in S!Difficulties
===============================================================================
