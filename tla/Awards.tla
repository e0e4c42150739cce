--------------------------------- MODULE Awards ---------------------------------
(***************************************************************************)
(* What an answer earns beyond being right (services/hints.py, xp.py,      *)
(* practice.py, domain/xp.py): the hint that halves it, the first wins of  *)
(* a day and the rested XP of days away.                                   *)
(*                                                                         *)
(* One player, the daily question of each day and one question they        *)
(* practise.  A request reads the attempt before it locks the player and   *)
(* scores under the lock; `now` is the time it was sent at, so requests    *)
(* sent before midnight may be scored after others sent later.  All days   *)
(* are of one season.                                                      *)
(***************************************************************************)
EXTENDS Integers, FiniteSetsExt

CONSTANTS
    Calls,          \* the requests at the same time
    LastDate,       \* a bound
    DailyDates,     \* bound: the days with a daily question
    FirstWins,      \* FIRST_WINS
    RestedCap       \* RESTED_CAP, in days away

ASSUME AwardsAssumption ==
    /\ LastDate \in Nat \ {0} /\ DailyDates \subseteq 1 .. LastDate
    /\ FirstWins \in Nat \ {0} /\ RestedCap \in Nat \ {0}

VARIABLES
    date,       \* today in Madrid
    late,       \* a few minutes after midnight, when yesterday's daily question may still be answered
    daily,      \* the daily attempt of each day: whether it is there, its hint_used and whether it was scored
    practised,  \* the practice question's attempts: the days of the answers; and a hint not yet spent
    wins,       \* of each day, the right answers sent on it that were paid
    bank,       \* rested_xp, in days away
    restedOn,   \* rested_on, or 0
    call,       \* what each request has read and still has to do
    hints,      \* history: the daily questions whose hint the player was shown, and 0 for the practised one
    earned,     \* history: first-win bonuses of each day, the days of answers, and the days credited as away
    amiss       \* history: whether the last answer scored was paid in full after a hint, and whether a day
                \* away was credited for it that had been, or that an answer counted for

awardsVars == <<date, late, daily, practised, wins, bank, restedOn, call, hints, earned, amiss>>

Dates == 1 .. LastDate
Unasked == [shown |-> FALSE, hint |-> FALSE, done |-> FALSE]
Quiet == [step |-> "quiet"]

AwardsInit ==
    /\ date = 1 /\ late = FALSE
    /\ daily = [d \in Dates |-> Unasked]
    /\ practised = [on |-> {}, hint |-> FALSE]
    /\ wins = [d \in Dates |-> 0]
    /\ bank = 0 /\ restedOn = 0
    /\ call = [r \in Calls |-> Quiet]
    /\ hints = {}
    /\ earned = [wins |-> [d \in Dates |-> 0], answers |-> {}, away |-> {}]
    /\ amiss = [free |-> FALSE, away |-> FALSE]

-------------------------------------------------------------------------------
(* Reads                                                                   *)

\* A daily question runs on its day and for a few minutes after midnight, until it is answered.
Running(d) == d \in Dates /\ daily[d].shown /\ ~daily[d].done /\ (d = date \/ (d = date - 1 /\ late))

\* rested: the full days away before a day, since the last scored answer or else the last attempt.
LastPlay(day) ==
    IF restedOn # 0 THEN restedOn
    ELSE LET before == {d \in {x \in Dates : daily[x].shown} \union practised.on : d < day}
         IN IF before = {} THEN day ELSE Max(before)

\* A slip: the last day played counts as a day away.
DaysWithLast(day) == {d \in Dates : LastPlay(day) <= d /\ d < day}

\* The full days between that one and this.
DaysAway(day) == IF restedOn >= day THEN {} ELSE {d \in Dates : LastPlay(day) < d /\ d < day}

\* rested_bank.
RestedBank(days) == Min({RestedCap, bank + Cardinality(days)})

\* first_wins: the right answers paid since the start of the day the request was sent on.
WinsSince(now) == MapThenSumSet(LAMBDA d : wins[d], now .. LastDate)

\* The last day played: a daily question counts for the day it was shown.
RestedAt(day) == Max({day, restedOn})

-------------------------------------------------------------------------------
(* Scoring                                                                 *)

\* xp_award and grant, under the player's lock: what an answer (or an attempt left to run out) earns and leaves.
GrantXp(a) ==
    LET away == DaysAway(a.day)
        stays == RestedBank(away)
        right == a.answered /\ a.right
        paid == a.answered /\ ~a.again
        bonus == right /\ WinsSince(a.now) < FirstWins
        rests == right /\ paid /\ stays > 0
    IN /\ wins' = [wins EXCEPT ![a.now] = @ + IF right /\ paid THEN 1 ELSE 0]
       /\ IF a.answered
            THEN /\ bank' = stays - IF rests THEN 1 ELSE 0
                 /\ restedOn' = RestedAt(a.day)
                 /\ earned' = [wins |-> [earned.wins EXCEPT ![a.now] = @ + IF bonus /\ paid THEN 1 ELSE 0],
                               answers |-> earned.answers \union {a.day}, away |-> earned.away \union away]
            ELSE UNCHANGED <<bank, restedOn, earned>>
       /\ amiss' = [free |-> a.knew /\ right /\ paid /\ ~a.hint /\ ~a.repeat,
                    away |-> a.answered /\ away \intersect (earned.answers \union earned.away) # {}]

-------------------------------------------------------------------------------
(* Requests                                                                *)

Asks(r, next) == call[r] = Quiet /\ call' = [call EXCEPT ![r] = next]
Ends(r) == call' = [call EXCEPT ![r] = Quiet]

\* start.
ShowDaily ==
    /\ date \in DailyDates /\ ~daily[date].shown
    /\ daily' = [daily EXCEPT ![date].shown = TRUE]
    /\ UNCHANGED <<date, late, practised, wins, bank, restedOn, call, hints, earned, amiss>>

\* timed: the hint of a daily question that runs; it is recorded later, whatever became of the attempt.
AskHint(r, d) ==
    /\ Running(d)
    /\ Asks(r, [step |-> "hint", day |-> d])
    /\ UNCHANGED <<date, late, daily, practised, wins, bank, restedOn, hints, earned, amiss>>

GiveHint(r) ==
    /\ call[r].step = "hint"
    /\ daily' = [daily EXCEPT ![call[r].day].hint = TRUE]
    /\ hints' = hints \union {call[r].day}
    /\ Ends(r)
    /\ UNCHANGED <<date, late, practised, wins, bank, restedOn, earned, amiss>>

\* practice: a hint for the next answer.
PracticeHint ==
    /\ ~practised.hint
    /\ practised' = [practised EXCEPT !.hint = TRUE]
    /\ hints' = hints \union {0}
    /\ UNCHANGED <<date, late, daily, wins, bank, restedOn, call, earned, amiss>>

\* daily.answer reads the attempt, with its hint, before the lock.
SendDaily(r, d) ==
    /\ Running(d)
    /\ Asks(r, [step |-> "daily", day |-> d, now |-> date, hint |-> daily[d].hint, knew |-> d \in hints])
    /\ UNCHANGED <<date, late, daily, practised, wins, bank, restedOn, hints, earned, amiss>>

\* An answer after the time counts as a wrong one.
ScoreDaily(r, right) ==
    LET c == call[r]
    IN /\ c.step = "daily" /\ ~daily[c.day].done
       /\ daily' = [daily EXCEPT ![c.day].done = TRUE]
       /\ GrantXp([day |-> c.day, now |-> c.now, right |-> right, answered |-> TRUE, hint |-> c.hint,
                 repeat |-> FALSE, again |-> FALSE, knew |-> c.knew])
       /\ Ends(r)
       /\ UNCHANGED <<date, late, practised, hints>>

\* Another request recorded an answer first: the stored result.
Repeated(r) ==
    /\ call[r].step = "daily" /\ daily[call[r].day].done
    /\ Ends(r)
    /\ UNCHANGED <<date, late, daily, practised, wins, bank, restedOn, hints, earned, amiss>>

SendPractice(r) ==
    /\ Asks(r, [step |-> "practice", now |-> date, knew |-> 0 \in hints])
    /\ UNCHANGED <<date, late, daily, practised, wins, bank, restedOn, hints, earned, amiss>>

\* A slip: the hint is used up, and not looked at.
SpentUnseen == FALSE

\* spend_practice: whether a hint was taken; it is used up either way.
Spent == practised.hint

\* What came before is read under the lock, as of the time the request was sent.
ScorePractice(r, right) ==
    LET c == call[r]
    IN /\ c.step = "practice"
       /\ GrantXp([day |-> c.now, now |-> c.now, right |-> right, answered |-> TRUE, hint |-> Spent,
                 repeat |-> practised.on # {}, again |-> \E d \in practised.on : d >= c.now,
                 knew |-> c.knew])
       /\ practised' = [on |-> practised.on \union {c.now}, hint |-> FALSE]
       /\ hints' = hints \ {0}
       /\ Ends(r)
       /\ UNCHANGED <<date, late, daily>>

\* close_expired: a daily question left to run out.
CloseDaily(d) ==
    /\ daily[d].shown /\ ~daily[d].done /\ ~Running(d)
    /\ daily' = [daily EXCEPT ![d].done = TRUE]
    /\ GrantXp([day |-> date, now |-> date, right |-> FALSE, answered |-> FALSE, hint |-> FALSE,
              repeat |-> FALSE, again |-> FALSE, knew |-> FALSE])
    /\ UNCHANGED <<date, late, practised, call, hints>>

\* A request takes less than a day.
NextDay ==
    /\ date < LastDate /\ ~late
    /\ \A r \in Calls : call[r].step \in {"daily", "practice"} => call[r].now = date
    /\ date' = date + 1 /\ late' = TRUE
    /\ UNCHANGED <<daily, practised, wins, bank, restedOn, call, hints, earned, amiss>>

Later ==
    /\ late /\ late' = FALSE
    /\ \A r \in Calls : call[r].step \in {"daily", "practice"} => call[r].now = date
    /\ UNCHANGED <<date, daily, practised, wins, bank, restedOn, call, hints, earned, amiss>>

AwardsNext ==
    \/ ShowDaily \/ PracticeHint \/ NextDay \/ Later
    \/ \E d \in Dates : CloseDaily(d)
    \/ \E r \in Calls :
          \/ GiveHint(r) \/ Repeated(r) \/ SendPractice(r)
          \/ \E d \in Dates : AskHint(r, d) \/ SendDaily(r, d)
          \/ \E right \in BOOLEAN : ScoreDaily(r, right) \/ ScorePractice(r, right)

AwardsSpec == AwardsInit /\ [][AwardsNext]_awardsVars

-------------------------------------------------------------------------------
(* Properties                                                              *)

\* The dates, counters and flags keep their ranges: the bank never goes below zero or over RESTED_CAP.
AwardsTypeOK ==
    /\ date \in Dates /\ late \in BOOLEAN
    /\ daily \in [Dates -> [shown : BOOLEAN, hint : BOOLEAN, done : BOOLEAN]]
    /\ practised \in [on : SUBSET Dates, hint : BOOLEAN]
    /\ wins \in [Dates -> Nat] /\ bank \in 0 .. RestedCap /\ restedOn \in 0 .. LastDate
    /\ hints \subseteq 0 .. LastDate

\* An answer sent once its hint was on the screen never earns what it would have without one, whichever of
\* the requests under way is scored first (services/hints.py: "which then earns half XP").
HintsAlwaysCost == ~amiss.free

\* A day gives FIRST_WINS first-win bonuses at most, and no day away is credited twice or once an answer
\* that counts for it was scored (docs/game-rules.md: "each full Madrid day with no scored answer").
BonusesAreRationed ==
    /\ \A d \in Dates : earned.wins[d] <= FirstWins
    /\ ~amiss.away
===============================================================================
