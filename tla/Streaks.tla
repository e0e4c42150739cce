-------------------------------- MODULE Streaks --------------------------------
(***************************************************************************)
(* A player's daily streak and the freezes that save it                    *)
(* (services/streaks.py, domain/daily.py).  A freeze is due from midnight  *)
(* on for a day that was missed; the nightly job stores it some hours      *)
(* later, or days later when it did not run, and until then whatever reads *)
(* the streak works out the same.  A question started before midnight may  *)
(* be answered for a few minutes after it and counts for its own day.      *)
(***************************************************************************)
EXTENDS Integers, FiniteSets

CONSTANTS
    LastDay,        \* a bound
    FreezeEvery,    \* days of streak that earn a freeze
    FreezeCap,      \* freezes held at most
    CatchUp         \* nights a missed job can catch up on

ASSUME StreaksAssumption ==
    /\ LastDay \in Nat \ {0} /\ FreezeEvery \in Nat \ {0} /\ FreezeCap \in Nat \ {0} /\ CatchUp \in 1 .. FreezeEvery - 1

VARIABLES
    today,
    carries,    \* a few minutes after midnight, when yesterday's question may still be answered
    asked,      \* the day whose question is on the player's screen, or 0
    played,     \* the days with an answer in time
    saved,      \* streak_freezes: the days a freeze was spent on
    freezes,    \* streak_freezes and freeze_earned_on of the user
    ran,        \* the day the job last ran on
    nightly,    \* history: the freezes and days saved if the job had run every night
    off         \* history: the job missed too many nights, or ran while yesterday's question was open,
                \* or a day earned no freeze because as many as may be were held

streakVars == <<today, carries, asked, played, saved, freezes, ran, nightly, off>>

StreakInit ==
    /\ today = 1 /\ carries = FALSE /\ asked = 0
    /\ played = {} /\ saved = {} /\ freezes = [held |-> 0, on |-> 0]
    /\ ran = 1
    /\ nightly = [spent |-> {}, held |-> 0, on |-> 0] /\ off = FALSE

-------------------------------------------------------------------------------
(* The rules                                                               *)

\* streak: the days in a row that end on this day, or on the day before if this one is still open.
Streak(days, day) ==
    LET last == IF day \in days THEN day ELSE day - 1
    IN Cardinality({d \in days : d <= last /\ d .. last \subseteq days})

FreezeNeeded(kept, day) == day \notin kept /\ day - 1 \in kept

FreezeEarned(kept, days, day) == day \in days /\ Streak(kept, day) % FreezeEvery = 0

\* A freeze is spent on a day that was missed.
Spend(f, kept, day) ==
    IF f.held > 0 /\ FreezeNeeded(kept \union f.spent, day)
      THEN [f EXCEPT !.spent = @ \union {day}, !.held = @ - 1] ELSE f

\* A slip: whoever reads the same day again is given another.
EarnAgain(f, kept, days, day) ==
    IF FreezeEarned(kept \union f.spent, days, day) /\ f.held < FreezeCap
      THEN [f EXCEPT !.held = @ + 1, !.on = day] ELSE f

\* A freeze is earned, once for a day.
Earn(f, kept, days, day) ==
    IF FreezeEarned(kept \union f.spent, days, day) /\ f.on < day /\ f.held < FreezeCap
      THEN [f EXCEPT !.held = @ + 1, !.on = day] ELSE f

\* settle: the last few days before this one, oldest first.
Settle(days, kept, held, on, day, nights) ==
    LET step[n \in 0 .. nights] ==
            IF n = 0 THEN [spent |-> {}, held |-> held, on |-> on]
            ELSE LET d == day - (nights - n + 1) IN Earn(Spend(step[n - 1], kept, d), kept, days, d)
    IN step[nights]

\* What is due now, as a page reads it and the job stores it.
Due == Settle(played, played \union saved, freezes.held, freezes.on, today, CatchUp)

\* current, held.
Current == [kept |-> played \union saved \union Due.spent, held |-> Due.held]

-------------------------------------------------------------------------------
(* Days and nights                                                         *)

\* The day's question is shown.
Ask ==
    /\ today \notin played /\ asked # today
    /\ asked' = today
    /\ UNCHANGED <<today, carries, played, saved, freezes, ran, nightly, off>>

\* It is answered in time.
AnswerInTime ==
    /\ asked # 0 /\ (asked = today \/ carries)
    /\ played' = played \union {asked}
    /\ asked' = 0
    /\ UNCHANGED <<today, carries, saved, freezes, ran, nightly, off>>

Carried == carries /\ asked = today - 1 /\ asked # 0

\* nightly, which passes over those who have not played of late and hold no freeze.
Nightly ==
    /\ IF freezes.held > 0 \/ \E d \in played : d >= today - CatchUp - 1
         THEN /\ saved' = saved \union Due.spent
              /\ freezes' = [held |-> Due.held, on |-> Due.on]
         ELSE UNCHANGED <<saved, freezes>>
    /\ ran' = today
    /\ off' = (off \/ Carried)
    /\ UNCHANGED <<today, carries, asked, played, nightly>>

\* The night's first minutes are over.
Morning ==
    /\ carries
    /\ carries' = FALSE
    /\ asked' = IF asked = today THEN asked ELSE 0
    /\ UNCHANGED <<today, played, saved, freezes, ran, nightly, off>>

\* A night for the day before `day`, of a job that runs every night.
OneNight(day) ==
    LET f == Settle(played, played \union nightly.spent, nightly.held, nightly.on, day, 1)
    IN [f EXCEPT !.spent = @ \union nightly.spent]

\* A day that would have earned a freeze earned none because of the cap.
Refused(f, day) == f.on # day /\ FreezeEarned(played \union f.spent, played, day)

\* Nothing yesterday's question does can matter any more when the next midnight comes.
Midnight ==
    /\ ~ carries /\ today < LastDay
    /\ today' = today + 1
    /\ carries' = TRUE
    /\ nightly' = OneNight(today)
    /\ off' = (off \/ today + 1 - ran > CatchUp \/ Refused(OneNight(today), today - 1))
    /\ UNCHANGED <<asked, played, saved, freezes, ran>>

StreakNext == Ask \/ AnswerInTime \/ Nightly \/ Morning \/ Midnight

StreakSpec == StreakInit /\ [][StreakNext]_streakVars

-------------------------------------------------------------------------------
(* Properties                                                              *)

\* The types; no freeze is kept for a day that was played.
StreaksTypeOK ==
    /\ today \in 1 .. LastDay /\ carries \in BOOLEAN /\ asked \in 0 .. today /\ ran \in 1 .. today
    /\ played \subseteq 1 .. today /\ saved \subseteq 1 .. today - 1
    /\ freezes.held \in 0 .. FreezeCap /\ freezes.on \in played \union {0}
    /\ off \in BOOLEAN
    /\ off \/ saved \intersect played = {}

\* The days that count and the freezes held are, whoever reads them and whenever, as if the job had run
\* every night (current and held, streaks.py:45 and 51): it makes up for up to CatchUp nights that it
\* missed.  `off` says when not.
AsIfEveryNight ==
    off \/ /\ Current.held = OneNight(today).held
           /\ Current.kept = played \union OneNight(today).spent

\* Storing the freezes due changes nothing that is read: docs/game-rules.md:220, "the nightly job stores
\* the same ones, so it doesn't matter which comes first"; streaks.py:63, "Idempotent (a freeze day is
\* stored once, an earning day too)".
TheNightStoresWhatIsRead == [][Nightly => Current' = Current]_streakVars
===============================================================================
