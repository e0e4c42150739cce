-------------------------------- MODULE Scoring --------------------------------
(***************************************************************************)
(* What one answer pays (domain/xp.py xp_award, domain/rank.py lp_award),  *)
(* the account level and a question's difficulty: rules without state.     *)
(*                                                                         *)
(* Shares are fractions of integers.  A rank and a question meet in how    *)
(* likely the right answer is without guessing, `skill` of Sure; the       *)
(* logistic of rank.py leaves at least LeastSkill (0.16, at rank 0 and     *)
(* difficulty 5).                                                          *)
(***************************************************************************)
EXTENDS Integers, FiniteSets, FiniteSetsExt

Sure == 20
LeastSkill == 3

RoundDiv(n, d) ==
    LET q == n \div d  r == 2 * (n % d)
    IN IF r > d \/ (r = d /\ q % 2 = 1) THEN q + 1 ELSE q

-------------------------------------------------------------------------------
(* XP                                                                      *)

Difficulties == 1 .. 5
Modes == {"practice", "daily", "mock", "live"}
BaseXp == <<10, 15, 25, 40, 60>>
ModeQuarters == [practice |-> 3, daily |-> 8, mock |-> 6, live |-> 6]

\* An answer: how it came out ("none" is ungraded), and what it is worth.
Xp == [result : {"right", "wrong", "none"}, difficulty : Difficulties, mode : Modes,
       answered : BOOLEAN, hint : BOOLEAN, repeat : BOOLEAN, late : BOOLEAN, passed : BOOLEAN,
       again : BOOLEAN, firstWin : BOOLEAN, combo : Nat, streakDays : Nat, crit : BOOLEAN, rested : Nat]

\* The base, in 1/32 XP.
Base(x) == BaseXp[x.difficulty] * ModeQuarters[x.mode] * (IF x.repeat THEN 1 ELSE 4) * (IF x.hint THEN 1 ELSE 2)

\* The bonuses' shares, in twentieths of the base; the streak's is capped at ten days, the combo's at five.
Shares(x) ==
    {[share |-> "firstWin", of |-> IF x.firstWin THEN 10 ELSE 0],
     [share |-> "combo", of |-> 2 * Min({x.combo, 5})],
     [share |-> "streak", of |-> Min({Max({x.streakDays - 1, 0}), 10})],
     [share |-> "crit", of |-> IF x.crit THEN 20 ELSE 0]}

XpAward(x) ==
    LET base == Base(x)
        whole == Max({1, RoundDiv(base, 32)})
    IN IF ~x.answered \/ x.again THEN 0
       ELSE IF x.result = "none" \/ x.passed THEN RoundDiv(base, 320)
       ELSE IF x.result = "wrong" \/ x.late THEN RoundDiv(3 * base, 320)
       ELSE whole + MapThenSumSet(LAMBDA s : RoundDiv(base * s.of, 640), Shares(x))
                  + (IF x.rested > 0 THEN Min({whole, x.rested}) ELSE 0)

\* to_next and account_level.
ToNext(level) == 250 + 50 * Min({level, 25})
UpTo(level) == MapThenSumSet(ToNext, 1 .. level - 1)
AccountLevel(xp) ==
    LET level == CHOOSE l \in 1 .. xp \div 300 + 1 : UpTo(l) <= xp /\ xp < UpTo(l + 1)
    IN [level |-> level, into |-> xp - UpTo(level), needs |-> ToNext(level)]

\* difficulty: a prior from the kind and the time (0 for none), pulled to how people did after MIN_SAMPLE.
Difficulty(kind, seconds, answered, right) ==
    LET timed == (IF kind = "numbers" THEN 4 ELSE 3)
                 + (IF seconds = 0 THEN 0 ELSE IF seconds >= 360 THEN 1 ELSE IF seconds <= 60 THEN -1 ELSE 0)
        prior == Min({5, Max({1, timed})})
        observed == 1 + Cardinality({fifths \in 1 .. 4 : 5 * right < fifths * answered})
    IN IF answered < 20 THEN prior ELSE RoundDiv(prior + 2 * observed, 3)

\* recalibrate: only each person's first graded answer in time counts, and none that a live table gave.
\* Answers are records [by, at, result, late, mode], no two of a person at the same `at`.
FirstAnswers(answers) ==
    LET counts == {a \in answers : a.result # "none" /\ ~a.late /\ a.mode # "live"}
    IN {a \in counts : \A b \in counts : b.by = a.by => a.at <= b.at}
Recalibrate(kind, seconds, difficulty, answers) ==
    LET first == FirstAnswers(answers)
    IN IF first = {} THEN difficulty
       ELSE Difficulty(kind, seconds, Cardinality(first), Cardinality({a \in first : a.result = "right"}))

-------------------------------------------------------------------------------
(* LP, in hundredths of what a sure miss would cost at stakes of one       *)

\* The divisions, from 0 to the top: how hard a wrong answer bites, in hundredths, and what still helps.
Divisions == 0 .. 15
Stakes(division) == 80 + 3 * division
Aids(division) ==
    {aid \in {"formulas", "learn_more", "hint"} :
        CASE aid = "formulas" -> division <= 4 [] aid = "learn_more" -> division <= 3 [] aid = "hint" -> division <= 9}

\* guess: a blind guess lands one time in this many; 0 when it never does.
Choose(n, k) == Cardinality(kSubset(k, 1 .. n))
Guess(kind, options, hint, right) ==
    CASE kind = "choice-one" ->
           LET n == IF hint THEN Min({options, 2}) ELSE options IN IF n > 1 THEN n ELSE 0
      [] kind = "choice-many" ->
           IF options < 2 THEN 0
           ELSE IF hint /\ right \in 1 .. options THEN Choose(options, right) ELSE 2 ^ options - 1
      [] OTHER -> IF hint THEN 2 ELSE 0

\* What a right answer gains and a wrong one costs, both over `odds * Sure` (over Sure when a guess never lands).
Odds(guess) == IF guess = 0 THEN 1 ELSE guess
Expected(guess, skill) == IF guess = 0 THEN skill ELSE Sure + (guess - 1) * skill
Gain(guess, skill, hint) == (Odds(guess) * Sure - Expected(guess, skill)) * (IF hint THEN 50 ELSE 100)
Loss(guess, skill, stakes) == Expected(guess, skill) * stakes

\* What a blind guess loses on average, times the odds.
Blind(gain, loss, guess) == IF guess = 0 THEN loss ELSE (guess - 1) * loss - gain

\* bad_run, in hundredths rounded down: the cushion halves a loss and the comeback adds half a gain, both
\* as far as a blind guess still loses half of what it did.
BadRun(gain, loss, guess) ==
    LET moved == IF guess = 0 THEN loss ELSE gain + (guess - 1) * loss
    IN IF moved <= 0 THEN 0 ELSE Max({0, Min({100, (100 * Blind(gain, loss, guess)) \div moved})})

\* lp_award of a graded answer, in 1/200 of the unit above.
LpAward(right, late, passed, again, guess, skill, stakes, hint, misses) ==
    LET g == Gain(guess, skill, hint)
        l == Loss(guess, skill, stakes)
        down == IF misses >= 3 THEN BadRun(g, l, guess) ELSE 0
        gain == g * (200 + down)
        loss == l * (200 - down)
        blind == Max({0, Blind(gain, loss, guess)})
    IN IF right /\ ~late /\ ~passed THEN IF again THEN 0 ELSE gain
       ELSE IF passed /\ ~late THEN -Min({loss \div 2, blind \div Odds(guess)})
       ELSE -loss

NextMissStreak(streak, result, passed, late) ==
    IF result = "none" \/ (passed /\ ~late) THEN streak
    ELSE IF result = "right" /\ ~late THEN 0 ELSE streak + 1

-------------------------------------------------------------------------------
(* What the rules promise, for the inputs given                            *)

\* A right answer in time pays the most, a wrong one no less than a pass, and what is not answered or was
\* already graded today nothing.
PaysForAnswers(x) ==
    LET Xp_(result, passed, late) == XpAward([x EXCEPT !.result = result, !.passed = passed, !.late = late])
        right == Xp_("right", FALSE, FALSE)
        wrong == Xp_("wrong", FALSE, FALSE)
    IN /\ wrong <= right /\ Xp_("wrong", TRUE, FALSE) <= wrong
       /\ Xp_("right", FALSE, TRUE) = wrong
       /\ x.answered /\ ~x.again => right > 0
       /\ ~x.answered \/ x.again => right = 0 /\ wrong = 0

\* A hint and an answer given before never pay more.
HelpPaysNoMore(x) == XpAward([x EXCEPT !.hint = TRUE]) <= XpAward([x EXCEPT !.hint = FALSE])
                     /\ XpAward([x EXCEPT !.repeat = TRUE]) <= XpAward([x EXCEPT !.repeat = FALSE])

\* A blind guess never pays on average, in a bad run either (rank.py: "a blind guess never pays"), and "I'm
\* not sure" costs something, unless a hint gave every option away, but no more than a wrong answer.
GuessingNeverPays(guess, skill, stakes, hint, misses) ==
    LET Lp(right, passed) == LpAward(right, FALSE, passed, FALSE, guess, skill, stakes, hint, misses)
    IN /\ guess # 0 => Lp(TRUE, FALSE) + (guess - 1) * Lp(FALSE, FALSE) <= 0
       /\ guess # 1 => Lp(FALSE, TRUE) < 0
       /\ Lp(FALSE, FALSE) <= Lp(FALSE, TRUE) /\ Lp(FALSE, TRUE) <= 0 /\ Lp(TRUE, FALSE) >= 0

\* Levels never go down, and the XP into one is what is left of the levels before it.
LevelsAdd(xp) ==
    LET here == AccountLevel(xp)  next == AccountLevel(xp + 1)
    IN /\ here.into \in 0 .. here.needs - 1
       /\ next.level >= here.level
       /\ next.level = here.level => next.into = here.into + 1

\* "One training wheel at a time": what helps goes as the stakes rise, and comes back on the way down.
WheelsComeOff(division) ==
    /\ Aids(division + 1) \subseteq Aids(division) /\ Cardinality(Aids(division) \ Aids(division + 1)) <= 1
    /\ Stakes(division) < Stakes(division + 1)

\* Nobody moves a question's difficulty by answering it again (xp.py: "nobody can drag a question's difficulty").
NobodyDrags(answers, again) ==
    (\E a \in FirstAnswers(answers) : a.by = again.by /\ a.at < again.at) =>
        FirstAnswers(answers \union {again}) = FirstAnswers(answers)

\* The more people get it right, the easier.
FollowsTheAnswers(kind, seconds, answered, right) ==
    /\ Difficulty(kind, seconds, answered, right) \in Difficulties
    /\ Difficulty(kind, seconds, answered, right + 1) <= Difficulty(kind, seconds, answered, right)
===============================================================================
