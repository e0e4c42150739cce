--------------------------------- MODULE Rank ---------------------------------
(***************************************************************************)
(* A player's rank points across the seasons (domain/rank.py, season.py,   *)
(* services/xp.py, accounts.py).  A new season takes points back from      *)
(* everyone, and three things may be the first to do it: an answer, the    *)
(* nightly job, and an admin who changes the player's position; until one  *)
(* has, whatever shows the rank works it out.  An answer belongs to the    *)
(* season its play started in.  A higher position on the team lifts the    *)
(* rank, and taking it back takes the lift back.                           *)
(*                                                                         *)
(* Each change holds the player's row lock, so each is one action; the     *)
(* nightly job lists the players it will reset and locks them later.  How  *)
(* many LP an answer is worth is any of Moves; points have no fractions.   *)
(***************************************************************************)
EXTENDS Integers, FiniteSets, FiniteSetsExt

CONSTANTS
    Ladder,         \* the divisions in which the positions on the team are placed, lowest first
    Division,       \* the points of a division
    Top,            \* the division past the last
    SeasonDrop,     \* what a new season takes back
    Seasons,        \* the last season modelled
    Moves,          \* the LP an answer may be worth
    MaxPoints,      \* a bound
    None

Positions == DOMAIN Ladder

ASSUME RankAssumption ==
    /\ IsFiniteSet(Positions) /\ Positions = 1 .. Cardinality(Positions) /\ Positions # {}
    /\ \A p \in Positions : Ladder[p] \in 0 .. Top /\ (p - 1 \in Positions => Ladder[p - 1] < Ladder[p])
    /\ Division \in Nat \ {0} /\ Top \in Nat \ {0} /\ SeasonDrop \in Nat
    /\ Seasons \in Nat \ {0} /\ Moves \subseteq Int /\ 0 \in Moves
    /\ MaxPoints \in Nat /\ Division <= MaxPoints

VARIABLES
    season,     \* the season it is
    points,     \* rank_points
    placedIn,   \* rank_season: the season the points are of; 0 from before there was a rank
    position,
    best,       \* rank_best, the highest division reached in that season
    lifts,      \* position_lifts: what each position crossed gave, and in which season
    active,     \* the account's status
    started,    \* the season in which the daily question or mock run being played started, or 0
    listed,     \* the season for which the nightly job has listed the player, or 0
    lp,         \* history: the LP of this step's answer
    raised      \* history: before they were raised: position, points, and the LP since

rankVars == <<season, points, placedIn, position, best, lifts, active, started, listed, lp, raised>>

Larger(a, b) == IF a >= b THEN a ELSE b
Smaller(a, b) == IF a <= b THEN a ELSE b

\* placement: half a division in, so that one slip does not demote.
Placement(p) == Ladder[p] * Division + Division \div 2

\* division_of.
DivisionOf(x) == Smaller(x \div Division, Top)

SeasonReset(x, p) == Larger(Smaller(Placement(p), x), Smaller(x, Top * Division) - SeasonDrop)

\* current_points.
CurrentPoints(at) ==
    IF placedIn = 0 THEN Larger(points, Placement(position))
    ELSE IF placedIn = at THEN points ELSE SeasonReset(points, position)

\* The rank that is shown.
Standing == CurrentPoints(season)

\* `best` of a player who starts a season with this change.
Best(at) == IF placedIn = at THEN best ELSE DivisionOf(CurrentPoints(at))

\* Registered this season, or placed by the migration.
RankInit ==
    /\ season = 1 /\ position \in Positions
    /\ \/ placedIn = 1 /\ points = Placement(position) /\ best = DivisionOf(points)
       \/ placedIn = 0 /\ points \in {0, Division} /\ best = 0
    /\ lifts = [season |-> 0, of |-> <<>>]
    /\ active = TRUE /\ started = 0 /\ listed = 0
    /\ lp = 0 /\ raised = None

-------------------------------------------------------------------------------
(* Answers                                                                 *)

\* A daily question or a mock run is started.
Start ==
    /\ started = 0
    /\ started' = season
    /\ lp' = 0
    /\ UNCHANGED <<season, points, placedIn, position, best, lifts, active, listed, raised>>

\* grant: unless the player has moved on to a later season, the answer is of the one it started in.
Grant(startedIn, move) ==
    LET at == IF startedIn < placedIn THEN season ELSE startedIn
        now == CurrentPoints(at)
        after == Larger(0, now + move)
    IN /\ after <= MaxPoints
       /\ points' = after /\ placedIn' = at
       /\ best' = Larger(Best(at), DivisionOf(after))
       /\ lp' = after - now
       /\ raised' = IF raised = None \/ at # season \/ raised.points + after - now < 0 THEN None
                    ELSE [raised EXCEPT !.points = @ + after - now]

\* The daily question's answer ends the play; a mock run's need not.
Answer(move) ==
    /\ active /\ started # 0
    /\ Grant(started, move)
    /\ started' \in {0, started}
    /\ UNCHANGED <<season, position, lifts, active, listed>>

\* Practice and live answers move no LP, and start the season.
AnswerUnranked ==
    /\ active
    /\ Grant(season, 0)
    /\ UNCHANGED <<season, position, lifts, active, started, listed>>

-------------------------------------------------------------------------------
(* Positions                                                               *)

Crossed(p, q) == {r \in Positions : Smaller(p, q) < r /\ r <= Larger(p, q)}

\* The lifts that still count: those of this season.
Lifts == IF lifts.season = season THEN lifts.of ELSE <<>>

Reached(x, p) == Larger(x, Placement(p))

\* reposition, up: what each position crossed adds.
Raised(x, p) ==
    [r \in DOMAIN Lifts \union Crossed(position, p) |->
        IF r \notin Crossed(position, p) THEN Lifts[r]
        ELSE Reached(x, r) - (IF r - 1 = position THEN x ELSE Reached(x, r - 1))]

\* A slip: a lower position takes the gap between the placements, whatever the raise gave.
HeadStart(r) == Placement(r) - Placement(r - 1)

\* What a position gave: its lift, or its whole head start if it is not from this season.
Given(r) == IF r \in DOMAIN Lifts THEN Lifts[r] ELSE Placement(r) - Placement(r - 1)

\* reposition, down.
Lowered(x, p) == Larger(x - MapThenSumSet(Given, Crossed(position, p)), 0)

\* A slip: what they reach by being placed counts as a promotion.
BestAlone(p) == Best(season)

\* rank_best, of a player placed and not promoted.
BestPlaced(p) == Larger(Best(season), DivisionOf(Placement(p)))

\* _set_position.
SetPosition(p) ==
    /\ p # position
    /\ LET x == Standing IN
       /\ points' = IF p > position THEN Reached(x, p) ELSE Lowered(x, p)
       /\ lifts' = [season |-> season,
                    of |-> IF p > position THEN Raised(x, p)
                           ELSE [r \in DOMAIN Lifts \ Crossed(position, p) |-> Lifts[r]]]
       /\ raised' = IF p > position /\ raised = None THEN [position |-> position, points |-> x]
                    ELSE IF raised # None /\ p < raised.position THEN None ELSE raised
    /\ position' = p /\ placedIn' = season /\ best' = BestPlaced(p)
    /\ lp' = 0
    /\ UNCHANGED <<season, active, started, listed>>

\* An account is closed, or opened again.
SetStatus ==
    /\ active' = ~ active
    /\ lp' = 0
    /\ UNCHANGED <<season, points, placedIn, position, best, lifts, started, listed, raised>>

-------------------------------------------------------------------------------
(* Seasons                                                                 *)

\* 1 September.  Nobody plays one question or run for a year.
NewSeason ==
    /\ season < Seasons /\ started \in {0, season}
    /\ season' = season + 1
    /\ lp' = 0 /\ raised' = None
    /\ UNCHANGED <<points, placedIn, position, best, lifts, active, started, listed>>

\* rollover lists the players who are due.
ListDue ==
    /\ listed = 0 /\ active /\ placedIn \notin {0, season}
    /\ listed' = season
    /\ lp' = 0
    /\ UNCHANGED <<season, points, placedIn, position, best, lifts, active, started, raised>>

\* A slip: whoever was listed is reset.
DueWhenListed == TRUE

\* An answer or a new position has not reset them meanwhile.
StillDue == placedIn \notin {0, listed}

\* rollover, one player; the job takes less than a season.
Rollover ==
    /\ listed = season
    /\ listed' = 0
    /\ IF StillDue
         THEN /\ points' = SeasonReset(points, position)
              /\ best' = DivisionOf(SeasonReset(points, position))
              /\ placedIn' = season
         ELSE UNCHANGED <<points, best, placedIn>>
    /\ lp' = 0
    /\ UNCHANGED <<season, position, lifts, active, started, raised>>

\* The job fails before it reaches the player, for one listed before them was deleted.
JobFails ==
    /\ listed # 0
    /\ listed' = 0
    /\ lp' = 0
    /\ UNCHANGED <<season, points, placedIn, position, best, lifts, active, started, raised>>

RankNext ==
    \/ Start \/ (\E move \in Moves : Answer(move)) \/ AnswerUnranked
    \/ (\E p \in Positions : SetPosition(p)) \/ SetStatus
    \/ NewSeason \/ ListDue \/ Rollover \/ JobFails

RankSpec == RankInit /\ [][RankNext]_rankVars

-------------------------------------------------------------------------------
(* Properties                                                              *)

\* The types; and `best` is no lower than the rank of its season, or the next answer would be a promotion
\* into a division the player already has.
RankTypeOK ==
    /\ season \in 1 .. Seasons /\ placedIn \in 0 .. season /\ position \in Positions
    /\ points \in 0 .. MaxPoints + Division * Top /\ best \in 0 .. Top
    /\ lifts.season \in 0 .. season /\ DOMAIN lifts.of \subseteq Positions
    /\ \A r \in DOMAIN lifts.of : lifts.of[r] \in Nat
    /\ active \in BOOLEAN /\ started \in 0 .. season /\ listed \in 0 .. season
    /\ placedIn # 0 => best >= DivisionOf(points)

\* Whatever starts the season for a player first, the rank shown stays the same but for the LP of an
\* answer: the new season takes its points once, and never between what a page shows and the next one.
TheRankMovesByItsAnswers ==
    [][placedIn' = season /\ season' = season /\ position' = position => Standing' = Standing + lp']_rankVars

\* Raises that are taken back in the same season leave the rank where it would be without them, whatever
\* was answered in between: rank.py:116, "undoing a mistaken raise puts them back where they were".
UndoneRaisesCostNothing ==
    raised # None /\ position = raised.position => Standing = raised.points
===============================================================================
