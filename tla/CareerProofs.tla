------------------------------ MODULE CareerProofs ------------------------------
(***************************************************************************)
(* Proofs about what answers earn a player over days and seasons: the rank *)
(* points, the first wins, the rested XP and what a hint costs, for any    *)
(* ladder, any number of days and of requests at the same time.            *)
(***************************************************************************)
EXTENDS MCCareer, FiniteSetTheorems, Sums, TLAPS

-------------------------------------------------------------------------------
(* Awards: the invariant                                                   *)

\* Whoever has seen a hint is known to have; a request that was sent after it carries it, or the hint
\* of the practice question is still to be spent, or another answer to that question came first.
HintsAreRecorded ==
    /\ \A d \in hints : d # 0 => daily[d].hint
    /\ 0 \in hints => practised.hint

RequestsCarryHints ==
    /\ call = [r \in Calls |-> call[r]]
    /\ \A r \in Calls :
          \/ call[r].step = "quiet"
          \/ call[r].step = "hint" /\ call[r].day \in Dates
          \/ /\ call[r].step = "daily" /\ call[r].day \in Dates /\ call[r].now \in Dates
             /\ call[r].hint \in BOOLEAN /\ call[r].knew \in BOOLEAN /\ (call[r].knew => call[r].hint)
          \/ /\ call[r].step = "practice" /\ call[r].now \in Dates
             /\ call[r].knew \in BOOLEAN /\ (call[r].knew => practised.hint \/ practised.on # {})

\* A first-win bonus is of a win.
BonusesAreOfWins ==
    /\ earned = [wins |-> earned.wins, answers |-> earned.answers, away |-> earned.away]
    /\ earned.wins \in [Dates -> Nat]
    /\ \A d \in Dates : earned.wins[d] <= wins[d] /\ earned.wins[d] <= FirstWins

\* Days that were answered for, or credited as away, are not after the day the bank is settled to.
SettledDaysAreBehind ==
    /\ earned.answers \union earned.away \subseteq Dates
    /\ \A d \in earned.answers \union earned.away : d <= restedOn

NothingAmiss == amiss = [free |-> FALSE, away |-> FALSE]

AInv ==
    /\ AwardsTypeOK /\ HintsAreRecorded /\ RequestsCarryHints /\ BonusesAreOfWins
    /\ SettledDaysAreBehind /\ NothingAmiss

-------------------------------------------------------------------------------
(* Awards: what an answer leaves                                           *)

LEMMA TheLarger ==
    ASSUME NEW x \in Int, NEW y \in Int
    PROVE  Max({x, y}) \in {x, y} /\ Max({x, y}) >= x /\ Max({x, y}) >= y
<1>1. \E m \in {x, y} : \A z \in {x, y} : m >= z
  <2>1. CASE x >= y
    BY <2>1
  <2>2. CASE ~ x >= y
    BY <2>2
  <2> QED
    BY <2>1, <2>2
<1> QED
  BY <1>1 DEF Max

LEMMA TheSmaller ==
    ASSUME NEW x \in Int, NEW y \in Int
    PROVE  Min({x, y}) \in {x, y} /\ Min({x, y}) <= x /\ Min({x, y}) <= y
<1>1. \E m \in {x, y} : \A z \in {x, y} : m <= z
  <2>1. CASE x <= y
    BY <2>1
  <2>2. CASE ~ x <= y
    BY <2>2
  <2> QED
    BY <2>1, <2>2
<1> QED
  BY <1>1 DEF Min

\* The wins since a day are no fewer than that day's.
LEMMA WinsAddUp ==
    ASSUME wins \in [Dates -> Nat], NEW now \in Dates
    PROVE  WinsSince(now) \in Nat /\ wins[now] <= WinsSince(now)
<1> DEFINE T == now .. LastDate
           f == [d \in T |-> wins[d]]
           P(g) == g = [s \in SUBSET T |->
                          IF s = {} THEN 0
                          ELSE wins[CHOOSE x \in s : TRUE] + g[s \ {CHOOSE x \in s : TRUE}]]
           it == CHOOSE g : P(g)
<1>1. IsFiniteSet(T) /\ T \subseteq Dates /\ now \in T
  <2>1. now \in Int /\ LastDate \in Int /\ 1 <= now /\ now <= LastDate
    BY AwardsAssumption DEF Dates
  <2> QED
    BY <2>1, FS_Interval DEF Dates
<1>2. WinsSince(now) = it[T]
  BY DEF WinsSince, MapThenSumSet, MapThenFoldSet
<1>3. \A s \in SUBSET T : s # {} => f[First(s)] = wins[CHOOSE x \in s : TRUE]
  <2> TAKE s \in SUBSET T
  <2> HAVE s # {}
  <2>1. First(s) \in T
    BY FirstIsIn
  <2>2. f[First(s)] = wins[First(s)]
    BY <2>1
  <2> QED
    BY <2>2 DEF First
<1>4. \A g : P(g) <=> Adds(g, f, T)
  <2> TAKE g
  <2> DEFINE A == [s \in SUBSET T |->
                     IF s = {} THEN 0
                     ELSE wins[CHOOSE x \in s : TRUE] + g[s \ {CHOOSE x \in s : TRUE}]]
             B == [s \in SUBSET T |-> IF s = {} THEN 0 ELSE f[First(s)] + g[s \ {First(s)}]]
  <2>1. \A s \in SUBSET T : A[s] = B[s]
    BY <1>3 DEF First
  <2>2. A = B
    BY <2>1
  <2> QED
    BY <2>2 DEF Adds
<1>5. DOMAIN f = T /\ (\A d \in T : f[d] \in Nat) /\ f[now] = wins[now]
  BY <1>1
<1> HIDE DEF T, f
<1>6. it = CHOOSE g : Adds(g, f, T)
  <2> HIDE DEF P
  <2> QED
    BY <1>4
<1>7. SumOf(f) = it[T]
  BY <1>5, <1>6 DEF SumOf
<1>8. SumOf(f) \in Nat /\ f[now] <= SumOf(f)
  BY <1>1, <1>5, SumOfNaturals
<1> QED
  BY <1>2, <1>5, <1>7, <1>8

\* What an answer (or an attempt left to run out) may be.
Answered == [day : Dates, now : Dates, right : BOOLEAN, answered : BOOLEAN, hint : BOOLEAN,
             repeat : BOOLEAN, again : BOOLEAN, knew : BOOLEAN]

\* Types of what a grant leaves, and what the two properties say of it.
Granted ==
    /\ wins \in [Dates -> Nat] /\ bank \in 0 .. RestedCap /\ restedOn \in 0 .. LastDate
    /\ BonusesAreOfWins /\ SettledDaysAreBehind /\ NothingAmiss

LEMMA DaysAwayAreNew ==
    ASSUME AInv, NEW day \in Dates
    PROVE  /\ DaysAway(day) \subseteq Dates /\ (\A d \in DaysAway(day) : d < day)
           /\ DaysAway(day) \intersect (earned.answers \union earned.away) = {}
           /\ Cardinality(DaysAway(day)) \in Nat
<1>1. restedOn \in Nat /\ Dates \subseteq Nat \ {0}
  BY AwardsAssumption DEF AInv, AwardsTypeOK, Dates
<1>2. DaysAway(day) \subseteq Dates /\ \A d \in DaysAway(day) : d < day
  BY DEF DaysAway
<1>3. Cardinality(DaysAway(day)) \in Nat
  <2>1. IsFiniteSet(Dates)
    BY AwardsAssumption, FS_Interval DEF Dates
  <2> QED
    BY <1>2, <2>1, FS_Subset, FS_CardinalityType
<1>4. \A d \in DaysAway(day) : restedOn # 0 => restedOn < d
  BY DEF DaysAway, LastPlay
<1>5. \A d \in earned.answers \union earned.away : d \in Dates /\ d <= restedOn
  BY DEF AInv, SettledDaysAreBehind
<1>6. \A d \in earned.answers \union earned.away : d \notin DaysAway(day)
  <2> SUFFICES ASSUME NEW d \in earned.answers \union earned.away, d \in DaysAway(day) PROVE FALSE
    OBVIOUS
  <2>1. d \in Nat \ {0} /\ d <= restedOn
    BY <1>1, <1>5
  <2>2. restedOn # 0
    BY <1>1, <2>1
  <2>3. restedOn < d
    BY <1>4, <2>2
  <2> QED
    BY <1>1, <2>1, <2>3
<1>7. DaysAway(day) \intersect (earned.answers \union earned.away) = {}
  BY <1>6
<1> QED
  BY <1>2, <1>3, <1>7

\* An answer that was sent after its hint carries it, or does not come first, leaves nothing amiss.
LEMMA Grants ==
    ASSUME AInv, NEW a \in Answered, GrantXp(a), a.knew => a.hint \/ a.repeat
    PROVE  Granted'
<1> DEFINE away == DaysAway(a.day)
           stays == RestedBank(away)
           right == a.answered /\ a.right
           paid == a.answered /\ ~a.again
           bonus == right /\ WinsSince(a.now) < FirstWins
           rests == right /\ paid /\ stays > 0
<1>1. /\ a.day \in Dates /\ a.now \in Dates
      /\ a.right \in BOOLEAN /\ a.answered \in BOOLEAN /\ a.hint \in BOOLEAN /\ a.repeat \in BOOLEAN
      /\ a.again \in BOOLEAN /\ a.knew \in BOOLEAN
  BY DEF Answered
<1>2. /\ away \subseteq Dates /\ (\A d \in away : d < a.day)
      /\ away \intersect (earned.answers \union earned.away) = {} /\ Cardinality(away) \in Nat
  BY <1>1, DaysAwayAreNew
<1>3. /\ wins \in [Dates -> Nat] /\ bank \in 0 .. RestedCap /\ restedOn \in 0 .. LastDate
      /\ RestedCap \in Nat /\ LastDate \in Nat /\ Dates = 1 .. LastDate /\ FirstWins \in Nat
  BY AwardsAssumption DEF AInv, AwardsTypeOK, Dates
<1>4. stays \in 0 .. RestedCap
  <2> DEFINE n == bank + Cardinality(away)
  <2>1. n \in Nat /\ RestedCap \in Nat
    BY <1>2, <1>3
  <2> HIDE DEF n
  <2>2. Min({RestedCap, n}) \in {RestedCap, n} /\ Min({RestedCap, n}) <= RestedCap
    BY <2>1, TheSmaller
  <2>3. Min({RestedCap, n}) \in 0 .. RestedCap
    BY <2>1, <2>2
  <2> QED
    BY <2>3 DEF RestedBank, n
<1>5. WinsSince(a.now) \in Nat /\ wins[a.now] <= WinsSince(a.now)
  BY <1>1, <1>3, WinsAddUp
<1>6. /\ wins' = [wins EXCEPT ![a.now] = @ + IF right /\ paid THEN 1 ELSE 0]
      /\ IF a.answered
           THEN /\ bank' = stays - IF rests THEN 1 ELSE 0
                /\ restedOn' = RestedAt(a.day)
                /\ earned' = [wins |-> [earned.wins EXCEPT ![a.now] = @ + IF bonus /\ paid THEN 1 ELSE 0],
                              answers |-> earned.answers \union {a.day}, away |-> earned.away \union away]
           ELSE UNCHANGED <<bank, restedOn, earned>>
      /\ amiss' = [free |-> a.knew /\ right /\ paid /\ ~a.hint /\ ~a.repeat,
                   away |-> a.answered /\ away \intersect (earned.answers \union earned.away) # {}]
  BY DEF GrantXp
<1> HIDE DEF away, stays
<1>7. wins' \in [Dates -> Nat] /\ \A d \in Dates : wins'[d] = wins[d] + IF right /\ paid /\ d = a.now THEN 1 ELSE 0
  <2> DEFINE plus == IF right /\ paid THEN 1 ELSE 0
  <2>1. plus \in {0, 1}
    OBVIOUS
  <2>2. wins' = [wins EXCEPT ![a.now] = @ + plus]
    BY <1>6
  <2>3. plus = IF right /\ paid THEN 1 ELSE 0
    OBVIOUS
  <2> HIDE DEF plus, right, paid
  <2> QED
    BY <1>1, <1>3, <2>1, <2>2, <2>3
<1>8. NothingAmiss'
  <2>1. (a.knew /\ right /\ paid /\ ~a.hint /\ ~a.repeat) = FALSE
    BY <1>1
  <2>2. (a.answered /\ away \intersect (earned.answers \union earned.away) # {}) = FALSE
    BY <1>1, <1>2
  <2> QED
    BY <1>6, <2>1, <2>2 DEF NothingAmiss
<1>9. CASE ~ a.answered
  <2>1. UNCHANGED <<bank, restedOn, earned>>
    BY <1>6, <1>9
  <2>2. BonusesAreOfWins' /\ SettledDaysAreBehind'
    BY <1>3, <1>7, <2>1, <1>9 DEF AInv, BonusesAreOfWins, SettledDaysAreBehind
  <2> QED
    BY <1>3, <1>7, <1>8, <2>1, <2>2 DEF Granted
<1>10. CASE a.answered
  <2>1. /\ bank' = stays - IF rests THEN 1 ELSE 0
        /\ restedOn' = RestedAt(a.day)
        /\ earned' = [wins |-> [earned.wins EXCEPT ![a.now] = @ + IF bonus /\ paid THEN 1 ELSE 0],
                      answers |-> earned.answers \union {a.day}, away |-> earned.away \union away]
    BY <1>6, <1>10
  <2>2. bank' \in 0 .. RestedCap
    BY <1>3, <1>4, <2>1
  <2>3. restedOn' \in 0 .. LastDate /\ restedOn' >= restedOn /\ restedOn' >= a.day
    <3>1. a.day \in Int /\ restedOn \in Int
      BY <1>1, <1>3
    <3>2. RestedAt(a.day) \in {a.day, restedOn} /\ RestedAt(a.day) >= a.day /\ RestedAt(a.day) >= restedOn
      BY <3>1, TheLarger DEF RestedAt
    <3> QED
      BY <1>1, <1>3, <2>1, <3>2
  <2>4. SettledDaysAreBehind'
    <3>1. earned'.answers = earned.answers \union {a.day} /\ earned'.away = earned.away \union away
      BY <2>1
    <3>2. \A d \in earned.answers \union earned.away : d \in Dates /\ d <= restedOn
      BY DEF AInv, SettledDaysAreBehind
    <3>3. \A d \in earned'.answers \union earned'.away : d \in Dates /\ d <= restedOn'
      <4> TAKE d \in earned'.answers \union earned'.away
      <4>1. d \in earned.answers \union earned.away \/ d = a.day \/ d \in away
        BY <3>1
      <4>2. d \in Dates
        BY <1>1, <1>2, <3>2, <4>1
      <4>3. d \in Int /\ a.day \in Int /\ restedOn \in Int /\ restedOn' \in Int
        BY <1>1, <1>3, <2>3, <4>2
      <4>4. d <= restedOn \/ d <= a.day
        BY <1>2, <3>2, <4>1, <4>3
      <4> QED
        BY <2>3, <4>2, <4>3, <4>4
    <3> QED
      BY <3>3 DEF SettledDaysAreBehind
  <2>5. BonusesAreOfWins'
    <3> DEFINE plus == IF bonus /\ paid THEN 1 ELSE 0
    <3>1. earned.wins \in [Dates -> Nat] /\ \A d \in Dates : earned.wins[d] <= wins[d] /\ earned.wins[d] <= FirstWins
      BY DEF AInv, BonusesAreOfWins
    <3>2. plus \in {0, 1} /\ (plus = 1 => right /\ paid /\ wins[a.now] < FirstWins)
      BY <1>1, <1>3, <1>5
    <3>3. earned'.wins = [earned.wins EXCEPT ![a.now] = @ + plus]
      BY <2>1
    <3> HIDE DEF plus, right, paid
    <3>4. /\ earned'.wins \in [Dates -> Nat]
          /\ \A d \in Dates : earned'.wins[d] = earned.wins[d] + IF d = a.now THEN plus ELSE 0
      BY <1>1, <3>1, <3>2, <3>3
    <3>5. \A d \in Dates : earned'.wins[d] <= wins'[d] /\ earned'.wins[d] <= FirstWins
      <4> TAKE d \in Dates
      <4>1. wins[d] \in Nat /\ earned.wins[d] \in Nat /\ earned.wins[d] <= wins[d] /\ earned.wins[d] <= FirstWins
        BY <1>3, <3>1
      <4>2. CASE d = a.now /\ plus = 1
        <5>1. right /\ paid /\ wins[d] < FirstWins
          BY <3>2, <4>2
        <5>2. earned'.wins[d] = earned.wins[d] + 1 /\ wins'[d] = wins[d] + 1
          BY <1>7, <3>4, <4>2, <5>1
        <5> QED
          BY <1>3, <4>1, <5>1, <5>2
      <4>3. CASE ~ (d = a.now /\ plus = 1)
        <5>1. earned'.wins[d] = earned.wins[d]
          BY <3>2, <3>4, <4>1, <4>3
        <5>2. wins'[d] >= wins[d] /\ wins'[d] \in Nat
          BY <1>7, <4>1
        <5> QED
          BY <1>3, <4>1, <5>1, <5>2
      <4> QED
        BY <4>2, <4>3
    <3>6. earned' = [wins |-> earned'.wins, answers |-> earned'.answers, away |-> earned'.away]
      BY <2>1
    <3> QED
      BY <3>4, <3>5, <3>6 DEF BonusesAreOfWins
  <2> QED
    BY <1>7, <1>8, <2>2, <2>3, <2>4, <2>5 DEF Granted
<1> QED
  BY <1>1, <1>9, <1>10

-------------------------------------------------------------------------------
(* Awards: every step                                                      *)

NothingMoves == UNCHANGED <<wins, bank, restedOn, earned, amiss>>

LEMMA NothingGranted ==
    ASSUME AInv, NothingMoves
    PROVE  Granted'
BY DEF AInv, AwardsTypeOK, Granted, NothingMoves, BonusesAreOfWins, SettledDaysAreBehind, NothingAmiss

\* Days, questions and hints.
AsksOK ==
    /\ date \in Dates /\ late \in BOOLEAN
    /\ daily \in [Dates -> [shown : BOOLEAN, hint : BOOLEAN, done : BOOLEAN]]
    /\ practised \in [on : SUBSET Dates, hint : BOOLEAN]
    /\ hints \subseteq 0 .. LastDate

LEMMA AwardsInParts == AInv <=> AsksOK /\ Granted /\ HintsAreRecorded /\ RequestsCarryHints
BY DEF AInv, AwardsTypeOK, AsksOK, Granted

LEMMA AwardsPartsAfter == (AsksOK /\ Granted /\ HintsAreRecorded /\ RequestsCarryHints)' => AInv'
BY AwardsInParts, PTL

\* What a request may carry, of the practice question p.
Carries(c, p) ==
    \/ c.step = "quiet"
    \/ c.step = "hint" /\ c.day \in Dates
    \/ /\ c.step = "daily" /\ c.day \in Dates /\ c.now \in Dates
       /\ c.hint \in BOOLEAN /\ c.knew \in BOOLEAN /\ (c.knew => c.hint)
    \/ /\ c.step = "practice" /\ c.now \in Dates
       /\ c.knew \in BOOLEAN /\ (c.knew => p.hint \/ p.on # {})

\* One request changes, and a hint of the practice question is only spent by an answer to it.
LEMMA RequestsGoOn ==
    ASSUME RequestsCarryHints, NEW r \in Calls, NEW c, call' = [call EXCEPT ![r] = c], Carries(c, practised'),
           practised'.on # {} \/ (practised.on = {} /\ (practised.hint => practised'.hint))
    PROVE  RequestsCarryHints'
<1>1. call = [q \in Calls |-> call[q]] /\ \A q \in Calls : Carries(call[q], practised)
  BY DEF RequestsCarryHints, Carries
<1>2. \A q \in Calls : call'[q] = IF q = r THEN c ELSE call[q]
  BY <1>1
<1>3. call' = [q \in Calls |-> call'[q]]
  <2> DEFINE f == [q \in Calls |-> IF q = r THEN c ELSE call[q]]
  <2>1. call' = f
    BY <1>1
  <2>2. f = [q \in Calls |-> f[q]]
    OBVIOUS
  <2> QED
    BY <2>1, <2>2
<1>4. \A q \in Calls : Carries(call[q], practised')
  BY <1>1 DEF Carries
<1>5. \A q \in Calls : Carries(call'[q], practised')
  BY <1>2, <1>4
<1> QED
  BY <1>3, <1>5 DEF RequestsCarryHints, Carries

LEMMA RequestsWait ==
    ASSUME RequestsCarryHints, UNCHANGED call,
           practised'.on # {} \/ (practised.on = {} /\ (practised.hint => practised'.hint))
    PROVE  RequestsCarryHints'
BY DEF RequestsCarryHints

LEMMA SamePractice ==
    ASSUME UNCHANGED practised
    PROVE  practised'.on # {} \/ (practised.on = {} /\ (practised.hint => practised'.hint))
OBVIOUS

LEMMA DailyIsTyped ==
    ASSUME AInv, NEW d \in Dates
    PROVE  /\ daily[d] \in [shown : BOOLEAN, hint : BOOLEAN, done : BOOLEAN]
           /\ daily[d].shown \in BOOLEAN /\ daily[d].hint \in BOOLEAN /\ daily[d].done \in BOOLEAN
<1>1. daily[d] \in [shown : BOOLEAN, hint : BOOLEAN, done : BOOLEAN]
  BY DEF AInv, AwardsTypeOK
<1> QED
  BY <1>1

\* One daily attempt is another, which keeps its hint.
LEMMA DailyChanges ==
    ASSUME AInv, NEW d \in Dates, NEW c \in [shown : BOOLEAN, hint : BOOLEAN, done : BOOLEAN],
           daily' = [daily EXCEPT ![d] = c], daily[d].hint => c.hint
    PROVE  /\ daily' \in [Dates -> [shown : BOOLEAN, hint : BOOLEAN, done : BOOLEAN]]
           /\ \A x \in Dates : daily[x].hint => daily'[x].hint
           /\ daily'[d] = c
BY DEF AInv, AwardsTypeOK

LEMMA AwardsStart == AwardsInit => AInv
<1> SUFFICES ASSUME AwardsInit PROVE AInv
  OBVIOUS
<1>1. LastDate \in Nat \ {0} /\ RestedCap \in Nat /\ FirstWins \in Nat
  BY AwardsAssumption
<1>2. AsksOK
  <2>1. date \in Dates /\ late \in BOOLEAN /\ hints \subseteq 0 .. LastDate
    <3>1. date = 1 /\ late = FALSE /\ hints = {}
      BY DEF AwardsInit
    <3>2. 1 \in Dates
      BY <1>1 DEF Dates
    <3> QED
      BY <3>1, <3>2
  <2>2. daily \in [Dates -> [shown : BOOLEAN, hint : BOOLEAN, done : BOOLEAN]]
    BY DEF AwardsInit, Unasked
  <2>3. practised \in [on : SUBSET Dates, hint : BOOLEAN]
    BY DEF AwardsInit
  <2> QED
    BY <2>1, <2>2, <2>3 DEF AsksOK
<1>3. Granted
  BY <1>1 DEF AwardsInit, Granted, BonusesAreOfWins, SettledDaysAreBehind, NothingAmiss
<1>4. RequestsCarryHints
  BY DEF AwardsInit, RequestsCarryHints, Quiet
<1>5. HintsAreRecorded
  BY DEF AwardsInit, HintsAreRecorded
<1> QED
  BY <1>2, <1>3, <1>4, <1>5, AwardsInParts

LEMMA SeenOrNot == \A d : \E knew \in BOOLEAN : knew = (d \in hints) /\ (knew => d \in hints)
<1> TAKE d
<1>1. CASE d \in hints
  <2>1. TRUE = (d \in hints)
    BY <1>1
  <2> QED
    BY <1>1, <2>1
<1>2. CASE d \notin hints
  <2>1. FALSE = (d \in hints)
    BY <1>2
  <2> QED
    BY <2>1
<1> QED
  BY <1>1, <1>2

\* Steps that score nothing.
LEMMA AwardsAsk ==
    ASSUME AInv,
           \/ ShowDaily \/ PracticeHint \/ NextDay \/ Later
           \/ \E r \in Calls :
                 \/ GiveHint(r) \/ Repeated(r) \/ SendPractice(r)
                 \/ \E d \in Dates : AskHint(r, d) \/ SendDaily(r, d)
    PROVE  AInv'
<1>1. Granted'
  <2>1. NothingMoves
    BY DEF ShowDaily, PracticeHint, NextDay, Later, GiveHint, Repeated, SendPractice, AskHint, SendDaily, NothingMoves
  <2> QED
    BY <2>1, NothingGranted
<1>2. AsksOK /\ HintsAreRecorded /\ RequestsCarryHints
  BY AwardsInParts
<1>3. LastDate \in Nat \ {0}
  BY AwardsAssumption
<1>4. ASSUME UNCHANGED <<date, late, daily, practised, hints>>, NEW r \in Calls, NEW c,
             call' = [call EXCEPT ![r] = c], Carries(c, practised)
      PROVE  AInv'
  <2>1. RequestsCarryHints'
    BY <1>2, <1>4, RequestsGoOn, SamePractice
  <2> QED
    BY <1>1, <1>2, <1>4, <2>1, AwardsPartsAfter DEF AsksOK, HintsAreRecorded
<1>5. CASE ShowDaily
  <2>1. PICK c : c = [daily[date] EXCEPT !.shown = TRUE]
    OBVIOUS
  <2>2. date \in Dates
    BY <1>2 DEF AsksOK
  <2>3. c \in [shown : BOOLEAN, hint : BOOLEAN, done : BOOLEAN] /\ (daily[date].hint => c.hint)
    BY <2>1, <2>2, DailyIsTyped
  <2>4. daily' = [daily EXCEPT ![date] = c]
    BY <1>5, <2>1 DEF ShowDaily
  <2>5. /\ daily' \in [Dates -> [shown : BOOLEAN, hint : BOOLEAN, done : BOOLEAN]]
        /\ \A x \in Dates : daily[x].hint => daily'[x].hint
    BY <2>2, <2>3, <2>4, DailyChanges
  <2>6. UNCHANGED <<date, late, practised, call, hints>>
    BY <1>5 DEF ShowDaily
  <2>7. RequestsCarryHints'
    BY <1>2, <2>6, RequestsWait, SamePractice
  <2>8. AsksOK' /\ HintsAreRecorded'
    BY <1>2, <1>3, <2>5, <2>6 DEF AsksOK, HintsAreRecorded, Dates
  <2> QED
    BY <1>1, <2>7, <2>8, AwardsPartsAfter
<1>6. CASE PracticeHint
  <2>1. /\ practised' = [practised EXCEPT !.hint = TRUE] /\ hints' = hints \union {0}
        /\ UNCHANGED <<date, late, daily, call>>
    BY <1>6 DEF PracticeHint
  <2>2. /\ practised' \in [on : SUBSET Dates, hint : BOOLEAN] /\ practised'.hint = TRUE
        /\ practised'.on = practised.on
    BY <1>2, <2>1 DEF AsksOK
  <2>3. RequestsCarryHints'
    BY <1>2, <2>1, <2>2, RequestsWait
  <2>4. AsksOK' /\ HintsAreRecorded'
    BY <1>2, <1>3, <2>1, <2>2 DEF AsksOK, HintsAreRecorded
  <2> QED
    BY <1>1, <2>3, <2>4, AwardsPartsAfter
<1>7. CASE NextDay \/ Later
  <2>1. UNCHANGED <<daily, practised, call, hints>> /\ date' \in Dates /\ late' \in BOOLEAN
    <3>1. CASE NextDay
      BY <1>2, <1>3, <3>1 DEF NextDay, AsksOK, Dates
    <3>2. CASE Later
      BY <1>2, <3>2 DEF Later, AsksOK
    <3> QED
      BY <1>7, <3>1, <3>2
  <2>2. RequestsCarryHints'
    BY <1>2, <2>1, RequestsWait, SamePractice
  <2> QED
    BY <1>1, <1>2, <2>1, <2>2, AwardsPartsAfter DEF AsksOK, HintsAreRecorded
<1>8. ASSUME NEW r \in Calls, GiveHint(r) PROVE AInv'
  <2>1. PICK d \in Dates : d = call[r].day
    BY <1>2, <1>8 DEF GiveHint, RequestsCarryHints
  <2>2. PICK c : c = [daily[d] EXCEPT !.hint = TRUE]
    OBVIOUS
  <2>3. c \in [shown : BOOLEAN, hint : BOOLEAN, done : BOOLEAN] /\ c.hint
    BY <2>2, DailyIsTyped
  <2>4. /\ daily' = [daily EXCEPT ![d] = c] /\ hints' = hints \union {d}
        /\ UNCHANGED <<date, late, practised>> /\ call' = [call EXCEPT ![r] = Quiet]
    BY <1>8, <2>1, <2>2 DEF GiveHint, Ends
  <2>5. /\ daily' \in [Dates -> [shown : BOOLEAN, hint : BOOLEAN, done : BOOLEAN]]
        /\ (\A x \in Dates : daily[x].hint => daily'[x].hint) /\ daily'[d] = c
    BY <2>3, <2>4, DailyChanges
  <2>6. Carries(Quiet, practised')
    BY DEF Carries, Quiet
  <2>7. RequestsCarryHints'
    BY <1>2, <2>4, <2>6, RequestsGoOn, SamePractice
  <2>8. AsksOK'
    BY <1>2, <1>3, <2>4, <2>5 DEF AsksOK, Dates
  <2>9. HintsAreRecorded'
    <3>1. \A x \in hints : x # 0 => x \in Dates
      BY <1>2, <1>3 DEF AsksOK, Dates
    <3>2. d # 0
      BY <1>3 DEF Dates
    <3> QED
      BY <1>2, <2>3, <2>4, <2>5, <3>1, <3>2 DEF HintsAreRecorded
  <2> QED
    BY <1>1, <2>7, <2>8, <2>9, AwardsPartsAfter
<1>9. ASSUME NEW r \in Calls, Repeated(r) PROVE AInv'
  <2>1. Carries(Quiet, practised)
    BY DEF Carries, Quiet
  <2> QED
    BY <1>4, <1>9, <2>1 DEF Repeated, Ends
<1>10. ASSUME NEW r \in Calls, SendPractice(r) PROVE AInv'
  <2>1. PICK knew \in BOOLEAN : knew = (0 \in hints) /\ (knew => 0 \in hints)
    BY SeenOrNot
  <2>2. PICK c : c = [step |-> "practice", now |-> date, knew |-> knew]
    OBVIOUS
  <2>3. Carries(c, practised)
    BY <1>2, <2>1, <2>2 DEF Carries, AsksOK, HintsAreRecorded
  <2>4. call' = [call EXCEPT ![r] = c] /\ UNCHANGED <<date, late, daily, practised, hints>>
    BY <1>10, <2>1, <2>2 DEF SendPractice, Asks
  <2> QED
    BY <1>4, <2>3, <2>4
<1>11. ASSUME NEW r \in Calls, NEW d \in Dates, AskHint(r, d) PROVE AInv'
  <2>1. PICK c : c = [step |-> "hint", day |-> d]
    OBVIOUS
  <2>2. Carries(c, practised)
    BY <2>1 DEF Carries
  <2>3. call' = [call EXCEPT ![r] = c] /\ UNCHANGED <<date, late, daily, practised, hints>>
    BY <1>11, <2>1 DEF AskHint, Asks
  <2> QED
    BY <1>4, <2>2, <2>3
<1>12. ASSUME NEW r \in Calls, NEW d \in Dates, SendDaily(r, d) PROVE AInv'
  <2>1. PICK knew \in BOOLEAN : knew = (d \in hints) /\ (knew => d \in hints)
    BY SeenOrNot
  <2>2. PICK c : c = [step |-> "daily", day |-> d, now |-> date, hint |-> daily[d].hint, knew |-> knew]
    OBVIOUS
  <2>3. Carries(c, practised)
    <3>1. daily[d].hint \in BOOLEAN
      BY DailyIsTyped
    <3>2. knew => daily[d].hint
      BY <1>2, <1>3, <2>1 DEF HintsAreRecorded, Dates
    <3> QED
      BY <1>2, <2>1, <2>2, <3>1, <3>2 DEF Carries, AsksOK
  <2>4. call' = [call EXCEPT ![r] = c] /\ UNCHANGED <<date, late, daily, practised, hints>>
    BY <1>12, <2>1, <2>2 DEF SendDaily, Asks
  <2> QED
    BY <1>4, <2>3, <2>4
<1> QED
  BY <1>5, <1>6, <1>7, <1>8, <1>9, <1>10, <1>11, <1>12

\* Steps that score an answer, or an attempt left to run out.
LEMMA AwardsScore ==
    ASSUME AInv,
           \/ \E d \in Dates : CloseDaily(d)
           \/ \E r \in Calls, right \in BOOLEAN : ScoreDaily(r, right) \/ ScorePractice(r, right)
    PROVE  AInv'
<1>1. AsksOK /\ HintsAreRecorded /\ RequestsCarryHints
  BY AwardsInParts
<1>2. LastDate \in Nat \ {0}
  BY AwardsAssumption
<1>3. Carries(Quiet, practised')
  BY DEF Carries, Quiet
<1>4. ASSUME NEW d \in Dates, CloseDaily(d) PROVE AInv'
  <2>1. PICK a : a = [day |-> date, now |-> date, right |-> FALSE, answered |-> FALSE, hint |-> FALSE,
                      repeat |-> FALSE, again |-> FALSE, knew |-> FALSE]
    OBVIOUS
  <2>2. a \in Answered /\ (a.knew => a.hint \/ a.repeat)
    BY <1>1, <2>1 DEF Answered, AsksOK
  <2>3. GrantXp(a)
    BY <1>4, <2>1 DEF CloseDaily
  <2>4. Granted'
    BY <2>2, <2>3, Grants
  <2>5. PICK c : c = [daily[d] EXCEPT !.done = TRUE]
    OBVIOUS
  <2>6. c \in [shown : BOOLEAN, hint : BOOLEAN, done : BOOLEAN] /\ (daily[d].hint => c.hint)
    BY <2>5, DailyIsTyped
  <2>7. daily' = [daily EXCEPT ![d] = c] /\ UNCHANGED <<date, late, practised, call, hints>>
    BY <1>4, <2>5 DEF CloseDaily
  <2>8. /\ daily' \in [Dates -> [shown : BOOLEAN, hint : BOOLEAN, done : BOOLEAN]]
        /\ \A x \in Dates : daily[x].hint => daily'[x].hint
    BY <2>6, <2>7, DailyChanges
  <2>9. RequestsCarryHints'
    BY <1>1, <2>7, RequestsWait, SamePractice
  <2>10. AsksOK' /\ HintsAreRecorded'
    BY <1>1, <1>2, <2>7, <2>8 DEF AsksOK, HintsAreRecorded, Dates
  <2> QED
    BY <2>4, <2>9, <2>10, AwardsPartsAfter
<1>5. ASSUME NEW r \in Calls, NEW right \in BOOLEAN, ScoreDaily(r, right) PROVE AInv'
  <2>1. PICK d \in Dates : d = call[r].day
    BY <1>1, <1>5 DEF ScoreDaily, RequestsCarryHints
  <2>2. /\ call[r].now \in Dates /\ call[r].hint \in BOOLEAN /\ call[r].knew \in BOOLEAN
        /\ (call[r].knew => call[r].hint)
    BY <1>1, <1>5 DEF ScoreDaily, RequestsCarryHints
  <2>3. PICK a : a = [day |-> d, now |-> call[r].now, right |-> right, answered |-> TRUE, hint |-> call[r].hint,
                      repeat |-> FALSE, again |-> FALSE, knew |-> call[r].knew]
    OBVIOUS
  <2>4. a \in Answered /\ (a.knew => a.hint \/ a.repeat)
    BY <2>2, <2>3 DEF Answered
  <2>5. GrantXp(a)
    BY <1>5, <2>1, <2>3 DEF ScoreDaily
  <2>6. Granted'
    BY <2>4, <2>5, Grants
  <2>7. PICK c : c = [daily[d] EXCEPT !.done = TRUE]
    OBVIOUS
  <2>8. c \in [shown : BOOLEAN, hint : BOOLEAN, done : BOOLEAN] /\ (daily[d].hint => c.hint)
    BY <2>7, DailyIsTyped
  <2>9. /\ daily' = [daily EXCEPT ![d] = c] /\ UNCHANGED <<date, late, practised, hints>>
        /\ call' = [call EXCEPT ![r] = Quiet]
    BY <1>5, <2>1, <2>7 DEF ScoreDaily, Ends
  <2>10. /\ daily' \in [Dates -> [shown : BOOLEAN, hint : BOOLEAN, done : BOOLEAN]]
         /\ \A x \in Dates : daily[x].hint => daily'[x].hint
    BY <2>8, <2>9, DailyChanges
  <2>11. RequestsCarryHints'
    BY <1>1, <1>3, <2>9, RequestsGoOn, SamePractice
  <2>12. AsksOK' /\ HintsAreRecorded'
    BY <1>1, <1>2, <2>9, <2>10 DEF AsksOK, HintsAreRecorded, Dates
  <2> QED
    BY <2>6, <2>11, <2>12, AwardsPartsAfter
<1>6. ASSUME NEW r \in Calls, NEW right \in BOOLEAN, ScorePractice(r, right) PROVE AInv'
  <2>1. PICK now \in Dates : now = call[r].now
    BY <1>1, <1>6 DEF ScorePractice, RequestsCarryHints
  <2>2. call[r].knew \in BOOLEAN /\ (call[r].knew => practised.hint \/ practised.on # {})
    BY <1>1, <1>6 DEF ScorePractice, RequestsCarryHints
  <2>3. practised.hint \in BOOLEAN /\ practised.on \subseteq Dates /\ practised = [on |-> practised.on, hint |-> practised.hint]
    BY <1>1 DEF AsksOK
  <2>4. PICK repeat \in BOOLEAN : repeat = (practised.on # {}) /\ (repeat <=> practised.on # {})
    <3>1. CASE practised.on # {}
      BY <3>1
    <3>2. CASE practised.on = {}
      BY <3>2
    <3> QED
      BY <3>1, <3>2
  <2>5. PICK again \in BOOLEAN : again = (\E d \in practised.on : d >= now)
    <3>1. CASE \E d \in practised.on : d >= now
      BY <3>1
    <3>2. CASE ~ \E d \in practised.on : d >= now
      BY <3>2
    <3> QED
      BY <3>1, <3>2
  <2>6. PICK a : a = [day |-> now, now |-> now, right |-> right, answered |-> TRUE, hint |-> practised.hint,
                      repeat |-> repeat, again |-> again, knew |-> call[r].knew]
    OBVIOUS
  <2>7. a \in Answered /\ (a.knew => a.hint \/ a.repeat)
    BY <2>2, <2>3, <2>4, <2>5, <2>6 DEF Answered
  <2>8. GrantXp(a)
    BY <1>6, <2>1, <2>4, <2>5, <2>6 DEF ScorePractice, Spent
  <2>9. Granted'
    BY <2>7, <2>8, Grants
  <2>10. /\ practised' = [on |-> practised.on \union {now}, hint |-> FALSE]
         /\ hints' = hints \ {0} /\ UNCHANGED <<date, late, daily>>
         /\ call' = [call EXCEPT ![r] = Quiet]
    BY <1>6, <2>1 DEF ScorePractice, Ends
  <2>11. practised'.on # {} /\ practised' \in [on : SUBSET Dates, hint : BOOLEAN]
    BY <2>3, <2>10
  <2>12. RequestsCarryHints'
    BY <1>1, <1>3, <2>10, <2>11, RequestsGoOn
  <2>13. AsksOK' /\ HintsAreRecorded'
    BY <1>1, <2>10, <2>11 DEF AsksOK, HintsAreRecorded
  <2> QED
    BY <2>9, <2>12, <2>13, AwardsPartsAfter
<1> QED
  BY <1>4, <1>5, <1>6

\* What answers earn is reasoned about with this: types, hints that are recorded and carried, and days that
\* are settled (Awards).
THEOREM AwardsInvariantHolds == AwardsSpec => []AInv
<1>1. AInv /\ [AwardsNext]_awardsVars => AInv'
  <2> SUFFICES ASSUME AInv, [AwardsNext]_awardsVars PROVE AInv'
    OBVIOUS
  <2>1. CASE AwardsNext
    BY <2>1, AwardsAsk, AwardsScore DEF AwardsNext
  <2>2. CASE UNCHANGED awardsVars
    BY <2>2 DEF awardsVars, AInv, AwardsTypeOK, HintsAreRecorded, RequestsCarryHints, BonusesAreOfWins,
                SettledDaysAreBehind, NothingAmiss
  <2> QED
    BY <2>1, <2>2
<1> QED
  BY AwardsStart, <1>1, PTL DEF AwardsSpec

\* An answer sent once its hint was on the screen is never paid in full, whichever of the requests under
\* way is scored first, and whatever spends the hint meanwhile (hints.py: spend_practice, timed; xp.py: grant).
THEOREM HintsCost == AwardsSpec => []HintsAlwaysCost
<1>1. AInv => HintsAlwaysCost
  BY DEF AInv, NothingAmiss, HintsAlwaysCost
<1> QED
  BY <1>1, AwardsInvariantHolds, PTL

\* However many requests of a day are scored in whichever order, also after midnight, it gives FIRST_WINS
\* first-win bonuses at most, and no day away is credited twice or once it was answered for
\* (xp.py: first_wins, rested, grant).
THEOREM BonusesStayRationed == AwardsSpec => []BonusesAreRationed
<1>1. AInv => BonusesAreRationed
  BY DEF AInv, BonusesAreOfWins, NothingAmiss, BonusesAreRationed
<1> QED
  BY <1>1, AwardsInvariantHolds, PTL

-------------------------------------------------------------------------------
(* Rank: the operators                                                     *)

\* No points are above this.
MostPoints == MaxPoints + Division * Top

LEMMA RankConstants ==
    /\ Cardinality(Positions) \in Nat
    /\ \A r : r \in Positions <=> r \in Int /\ 1 <= r /\ r <= Cardinality(Positions)
    /\ Division \in Nat \ {0} /\ Top \in Nat \ {0} /\ SeasonDrop \in Nat /\ Division <= MaxPoints
    /\ MaxPoints \in Nat /\ Seasons \in Nat \ {0} /\ Division * Top \in Nat /\ MostPoints \in Nat
<1>1. Cardinality(Positions) \in Nat
  BY RankAssumption, FS_CardinalityType
<1>2. Positions = 1 .. Cardinality(Positions)
  BY RankAssumption
<1>3. \A r : r \in Positions <=> r \in Int /\ 1 <= r /\ r <= Cardinality(Positions)
  BY <1>1, <1>2
<1>4. Division \in Nat \ {0} /\ Top \in Nat \ {0} /\ SeasonDrop \in Nat /\ Division <= MaxPoints
  BY RankAssumption
<1>5. MaxPoints \in Nat /\ Seasons \in Nat \ {0}
  BY RankAssumption
<1>6. Division * Top \in Nat
  BY <1>4
<1> QED
  BY <1>1, <1>3, <1>4, <1>5, <1>6 DEF MostPoints

LEMMA PlacementsGoUp ==
    ASSUME NEW p \in Positions
    PROVE  /\ Placement(p) \in Nat /\ Placement(p) <= MostPoints
           /\ p - 1 \in Positions => Placement(p - 1) \in Nat /\ Placement(p - 1) < Placement(p)
<1>1. /\ Ladder[p] \in Nat /\ Ladder[p] <= Top
      /\ p - 1 \in Positions => Ladder[p - 1] \in Nat /\ Ladder[p - 1] < Ladder[p]
  BY RankAssumption, RankConstants
<1>2. PICK h \in Nat : h = Division \div 2 /\ h <= Division
  BY RankConstants
<1>3. PICK D \in Nat \ {0} : D = Division
  BY RankConstants
<1>4. \A a, b \in Nat : a * D \in Nat /\ (a <= b => a * D <= b * D) /\ (a < b => a * D < b * D)
  BY <1>3
<1>5. Ladder[p] * D \in Nat /\ Ladder[p] * D <= Top * D
  BY <1>1, <1>4, RankConstants
<1>6. Top * D = Division * Top
  BY <1>3, RankConstants
<1>7. p - 1 \in Positions => Ladder[p - 1] * D \in Nat /\ Ladder[p - 1] * D < Ladder[p] * D
  BY <1>1, <1>4
<1>8. \A r : Placement(r) = Ladder[r] * D + h
  BY <1>2, <1>3 DEF Placement
<1> QED
  BY <1>2, <1>3, <1>5, <1>6, <1>7, <1>8, RankConstants DEF MostPoints

LEMMA DivisionsGoUp ==
    ASSUME NEW x \in Nat, NEW y \in Nat, x <= y
    PROVE  DivisionOf(x) \in 0 .. Top /\ DivisionOf(x) <= DivisionOf(y)
<1>1. PICK D \in Nat \ {0} : D = Division
  BY RankConstants
<1>2. x \div D \in Nat /\ y \div D \in Nat
  BY <1>1
<1>3. x \div D <= y \div D
  BY <1>1
<1> QED
  BY <1>1, <1>2, <1>3, RankConstants DEF DivisionOf, Smaller

LEMMA ResetsTakeBack ==
    ASSUME NEW x \in Nat, NEW p \in Positions
    PROVE  SeasonReset(x, p) \in Nat /\ SeasonReset(x, p) <= x
<1>1. Placement(p) \in Nat
  BY PlacementsGoUp
<1>2. Top * Division \in Nat
  BY RankConstants
<1> QED
  BY <1>1, <1>2, RankConstants DEF SeasonReset, Larger, Smaller

\* What is shown in any season is a number of points.
LEMMA PointsAreShown ==
    ASSUME RankTypeOK, NEW at
    PROVE  CurrentPoints(at) \in Nat /\ CurrentPoints(at) <= MostPoints
<1>1. points \in Nat /\ points <= MostPoints /\ position \in Positions
  BY RankConstants DEF RankTypeOK, MostPoints
<1>2. Placement(position) \in Nat /\ Placement(position) <= MostPoints
  BY <1>1, PlacementsGoUp
<1>3. SeasonReset(points, position) \in Nat /\ SeasonReset(points, position) <= points
  BY <1>1, ResetsTakeBack
<1> QED
  BY <1>1, <1>2, <1>3, RankConstants DEF CurrentPoints, Larger

LEMMA CrossedAre ==
    ASSUME NEW a \in Positions, NEW b \in Positions, a <= b
    PROVE  /\ Crossed(a, b) = a + 1 .. b /\ Crossed(b, a) = a + 1 .. b
           /\ a + 1 .. b \subseteq Positions /\ \A r \in a + 1 .. b : r - 1 \in Positions
<1>1. a \in Int /\ b \in Int /\ Cardinality(Positions) \in Nat /\ 1 <= a /\ b <= Cardinality(Positions)
  BY RankConstants
<1>2. \A r \in a + 1 .. b : r \in Positions /\ r - 1 \in Positions
  BY <1>1, RankConstants
<1>3. \A r : r \in Crossed(a, b) <=> r \in Positions /\ a < r /\ r <= b
  BY <1>1 DEF Crossed, Smaller, Larger
<1>4. \A r : r \in Crossed(b, a) <=> r \in Positions /\ a < r /\ r <= b
  BY <1>1 DEF Crossed, Smaller, Larger
<1>5. \A r : r \in a + 1 .. b <=> r \in Positions /\ a < r /\ r <= b
  BY <1>1, <1>2, RankConstants
<1> QED
  BY <1>2, <1>3, <1>4, <1>5

LEMMA LiftsAreTyped ==
    ASSUME RankTypeOK
    PROVE  /\ DOMAIN Lifts \subseteq Positions /\ \A r \in DOMAIN Lifts : Lifts[r] \in Nat
           /\ \A r \in Positions : r - 1 \in Positions => Given(r) \in Nat
<1>1. DOMAIN Lifts \subseteq Positions /\ \A r \in DOMAIN Lifts : Lifts[r] \in Nat
  <2>1. CASE lifts.season = season
    BY <2>1 DEF Lifts, RankTypeOK
  <2>2. CASE lifts.season # season
    BY <2>2 DEF Lifts
  <2> QED
    BY <2>1, <2>2
<1>2. ASSUME NEW r \in Positions, r - 1 \in Positions PROVE Given(r) \in Nat
  <2>1. Placement(r) \in Nat /\ Placement(r - 1) \in Nat /\ Placement(r - 1) < Placement(r)
    BY <1>2, PlacementsGoUp
  <2> QED
    BY <1>1, <2>1 DEF Given
<1> QED
  BY <1>1, <1>2

\* A lower position takes what the positions above it gave.
LEMMA GivenAddsUp ==
    ASSUME RankTypeOK, NEW p \in Positions, p <= position
    PROVE  /\ [r \in p + 1 .. position |-> Given(r)] \in [p + 1 .. position -> Nat]
           /\ \A x : Lowered(x, p) = Larger(x - SumOf([r \in p + 1 .. position |-> Given(r)]), 0)
<1> DEFINE T == p + 1 .. position
           f == [r \in T |-> Given(r)]
           P(g) == g = [s \in SUBSET T |->
                          IF s = {} THEN 0
                          ELSE Given(CHOOSE x \in s : TRUE) + g[s \ {CHOOSE x \in s : TRUE}]]
           it == CHOOSE g : P(g)
<1>1. position \in Positions
  BY DEF RankTypeOK
<1>2. Crossed(position, p) = T /\ T \subseteq Positions /\ \A r \in T : r - 1 \in Positions
  BY <1>1, CrossedAre
<1>3. f \in [T -> Nat]
  BY <1>2, LiftsAreTyped
<1>4. MapThenSumSet(Given, T) = it[T]
  BY DEF MapThenSumSet, MapThenFoldSet
<1>5. \A s \in SUBSET T : s # {} => f[First(s)] = Given(CHOOSE x \in s : TRUE)
  <2> TAKE s \in SUBSET T
  <2> HAVE s # {}
  <2>1. First(s) \in T
    BY FirstIsIn
  <2>2. f[First(s)] = Given(First(s))
    BY <2>1
  <2> QED
    BY <2>2 DEF First
<1>6. \A g : P(g) <=> Adds(g, f, T)
  <2> TAKE g
  <2> DEFINE A == [s \in SUBSET T |->
                     IF s = {} THEN 0
                     ELSE Given(CHOOSE x \in s : TRUE) + g[s \ {CHOOSE x \in s : TRUE}]]
             B == [s \in SUBSET T |-> IF s = {} THEN 0 ELSE f[First(s)] + g[s \ {First(s)}]]
  <2>1. \A s \in SUBSET T : A[s] = B[s]
    BY <1>5 DEF First
  <2>2. A = B
    BY <2>1
  <2> QED
    BY <2>2 DEF Adds
<1>7. DOMAIN f = T
  OBVIOUS
<1> HIDE DEF f
<1>8. it = CHOOSE g : Adds(g, f, T)
  <2> HIDE DEF P, T
  <2> QED
    BY <1>6
<1>9. SumOf(f) = it[T]
  BY <1>7, <1>8 DEF SumOf
<1>10. \A x : Lowered(x, p) = Larger(x - SumOf(f), 0)
  <2> HIDE DEF T, it
  <2> QED
    BY <1>2, <1>4, <1>9 DEF Lowered
<1> QED
  BY <1>3, <1>10 DEF f

-------------------------------------------------------------------------------
(* Rank: the invariant                                                     *)

\* The raises of this season that are not taken back: c is what each position left them with, and their
\* lifts are the steps between. What was answered since moved all of it.
Raises(c, low, high, at, given, x) ==
    /\ DOMAIN c = low .. high /\ (\A r \in low .. high : c[r] \in Int /\ c[r] >= at)
    /\ c[low] = at /\ c[high] = x
    /\ low + 1 .. high \subseteq DOMAIN given /\ \A r \in low + 1 .. high : given[r] = c[r] - c[r - 1]

RaisesAreKept ==
    raised # None =>
        /\ raised = [position |-> raised.position, points |-> raised.points]
        /\ raised.position \in Positions /\ raised.position <= position /\ raised.points \in Nat
        /\ placedIn = season /\ lifts.season = season
        /\ \E c : Raises(c, raised.position, position, raised.points, lifts.of, points)

RInv == RankTypeOK /\ RaisesAreKept

LEMMA RankStart == RankInit => RInv
<1> SUFFICES ASSUME RankInit PROVE RInv
  OBVIOUS
<1>1. season = 1 /\ position \in Positions /\ started = 0 /\ listed = 0 /\ active = TRUE /\ raised = None
  BY DEF RankInit
<1>2. lifts.season = 0 /\ DOMAIN lifts.of = {}
  BY DEF RankInit
<1>3. /\ points \in Nat /\ points <= MostPoints /\ placedIn \in {0, 1} /\ best \in 0 .. Top
      /\ placedIn # 0 => best >= DivisionOf(points)
  <2>1. CASE placedIn = 1 /\ points = Placement(position) /\ best = DivisionOf(points)
    <3>1. points \in Nat /\ points <= MostPoints
      BY <1>1, <2>1, PlacementsGoUp
    <3>2. DivisionOf(points) \in 0 .. Top
      BY <3>1, DivisionsGoUp
    <3> QED
      BY <2>1, <3>1, <3>2
  <2>2. CASE placedIn = 0 /\ points \in {0, Division} /\ best = 0
    BY <2>2, RankConstants DEF MostPoints
  <2> QED
    BY <2>1, <2>2 DEF RankInit
<1>4. RankTypeOK
  <2>1. season \in 1 .. Seasons /\ placedIn \in 0 .. season /\ started \in 0 .. season /\ listed \in 0 .. season
    BY <1>1, <1>3, RankConstants
  <2>2. points \in 0 .. MaxPoints + Division * Top
    BY <1>3, RankConstants DEF MostPoints
  <2>3. lifts.season \in 0 .. season /\ DOMAIN lifts.of \subseteq Positions
        /\ \A r \in DOMAIN lifts.of : lifts.of[r] \in Nat
    BY <1>1, <1>2
  <2> QED
    BY <1>1, <1>3, <2>1, <2>2, <2>3 DEF RankTypeOK
<1> QED
  BY <1>1, <1>4 DEF RInv, RaisesAreKept

\* What a score leaves is typed, and answers do not touch what raises gave.
LEMMA GrantsKeepTypes ==
    ASSUME RInv, NEW startedIn \in 0 .. season, startedIn # 0, NEW move \in Int, Grant(startedIn, move),
           UNCHANGED <<season, position, lifts>>
    PROVE  /\ points' \in 0 .. MaxPoints + Division * Top /\ placedIn' \in 1 .. season
           /\ best' \in 0 .. Top /\ best' >= DivisionOf(points')
           /\ RaisesAreKept'
           /\ placedIn' = season => points' = Standing + lp'
<1>0. season \in Nat \ {0} /\ placedIn \in 0 .. season
  BY RankConstants DEF RInv, RankTypeOK
<1>1. PICK at \in 1 .. season : at = (IF startedIn < placedIn THEN season ELSE startedIn)
  BY <1>0
<1>2. PICK now \in Nat : now = CurrentPoints(at)
  BY PointsAreShown DEF RInv
<1>3. PICK after \in Nat : after = Larger(0, now + move) /\ after <= MaxPoints
  BY <1>1, <1>2 DEF Grant, Larger
<1>4. /\ points' = after /\ placedIn' = at /\ best' = Larger(Best(at), DivisionOf(after)) /\ lp' = after - now
      /\ raised' = IF raised = None \/ at # season \/ raised.points + after - now < 0 THEN None
                   ELSE [raised EXCEPT !.points = @ + after - now]
  BY <1>1, <1>2, <1>3 DEF Grant
<1>5. DivisionOf(after) \in 0 .. Top /\ Best(at) \in 0 .. Top
  BY <1>2, <1>3, DivisionsGoUp DEF RInv, RankTypeOK, Best
<1>6. best' \in 0 .. Top /\ best' >= DivisionOf(points')
  BY <1>4, <1>5, RankConstants DEF Larger
<1>7. points' \in 0 .. MaxPoints + Division * Top
  BY <1>3, <1>4, RankConstants
<1>8. placedIn' = season => points' = Standing + lp'
  BY <1>2, <1>3, <1>4 DEF Standing
<1>9. RaisesAreKept'
  <2> SUFFICES ASSUME raised' # None
               PROVE  /\ raised' = [position |-> raised'.position, points |-> raised'.points]
                      /\ raised'.position \in Positions /\ raised'.position <= position' /\ raised'.points \in Nat
                      /\ placedIn' = season' /\ lifts'.season = season'
                      /\ \E c : Raises(c, raised'.position, position', raised'.points, lifts'.of, points')
    BY DEF RaisesAreKept
  <2>1. raised # None /\ at = season /\ ~(raised.points + after - now < 0)
        /\ raised' = [raised EXCEPT !.points = @ + after - now]
    BY <1>4
  <2>2. /\ raised = [position |-> raised.position, points |-> raised.points]
        /\ raised.position \in Positions /\ raised.position <= position /\ raised.points \in Nat
        /\ placedIn = season /\ lifts.season = season
    BY <2>1 DEF RInv, RaisesAreKept
  <2>3. PICK c : Raises(c, raised.position, position, raised.points, lifts.of, points)
    BY <2>1 DEF RInv, RaisesAreKept
  <2>4. raised' = [position |-> raised.position, points |-> raised.points + after - now]
    BY <2>1, <2>2
  <2>5. raised'.position = raised.position /\ raised'.points = raised.points + after - now /\ raised'.points \in Nat
    BY <2>1, <2>2, <2>4, <1>2, <1>3
  <2>6. now = points
    BY <1>0, <1>2, <2>1, <2>2 DEF CurrentPoints
  <2> DEFINE e == [r \in raised.position .. position |-> c[r] + after - now]
  <2>7. PICK low \in Int : low = raised.position
    BY <2>2, RankConstants
  <2>8. PICK high \in Int : high = position /\ low <= high
    BY <2>2, <2>7, RankConstants DEF RInv, RankTypeOK
  <2>9. Raises(e, low, high, raised.points + after - now, lifts.of, after)
    <3>1. /\ \A r \in low .. high : c[r] \in Int /\ c[r] >= raised.points
          /\ c[low] = raised.points /\ c[high] = points
          /\ low + 1 .. high \subseteq DOMAIN lifts.of /\ \A r \in low + 1 .. high : lifts.of[r] = c[r] - c[r - 1]
      BY <2>3, <2>7, <2>8 DEF Raises
    <3>2. DOMAIN e = low .. high /\ \A r \in low .. high : e[r] = c[r] + after - now
      BY <2>7, <2>8
    <3> HIDE DEF e
    <3>3. \A r \in low + 1 .. high : r \in low .. high /\ r - 1 \in low .. high
      BY <2>7, <2>8
    <3>4. \A r \in low .. high : e[r] \in Int /\ e[r] >= raised.points + after - now
      BY <1>2, <1>3, <2>2, <3>1, <3>2
    <3>5. e[low] = raised.points + after - now /\ e[high] = after
      BY <1>2, <1>3, <2>2, <2>6, <2>8, <3>1, <3>2
    <3>6. \A r \in low + 1 .. high : lifts.of[r] = e[r] - e[r - 1]
      <4> TAKE r \in low + 1 .. high
      <4>1. e[r] = c[r] + after - now /\ e[r - 1] = c[r - 1] + after - now
        BY <3>2, <3>3
      <4>2. c[r] \in Int /\ c[r - 1] \in Int /\ lifts.of[r] = c[r] - c[r - 1]
        BY <3>1, <3>3
      <4> QED
        BY <1>2, <1>3, <4>1, <4>2
    <3> QED
      BY <3>1, <3>2, <3>4, <3>5, <3>6 DEF Raises
  <2>10. Raises(e, raised'.position, position', raised'.points, lifts'.of, points')
    BY <1>4, <2>5, <2>7, <2>8, <2>9
  <2> QED
    BY <1>4, <2>1, <2>2, <2>4, <2>5, <2>10
<1> QED
  BY <1>1, <1>4, <1>6, <1>7, <1>8, <1>9

\* A higher position.
LEMMA RaisesAdd ==
    ASSUME RInv, NEW p \in Positions, p > position, SetPosition(p)
    PROVE  RankTypeOK' /\ RaisesAreKept'
<1>1. PICK now \in Int : now = position
  BY RankConstants DEF RInv, RankTypeOK
<1>2. p \in Int /\ now < p /\ now \in Positions
  BY <1>1, RankConstants DEF RInv, RankTypeOK
<1>3. PICK x \in Nat : x = Standing /\ x <= MostPoints
  BY PointsAreShown DEF RInv, Standing
<1>4. PICK given : given = Raised(x, p)
  OBVIOUS
<1>5. /\ points' = Reached(x, p) /\ lifts' = [season |-> season, of |-> given]
      /\ raised' = IF raised = None THEN [position |-> position, points |-> x]
                   ELSE IF p < raised.position THEN None ELSE raised
      /\ position' = p /\ placedIn' = season /\ best' = Larger(Best(season), DivisionOf(Placement(p)))
      /\ UNCHANGED <<season, active, started, listed>>
  BY <1>1, <1>2, <1>3, <1>4 DEF SetPosition, BestPlaced
<1> DEFINE C == now + 1 .. p
<1>6. Crossed(position, p) = C /\ C \subseteq Positions /\ \A r \in C : r - 1 \in Positions
  BY <1>1, <1>2, CrossedAre
<1>7. /\ DOMAIN given = DOMAIN Lifts \union C
      /\ \A r \in DOMAIN given : given[r] = IF r \notin C THEN Lifts[r]
                                            ELSE Reached(x, r) - (IF r - 1 = now THEN x ELSE Reached(x, r - 1))
  BY <1>1, <1>4, <1>6 DEF Raised
<1>8. \A r \in Positions : Reached(x, r) \in Nat /\ Reached(x, r) >= x /\ Reached(x, r) <= MostPoints
  BY <1>3, PlacementsGoUp, RankConstants DEF Reached, Larger
<1>9. \A r \in C : Reached(x, r) >= Reached(x, r - 1)
  <2> TAKE r \in C
  <2>1. Placement(r) \in Nat /\ Placement(r - 1) \in Nat /\ Placement(r - 1) < Placement(r)
    BY <1>6, PlacementsGoUp
  <2> QED
    BY <1>3, <2>1 DEF Reached, Larger
<1>10. DOMAIN given \subseteq Positions /\ \A r \in DOMAIN given : given[r] \in Nat
  <2>1. DOMAIN Lifts \subseteq Positions /\ \A r \in DOMAIN Lifts : Lifts[r] \in Nat
    BY LiftsAreTyped DEF RInv
  <2>2. \A r \in C : Reached(x, r) \in Nat /\ Reached(x, r) >= x /\ Reached(x, r - 1) \in Nat
                     /\ Reached(x, r) >= Reached(x, r - 1)
    BY <1>6, <1>8, <1>9
  <2> HIDE DEF C
  <2> QED
    BY <1>3, <1>6, <1>7, <2>1, <2>2
<1>11. RankTypeOK'
  <2>1. points' \in 0 .. MaxPoints + Division * Top
    BY <1>5, <1>8, RankConstants DEF MostPoints
  <2>2. season \in 1 .. Seasons /\ season \in 0 .. season
    BY RankConstants DEF RInv, RankTypeOK
  <2>3. Best(season) \in 0 .. Top /\ Best(season) >= DivisionOf(x)
    <3>1. CASE placedIn = season
      <4>1. placedIn # 0 /\ x = points
        BY <1>3, <2>2, <3>1, RankConstants DEF Standing, CurrentPoints
      <4> QED
        BY <3>1, <4>1 DEF Best, RInv, RankTypeOK
    <3>2. CASE placedIn # season
      <4>1. Best(season) = DivisionOf(x)
        BY <1>3, <3>2 DEF Best, Standing
      <4>2. DivisionOf(x) \in 0 .. Top
        BY <1>3, DivisionsGoUp
      <4> QED
        BY <4>1, <4>2
    <3> QED
      BY <3>1, <3>2
  <2>4. Placement(p) \in Nat
    BY PlacementsGoUp
  <2>5. DivisionOf(Placement(p)) \in 0 .. Top /\ DivisionOf(x) \in 0 .. Top
    BY <1>3, <2>4, DivisionsGoUp
  <2>6. points' = x \/ points' = Placement(p)
    BY <1>5 DEF Reached, Larger
  <2>7. best' \in 0 .. Top /\ best' >= DivisionOf(points')
    BY <1>5, <2>3, <2>5, <2>6, RankConstants DEF Larger
  <2>8. lifts'.season = season /\ lifts'.of = given
    BY <1>5
  <2>9. season' = season /\ placedIn' = season /\ position' = p
    BY <1>5
  <2> QED
    BY <1>5, <1>10, <2>1, <2>2, <2>7, <2>8, <2>9 DEF RInv, RankTypeOK
<1>12. RaisesAreKept'
  <2> SUFFICES ASSUME raised' # None
               PROVE  /\ raised' = [position |-> raised'.position, points |-> raised'.points]
                      /\ raised'.position \in Positions /\ raised'.position <= position' /\ raised'.points \in Nat
                      /\ placedIn' = season' /\ lifts'.season = season'
                      /\ \E c : Raises(c, raised'.position, position', raised'.points, lifts'.of, points')
    BY DEF RaisesAreKept
  <2>1. ASSUME NEW low \in Positions, low <= now, NEW at \in Nat, at <= x, NEW c,
               Raises(c, low, now, at, Lifts, x)
        PROVE  \E e : Raises(e, low, p, at, given, Reached(x, p))
    <3> DEFINE e == [r \in low .. p |-> IF r <= now THEN c[r] ELSE Reached(x, r)]
    <3>1. low \in Int
      BY RankConstants
    <3>2. /\ \A r \in low .. now : c[r] \in Int /\ c[r] >= at
          /\ c[low] = at /\ c[now] = x
          /\ low + 1 .. now \subseteq DOMAIN Lifts /\ \A r \in low + 1 .. now : Lifts[r] = c[r] - c[r - 1]
      BY <2>1 DEF Raises
    <3>3. DOMAIN e = low .. p /\ \A r \in low .. p : e[r] = IF r <= now THEN c[r] ELSE Reached(x, r)
      OBVIOUS
    <3> HIDE DEF e
    <3>4. low <= p /\ now \in low .. now /\ low \in low .. p /\ p \in low .. p
      BY <1>2, <2>1, <3>1
    <3>5. \A r \in low .. p : r <= now => r \in low .. now
      BY <1>2, <3>1
    <3>6. \A r \in low .. p : ~(r <= now) => r \in C
      BY <1>2, <3>1
    <3>7. \A r \in low .. p : e[r] \in Int /\ e[r] >= at
      <4> TAKE r \in low .. p
      <4>1. CASE r <= now
        BY <3>2, <3>3, <3>5, <4>1
      <4>2. CASE ~(r <= now)
        <5>1. Reached(x, r) \in Nat /\ Reached(x, r) >= x
          BY <1>6, <1>8, <3>6, <4>2
        <5> QED
          BY <1>3, <2>1, <3>3, <4>2, <5>1
      <4> QED
        BY <4>1, <4>2
    <3>8. e[low] = at /\ e[p] = Reached(x, p)
      BY <1>2, <2>1, <3>1, <3>2, <3>3, <3>4
    <3>9. low + 1 .. p \subseteq DOMAIN given
      <4> SUFFICES ASSUME NEW r \in low + 1 .. p PROVE r \in DOMAIN given
        OBVIOUS
      <4>0. r \in Int
        BY <3>1
      <4>1. CASE r <= now
        <5>1. r \in low + 1 .. now
          BY <1>2, <3>1, <4>0, <4>1
        <5> QED
          BY <1>7, <3>2, <5>1
      <4>2. CASE ~(r <= now)
        <5>1. r \in C
          BY <1>2, <3>1, <4>0, <4>2
        <5> QED
          BY <1>7, <5>1
      <4> QED
        BY <4>1, <4>2
    <3>10. \A r \in low + 1 .. p : given[r] = e[r] - e[r - 1]
      <4> TAKE r \in low + 1 .. p
      <4>1. r \in Int /\ r \in low .. p /\ r - 1 \in low .. p /\ r \in DOMAIN given
        BY <1>2, <3>1, <3>9
      <4>2. CASE r <= now
        <5>1. r \notin C /\ r - 1 <= now /\ r \in low + 1 .. now
          BY <1>2, <3>1, <4>1, <4>2
        <5>2. given[r] = Lifts[r] /\ e[r] = c[r] /\ e[r - 1] = c[r - 1]
          BY <1>7, <3>3, <4>1, <4>2, <5>1
        <5> QED
          BY <3>2, <5>1, <5>2
      <4>3. CASE ~(r <= now)
        <5>1. r \in C /\ e[r] = Reached(x, r)
          BY <3>3, <3>6, <4>1, <4>3
        <5>2. given[r] = Reached(x, r) - (IF r - 1 = now THEN x ELSE Reached(x, r - 1))
          BY <1>7, <4>1, <5>1
        <5>3. CASE r - 1 = now
          BY <3>2, <3>3, <4>1, <5>1, <5>2, <5>3
        <5>4. CASE r - 1 # now
          <6>1. ~(r - 1 <= now)
            BY <1>2, <4>1, <4>3, <5>4
          <6> QED
            BY <3>3, <4>1, <5>1, <5>2, <5>4, <6>1
        <5> QED
          BY <5>3, <5>4
      <4> QED
        BY <4>2, <4>3
    <3> QED
      BY <3>3, <3>7, <3>8, <3>9, <3>10 DEF Raises
  <2>2. CASE raised = None
    <3>1. raised' = [position |-> now, points |-> x]
      BY <1>1, <1>5, <2>2
    <3>2. raised'.position = now /\ raised'.points = x
      BY <3>1
    <3>3. Raises([r \in now .. now |-> x], now, now, x, Lifts, x)
      <4>1. now .. now = {now} /\ now + 1 .. now = {}
        OBVIOUS
      <4> QED
        BY <1>3, <4>1 DEF Raises
    <3>4. \E e : Raises(e, now, p, x, given, Reached(x, p))
      BY <1>2, <1>3, <2>1, <3>3
    <3> QED
      BY <1>2, <1>5, <3>1, <3>2, <3>4
  <2>3. CASE raised # None
    <3>1. /\ raised = [position |-> raised.position, points |-> raised.points]
          /\ raised.position \in Positions /\ raised.position <= now /\ raised.points \in Nat
          /\ placedIn = season /\ lifts.season = season
      BY <1>1, <2>3 DEF RInv, RaisesAreKept
    <3>2. PICK c : Raises(c, raised.position, now, raised.points, lifts.of, points)
      BY <1>1, <2>3 DEF RInv, RaisesAreKept
    <3>3. raised' = raised
      BY <1>5, <2>3
    <3>4. x = points /\ Lifts = lifts.of
      BY <1>3, <3>1, RankConstants DEF Standing, CurrentPoints, Lifts, RInv, RankTypeOK
    <3>5. raised.points <= x
      BY <1>2, <3>1, <3>2, <3>4, RankConstants DEF Raises
    <3>6. \E e : Raises(e, raised.position, p, raised.points, given, Reached(x, p))
      BY <2>1, <3>1, <3>2, <3>4, <3>5
    <3>7. raised.position <= p
      BY <1>2, <3>1, RankConstants
    <3> QED
      BY <1>5, <3>1, <3>3, <3>6, <3>7
  <2> QED
    BY <2>2, <2>3
<1> QED
  BY <1>11, <1>12

\* A lower position.
LEMMA LoweringsTakeBack ==
    ASSUME RInv, NEW p \in Positions, p < position, SetPosition(p)
    PROVE  RankTypeOK' /\ RaisesAreKept'
<1>1. PICK now \in Int : now = position
  BY RankConstants DEF RInv, RankTypeOK
<1>2. p \in Int /\ p < now /\ now \in Positions
  BY <1>1, RankConstants DEF RInv, RankTypeOK
<1>3. PICK x \in Nat : x = Standing /\ x <= MostPoints
  BY PointsAreShown DEF RInv, Standing
<1> DEFINE C == p + 1 .. now
           f == [r \in C |-> Given(r)]
<1>4. f \in [C -> Nat] /\ Lowered(x, p) = Larger(x - SumOf(f), 0)
  BY <1>1, <1>2, GivenAddsUp DEF RInv
<1>5. SumOf(f) \in Nat
  <2>1. IsFiniteSet(C)
    BY <1>2, FS_Interval
  <2> HIDE DEF C
  <2>2. DOMAIN f = C /\ \A r \in DOMAIN f : f[r] \in Nat
    BY <1>4
  <2> HIDE DEF f
  <2> QED
    BY <2>1, <2>2, SumOfNaturals
<1>6. Crossed(position, p) = C
  BY <1>1, <1>2, CrossedAre
<1>7. PICK given : given = [r \in DOMAIN Lifts \ C |-> Lifts[r]]
  OBVIOUS
<1>8. /\ points' = Larger(x - SumOf(f), 0) /\ lifts' = [season |-> season, of |-> given]
      /\ raised' = IF raised # None /\ p < raised.position THEN None ELSE raised
      /\ position' = p /\ placedIn' = season /\ best' = Larger(Best(season), DivisionOf(Placement(p)))
      /\ UNCHANGED <<season, active, started, listed>>
  <2>1. ~(p > position)
    BY <1>1, <1>2
  <2> HIDE DEF f
  <2> QED
    BY <1>1, <1>3, <1>4, <1>6, <1>7, <2>1 DEF SetPosition, BestPlaced
<1>9. points' \in Nat /\ points' <= x
  BY <1>5, <1>8 DEF Larger
<1>10. RankTypeOK'
  <2>1. points' \in 0 .. MaxPoints + Division * Top
    BY <1>3, <1>9, RankConstants DEF MostPoints
  <2>2. season \in 1 .. Seasons /\ season \in 0 .. season
    BY RankConstants DEF RInv, RankTypeOK
  <2>3. DivisionOf(x) \in 0 .. Top /\ DivisionOf(points') \in 0 .. Top /\ DivisionOf(points') <= DivisionOf(x)
    BY <1>3, <1>9, DivisionsGoUp
  <2>4. Best(season) \in 0 .. Top /\ Best(season) >= DivisionOf(x)
    <3>1. CASE placedIn = season
      <4>1. placedIn # 0 /\ x = points
        BY <1>3, <2>2, <3>1, RankConstants DEF Standing, CurrentPoints
      <4> QED
        BY <3>1, <4>1 DEF Best, RInv, RankTypeOK
    <3>2. CASE placedIn # season
      BY <1>3, <2>3, <3>2 DEF Best, Standing
    <3> QED
      BY <3>1, <3>2
  <2>5. Placement(p) \in Nat
    BY PlacementsGoUp
  <2>6. DivisionOf(Placement(p)) \in 0 .. Top
    BY <2>5, DivisionsGoUp
  <2>7. best' \in 0 .. Top /\ best' >= DivisionOf(points')
    BY <1>8, <2>3, <2>4, <2>6, RankConstants DEF Larger
  <2>8. lifts'.season = season /\ lifts'.of = given
    BY <1>8
  <2>9. DOMAIN given \subseteq Positions /\ \A r \in DOMAIN given : given[r] \in Nat
    BY <1>7, LiftsAreTyped DEF RInv
  <2>10. season' = season /\ placedIn' = season /\ position' = p
    BY <1>8
  <2> QED
    BY <1>8, <2>1, <2>2, <2>7, <2>8, <2>9, <2>10 DEF RInv, RankTypeOK
<1>11. RaisesAreKept'
  <2> SUFFICES ASSUME raised' # None
               PROVE  /\ raised' = [position |-> raised'.position, points |-> raised'.points]
                      /\ raised'.position \in Positions /\ raised'.position <= position' /\ raised'.points \in Nat
                      /\ placedIn' = season' /\ lifts'.season = season'
                      /\ \E c : Raises(c, raised'.position, position', raised'.points, lifts'.of, points')
    BY DEF RaisesAreKept
  <2>1. raised' = raised /\ raised # None /\ ~(p < raised.position)
    BY <1>8
  <2>2. /\ raised = [position |-> raised.position, points |-> raised.points]
        /\ raised.position \in Positions /\ raised.position <= now /\ raised.points \in Nat
        /\ placedIn = season /\ lifts.season = season
    BY <1>1, <2>1 DEF RInv, RaisesAreKept
  <2>3. PICK low \in Int : low = raised.position /\ low <= p
    BY <1>2, <2>1, <2>2, RankConstants
  <2>4. PICK at \in Nat : at = raised.points
    BY <2>2
  <2>5. PICK c : Raises(c, low, now, at, lifts.of, points)
    BY <1>1, <2>1, <2>3, <2>4 DEF RInv, RaisesAreKept
  <2>6. x = points /\ Lifts = lifts.of
    BY <1>3, <2>2, RankConstants DEF Standing, CurrentPoints, Lifts, RInv, RankTypeOK
  <2>7. /\ \A r \in low .. now : c[r] \in Int /\ c[r] >= at
        /\ c[low] = at /\ c[now] = x
        /\ low + 1 .. now \subseteq DOMAIN Lifts /\ \A r \in low + 1 .. now : Lifts[r] = c[r] - c[r - 1]
    BY <2>5, <2>6 DEF Raises
  <2>8. C \subseteq low + 1 .. now /\ p .. now \subseteq low .. now /\ p \in low .. now /\ now \in low .. now
    BY <1>2, <2>3
  <2>9. SumOf(f) = c[now] - c[p]
    <3>1. \A r \in C : f[r] = c[r] - c[r - 1]
      BY <2>7, <2>8 DEF Given
    <3>2. DOMAIN f = p + 1 .. now /\ p <= now /\ \A r \in p .. now : c[r] \in Int
      BY <1>2, <2>7, <2>8
    <3> HIDE DEF f
    <3> QED
      BY <1>2, <3>1, <3>2, SumOfSteps
  <2>10. points' = c[p]
    <3> HIDE DEF f, C
    <3>1. c[p] \in Int /\ c[p] >= at
      BY <2>7, <2>8
    <3> QED
      BY <1>3, <1>8, <2>7, <2>9, <3>1 DEF Larger
  <2> DEFINE e == [r \in low .. p |-> c[r]]
  <2>11. Raises(e, low, p, at, given, points')
    <3>1. low .. p \subseteq low .. now /\ low + 1 .. p \subseteq low + 1 .. now /\ low \in low .. p /\ p \in low .. p
          /\ \A r \in low + 1 .. p : r \in low .. p /\ r - 1 \in low .. p /\ r \notin C
      BY <1>2, <2>3
    <3>2. DOMAIN e = low .. p /\ \A r \in low .. p : e[r] = c[r]
      OBVIOUS
    <3> HIDE DEF e, C
    <3>3. \A r \in low .. p : e[r] \in Int /\ e[r] >= at
      BY <2>7, <3>1, <3>2
    <3>4. e[low] = at /\ e[p] = points'
      BY <2>7, <2>10, <3>1, <3>2
    <3>5. low + 1 .. p \subseteq DOMAIN given /\ \A r \in low + 1 .. p : given[r] = Lifts[r]
      BY <1>7, <2>7, <3>1
    <3>6. \A r \in low + 1 .. p : given[r] = e[r] - e[r - 1]
      BY <2>7, <3>1, <3>2, <3>5
    <3> QED
      BY <3>2, <3>3, <3>4, <3>5, <3>6 DEF Raises
  <2> HIDE DEF e
  <2> QED
    BY <1>8, <2>1, <2>2, <2>3, <2>4, <2>11
<1> QED
  BY <1>10, <1>11

LEMMA AnswersKeepRInv ==
    ASSUME RInv, NEW startedIn \in 0 .. season, startedIn # 0, NEW move \in Int, Grant(startedIn, move),
           UNCHANGED <<season, position, lifts, active, listed>>, started' \in {0, started}
    PROVE  RInv'
<1>1. /\ points' \in 0 .. MaxPoints + Division * Top /\ placedIn' \in 1 .. season
      /\ best' \in 0 .. Top /\ best' >= DivisionOf(points') /\ RaisesAreKept'
  BY GrantsKeepTypes
<1>2. placedIn' \in 0 .. season /\ started' \in 0 .. season
  BY <1>1, RankConstants DEF RInv, RankTypeOK
<1>3. RankTypeOK'
  BY <1>1, <1>2 DEF RInv, RankTypeOK
<1> QED
  BY <1>1, <1>3 DEF RInv

\* What is not an answer or a position.
LEMMA SeasonsKeepRInv ==
    ASSUME RInv, Start \/ SetStatus \/ NewSeason \/ ListDue \/ Rollover \/ JobFails \/ UNCHANGED rankVars
    PROVE  RInv'
<1>0. season \in Nat \ {0} /\ season \in 0 .. season /\ 0 \in 0 .. season /\ season \in 1 .. Seasons
  BY RankConstants DEF RInv, RankTypeOK
<1>1. CASE Start \/ SetStatus \/ ListDue \/ JobFails \/ UNCHANGED rankVars
  <2>1. /\ UNCHANGED <<season, points, placedIn, position, best, lifts, raised>>
        /\ started' \in {started, season} /\ listed' \in {0, listed, season} /\ active' \in {active, ~active}
    BY <1>1 DEF Start, SetStatus, ListDue, JobFails, rankVars
  <2>2. RankTypeOK'
    BY <1>0, <2>1 DEF RInv, RankTypeOK
  <2>3. RaisesAreKept'
    BY <2>1 DEF RInv, RaisesAreKept
  <2> QED
    BY <2>2, <2>3 DEF RInv
<1>2. CASE NewSeason
  <2>1. /\ UNCHANGED <<points, placedIn, position, best, lifts, active, started, listed>>
        /\ season' = season + 1 /\ season < Seasons /\ raised' = None
    BY <1>2 DEF NewSeason
  <2>2. season' \in 1 .. Seasons /\ 0 .. season \subseteq 0 .. season'
    BY <1>0, <2>1, RankConstants
  <2>3. placedIn \in 0 .. season' /\ started \in 0 .. season' /\ listed \in 0 .. season'
        /\ lifts.season \in 0 .. season'
    BY <2>2 DEF RInv, RankTypeOK
  <2>4. RankTypeOK'
    BY <2>1, <2>2, <2>3 DEF RInv, RankTypeOK
  <2> QED
    BY <2>1, <2>4 DEF RInv, RaisesAreKept
<1>3. CASE Rollover
  <2>1. /\ UNCHANGED <<season, position, lifts, active, started, raised>> /\ listed = season /\ listed' = 0
        /\ IF StillDue THEN /\ points' = SeasonReset(points, position) /\ placedIn' = season
                            /\ best' = DivisionOf(SeasonReset(points, position))
                       ELSE UNCHANGED <<points, best, placedIn>>
    BY <1>3 DEF Rollover
  <2>2. CASE ~StillDue
    <3>1. RankTypeOK'
      BY <1>0, <2>1, <2>2 DEF RInv, RankTypeOK
    <3>2. RaisesAreKept'
      BY <2>1, <2>2 DEF RInv, RaisesAreKept
    <3> QED
      BY <3>1, <3>2 DEF RInv
  <2>3. CASE StillDue
    <3>1. points \in Nat /\ points <= MostPoints /\ position \in Positions
      BY RankConstants DEF RInv, RankTypeOK, MostPoints
    <3>2. PICK x \in Nat : x = SeasonReset(points, position) /\ x <= MostPoints
      BY <3>1, ResetsTakeBack, RankConstants
    <3>3. points' = x /\ best' = DivisionOf(x) /\ placedIn' = season
      BY <2>1, <2>3, <3>2
    <3>4. DivisionOf(x) \in 0 .. Top
      BY <3>2, DivisionsGoUp
    <3>5. points' \in 0 .. MaxPoints + Division * Top /\ best' \in 0 .. Top /\ best' >= DivisionOf(points')
      BY <3>2, <3>3, <3>4, RankConstants DEF MostPoints
    <3>6. RankTypeOK'
      BY <1>0, <2>1, <3>3, <3>5 DEF RInv, RankTypeOK
    <3>7. raised = None
      BY <2>1, <2>3 DEF StillDue, RInv, RaisesAreKept
    <3> QED
      BY <2>1, <3>6, <3>7 DEF RInv, RaisesAreKept
  <2> QED
    BY <2>2, <2>3
<1> QED
  BY <1>1, <1>2, <1>3

LEMMA RankSteps == ASSUME RInv, [RankNext]_rankVars PROVE RInv'
<1>0. season \in Nat \ {0} /\ season \in 0 .. season /\ started \in 0 .. season /\ position \in Int
  BY RankConstants DEF RInv, RankTypeOK
<1>1. CASE \E move \in Moves : Answer(move)
  <2>1. PICK move \in Moves : Answer(move)
    BY <1>1
  <2>2. move \in Int
    BY RankAssumption
  <2>3. /\ started # 0 /\ Grant(started, move) /\ started' \in {0, started}
        /\ UNCHANGED <<season, position, lifts, active, listed>>
    BY <2>1 DEF Answer
  <2> QED
    BY <1>0, <2>2, <2>3, AnswersKeepRInv
<1>2. CASE AnswerUnranked
  <2>1. Grant(season, 0) /\ UNCHANGED <<season, position, lifts, active, listed>> /\ started' \in {0, started}
    BY <1>2 DEF AnswerUnranked
  <2> QED
    BY <1>0, <2>1, AnswersKeepRInv
<1>3. CASE \E p \in Positions : SetPosition(p)
  <2>1. PICK p \in Positions : SetPosition(p)
    BY <1>3
  <2>2. p # position /\ p \in Int
    BY <2>1, RankConstants DEF SetPosition
  <2>3. p > position \/ p < position
    BY <1>0, <2>2
  <2> QED
    BY <2>1, <2>3, RaisesAdd, LoweringsTakeBack DEF RInv
<1>4. CASE Start \/ SetStatus \/ NewSeason \/ ListDue \/ Rollover \/ JobFails \/ UNCHANGED rankVars
  BY <1>4, SeasonsKeepRInv
<1> QED
  BY <1>1, <1>2, <1>3, <1>4 DEF RankNext

\* A rank over the seasons is reasoned about with this: types, and for raises that are not taken back what
\* each of their positions left the player with (Rank).
THEOREM RankInvariantHolds == RankSpec => []RInv
<1>1. RInv /\ [RankNext]_rankVars => RInv'
  BY RankSteps
<1> QED
  BY RankStart, <1>1, PTL DEF RankSpec

\* The variables keep their types, and the best division of a season is never below the rank in it
\* (xp.py: grant; accounts.py: _set_position; season.py: rollover).
THEOREM RanksAreTyped == RankSpec => []RankTypeOK
<1>1. RInv => RankTypeOK
  BY DEF RInv
<1> QED
  BY <1>1, RankInvariantHolds, PTL

\* Raises taken back in the same season leave the rank where it would be without them, for any ladder, any
\* raises in between and whatever is answered meanwhile (rank.py: reposition).
THEOREM UndoingCostsNothing == RankSpec => []UndoneRaisesCostNothing
<1>1. RInv => UndoneRaisesCostNothing
  <2> SUFFICES ASSUME RInv, raised # None, position = raised.position PROVE Standing = raised.points
    BY DEF UndoneRaisesCostNothing
  <2>1. placedIn = season /\ \E c : Raises(c, raised.position, position, raised.points, lifts.of, points)
    BY DEF RInv, RaisesAreKept
  <2>2. points = raised.points
    BY <2>1 DEF Raises
  <2>3. placedIn # 0
    BY <2>1, RankConstants DEF RInv, RankTypeOK
  <2> QED
    BY <2>1, <2>2, <2>3 DEF Standing, CurrentPoints
<1> QED
  BY <1>1, RankInvariantHolds, PTL

\* Whichever of an answer, an admin, the night or a page is the first to start a season for a player, the
\* rank moves by the LP of answers and by nothing else (xp.py: grant; season.py: rollover; rank.py:
\* current_points).
THEOREM SeasonsCountOnce == RankSpec => TheRankMovesByItsAnswers
<1>1. RInv /\ [RankNext]_rankVars =>
         [placedIn' = season /\ season' = season /\ position' = position => Standing' = Standing + lp']_rankVars
  <2> SUFFICES ASSUME RInv, RankNext, placedIn' = season, season' = season, position' = position
               PROVE  Standing' = Standing + lp'
    OBVIOUS
  <2>0. season \in Nat \ {0} /\ season \in 0 .. season /\ started \in 0 .. season
    BY RankConstants DEF RInv, RankTypeOK
  <2>1. Standing' = points'
    BY <2>0 DEF Standing, CurrentPoints
  <2>2. Standing \in Nat
    BY PointsAreShown DEF RInv, Standing
  <2>3. CASE \E move \in Moves : Answer(move)
    <3>1. PICK move \in Moves : Answer(move)
      BY <2>3
    <3>2. move \in Int /\ started # 0 /\ Grant(started, move) /\ UNCHANGED <<season, position, lifts>>
      BY <3>1, RankAssumption DEF Answer
    <3> QED
      BY <2>0, <2>1, <3>2, GrantsKeepTypes
  <2>4. CASE AnswerUnranked
    <3>1. Grant(season, 0) /\ UNCHANGED <<season, position, lifts>>
      BY <2>4 DEF AnswerUnranked
    <3> QED
      BY <2>0, <2>1, <3>1, GrantsKeepTypes
  <2>5. CASE \E p \in Positions : SetPosition(p)
    BY <2>5 DEF SetPosition
  <2>6. CASE NewSeason
    BY <2>0, <2>6 DEF NewSeason
  <2>7. CASE Rollover
    <3>1. lp' = 0 /\ listed = season
      BY <2>7 DEF Rollover
    <3>2. CASE StillDue
      <4>1. points' = SeasonReset(points, position) /\ placedIn # 0 /\ placedIn # season
        BY <2>7, <3>1, <3>2 DEF Rollover, StillDue
      <4> QED
        BY <2>1, <2>2, <3>1, <4>1 DEF Standing, CurrentPoints
    <3>3. CASE ~StillDue
      <4>1. points' = points /\ placedIn = season
        BY <2>7, <3>3 DEF Rollover
      <4> QED
        BY <2>0, <2>1, <2>2, <3>1, <4>1 DEF Standing, CurrentPoints
    <3> QED
      BY <3>2, <3>3
  <2>8. CASE Start \/ SetStatus \/ ListDue \/ JobFails
    <3>1. lp' = 0 /\ points' = points /\ placedIn = season
      BY <2>8 DEF Start, SetStatus, ListDue, JobFails
    <3> QED
      BY <2>0, <2>1, <2>2, <3>1 DEF Standing, CurrentPoints
  <2> QED
    BY <2>3, <2>4, <2>5, <2>6, <2>7, <2>8 DEF RankNext
<1> QED
  BY RankInvariantHolds, <1>1, PTL DEF RankSpec, TheRankMovesByItsAnswers

-------------------------------------------------------------------------------
(* Streaks: the types                                                      *)

\* f goes through the days that are settled, one by one.
GoesThrough(f, days, kept, held, on, day, nights) ==
    /\ f[0] = [spent |-> {}, held |-> held, on |-> on]
    /\ \A n \in 1 .. nights : f[n] = Earn(Spend(f[n - 1], kept, day - (nights - n + 1)), kept, days,
                                          day - (nights - n + 1))
    /\ Settle(days, kept, held, on, day, nights) = f[nights]

LEMMA SettlesDayByDay ==
    ASSUME NEW days, NEW kept, NEW held, NEW on, NEW day \in Int, NEW nights \in Nat
    PROVE  \E f : GoesThrough(f, days, kept, held, on, day, nights)
<1> DEFINE first == [spent |-> {}, held |-> held, on |-> on]
           Night(f, n) == Earn(Spend(f, kept, day - (nights - n + 1)), kept, days, day - (nights - n + 1))
           After(g, n) == IF n = 0 THEN first ELSE Night(g[n - 1], n)
           P(g) == g = [n \in 0 .. nights |-> After(g, n)]
           it == CHOOSE g : P(g)
           Up(g, k) == \A n \in 0 .. nights : n <= k => g[n] = After(g, n)
           K == {k \in Nat : \E g : Up(g, k)}
<1>1. Settle(days, kept, held, on, day, nights) = it[nights]
  BY DEF Settle
<1>2. 0 \in K
  <2> DEFINE z == [n \in 0 .. nights |-> first]
  <2>1. Up(z, 0)
    OBVIOUS
  <2> QED
    BY <2>1
<1>3. ASSUME NEW k \in Nat, k \in K PROVE k + 1 \in K
  <2>1. PICK g : Up(g, k)
    BY <1>3
  <2> DEFINE h == [n \in 0 .. nights |-> IF n <= k THEN g[n] ELSE Night(g[k], k + 1)]
  <2>2. ASSUME NEW n \in 0 .. nights, n <= k + 1 PROVE h[n] = After(h, n)
    <3> HIDE DEF Night, first
    <3>1. CASE n <= k
      <4>1. h[n] = After(g, n)
        BY <2>1, <3>1
      <4>2. n # 0 => n - 1 \in 0 .. nights /\ n - 1 <= k
        BY <3>1
      <4>3. n # 0 => h[n - 1] = g[n - 1]
        BY <4>2
      <4> HIDE DEF h
      <4> QED
        BY <4>1, <4>3
    <3>2. CASE ~(n <= k)
      <4>1. n = k + 1 /\ n # 0 /\ n - 1 = k /\ k \in 0 .. nights /\ k <= k
        BY <2>2, <3>2
      <4>2. h[n] = Night(g[k], k + 1) /\ h[k] = g[k]
        BY <3>2, <4>1
      <4> HIDE DEF h
      <4> QED
        BY <4>1, <4>2
    <3> QED
      BY <3>1, <3>2
  <2>3. Up(h, k + 1)
    <3> HIDE DEF h, After
    <3> QED
      BY <2>2
  <2> HIDE DEF Up, h
  <2> QED
    BY <2>3
<1>4. nights \in K
  <2> HIDE DEF K
  <2> QED
    BY <1>2, <1>3, Induction
<1>5. PICK g : \A n \in 0 .. nights : g[n] = After(g, n)
  BY <1>4
<1>6. \E h : P(h)
  <2> DEFINE h == [n \in 0 .. nights |-> g[n]]
  <2>1. \A n \in 0 .. nights : h[n] = After(h, n)
    <3> TAKE n \in 0 .. nights
    <3>1. n # 0 => n - 1 \in 0 .. nights
      OBVIOUS
    <3>2. h[n] = g[n] /\ (n # 0 => h[n - 1] = g[n - 1])
      BY <3>1
    <3> HIDE DEF h, Night, first
    <3> QED
      BY <1>5, <3>2
  <2>2. h = [n \in 0 .. nights |-> h[n]]
    OBVIOUS
  <2> HIDE DEF h, After
  <2>3. P(h)
    BY <2>1, <2>2
  <2> QED
    BY <2>3
<1>7. P(it)
  <2> HIDE DEF P
  <2> QED
    BY <1>6
<1>8. \A n \in 0 .. nights : it[n] = After(it, n)
  <2> HIDE DEF After, it
  <2> QED
    BY <1>7
<1> HIDE DEF it
<1>9. it[0] = first /\ \A n \in 1 .. nights : it[n] = Night(it[n - 1], n)
  <2>1. 0 \in 0 .. nights /\ \A n \in 1 .. nights : n \in 0 .. nights /\ n # 0
    OBVIOUS
  <2> HIDE DEF first, Night
  <2> QED
    BY <1>8, <2>1
<1> QED
  BY <1>1, <1>9 DEF GoesThrough

\* What is settled: freezes are spent on missed days that follow one that counts, and no more are held
\* than the cap.
IsSettled(s, days, kept, day) ==
    /\ s.spent \subseteq 1 .. day - 1 /\ s.spent \intersect kept = {}
    /\ s.held \in 0 .. FreezeCap /\ s.on \in days \union {0}

LEMMA SettlingIsTyped ==
    ASSUME NEW day \in Int, NEW nights \in Nat, NEW days, NEW kept, kept \subseteq Nat \ {0},
           NEW held \in 0 .. FreezeCap, NEW on \in days \union {0}
    PROVE  IsSettled(Settle(days, kept, held, on, day, nights), days, kept, day)
<1>0. FreezeCap \in Nat \ {0}
  BY StreaksAssumption
<1> DEFINE Good(f) == /\ f = [spent |-> f.spent, held |-> f.held, on |-> f.on]
                      /\ f.spent \subseteq 1 .. day - 1 /\ f.spent \intersect kept = {}
                      /\ f.held \in 0 .. FreezeCap /\ f.on \in days \union {0}
<1>1. PICK f : GoesThrough(f, days, kept, held, on, day, nights)
  BY SettlesDayByDay
<1>2. ASSUME NEW x, Good(x), NEW d \in Int, d < day PROVE Good(Spend(x, kept, d))
  <2>1. CASE x.held > 0 /\ FreezeNeeded(kept \union x.spent, d)
    <3>1. PICK y : y = [spent |-> x.spent \union {d}, held |-> x.held - 1, on |-> x.on]
      OBVIOUS
    <3>2. Spend(x, kept, d) = y
      <4>1. PICK a, b, c : x = [spent |-> a, held |-> b, on |-> c] /\ a = x.spent /\ b = x.held /\ c = x.on
        BY <1>2
      <4>2. PICK z : z = [spent |-> a \union {d}, held |-> b, on |-> c]
        OBVIOUS
      <4>3. [x EXCEPT !.spent = @ \union {d}] = z
        BY <4>1, <4>2
      <4>4. [z EXCEPT !.held = b - 1] = y
        BY <3>1, <4>1, <4>2
      <4>5. [x EXCEPT !.spent = @ \union {d}, !.held = @ - 1] = y
        BY <4>1, <4>2, <4>3, <4>4
      <4> QED
        BY <2>1, <4>5 DEF Spend
    <3>3. d \notin kept /\ d - 1 \in kept \union x.spent
      BY <2>1 DEF FreezeNeeded
    <3>4. d - 1 >= 1 /\ d \in 1 .. day - 1
      BY <1>2, <3>3
    <3>5. x.held - 1 \in 0 .. FreezeCap
      BY <1>0, <1>2, <2>1
    <3>6. y.spent = x.spent \union {d} /\ y.held = x.held - 1 /\ y.on = x.on
          /\ y = [spent |-> y.spent, held |-> y.held, on |-> y.on]
      BY <3>1
    <3> QED
      BY <1>2, <3>2, <3>3, <3>4, <3>5, <3>6
  <2>2. CASE ~(x.held > 0 /\ FreezeNeeded(kept \union x.spent, d))
    BY <1>2, <2>2 DEF Spend
  <2> QED
    BY <2>1, <2>2
<1>3. ASSUME NEW x, Good(x), NEW d PROVE Good(Earn(x, kept, days, d))
  <2>1. CASE FreezeEarned(kept \union x.spent, days, d) /\ x.on < d /\ x.held < FreezeCap
    <3>1. PICK y : y = [spent |-> x.spent, held |-> x.held + 1, on |-> d]
      OBVIOUS
    <3>2. Earn(x, kept, days, d) = y
      <4>1. PICK a, b, c : x = [spent |-> a, held |-> b, on |-> c] /\ a = x.spent /\ b = x.held /\ c = x.on
        BY <1>3
      <4>2. PICK z : z = [spent |-> a, held |-> b + 1, on |-> c]
        OBVIOUS
      <4>3. [x EXCEPT !.held = @ + 1] = z
        BY <4>1, <4>2
      <4>4. [z EXCEPT !.on = d] = y
        BY <3>1, <4>1, <4>2
      <4>5. [x EXCEPT !.held = @ + 1, !.on = d] = y
        BY <4>1, <4>2, <4>3, <4>4
      <4> QED
        BY <2>1, <4>5 DEF Earn
    <3>3. d \in days
      BY <2>1 DEF FreezeEarned
    <3>4. x.held + 1 \in 0 .. FreezeCap
      BY <1>0, <1>3, <2>1
    <3>5. y.spent = x.spent /\ y.held = x.held + 1 /\ y.on = d /\ y = [spent |-> y.spent, held |-> y.held, on |-> y.on]
      BY <3>1
    <3> QED
      BY <1>3, <3>2, <3>3, <3>4, <3>5
  <2>2. CASE ~(FreezeEarned(kept \union x.spent, days, d) /\ x.on < d /\ x.held < FreezeCap)
    BY <1>3, <2>2 DEF Earn
  <2> QED
    BY <2>1, <2>2
<1> DEFINE K == {n \in Nat : n <= nights => Good(f[n])}
<1>4. 0 \in K
  <2>1. f[0] = [spent |-> {}, held |-> held, on |-> on]
    BY <1>1 DEF GoesThrough
  <2> QED
    BY <2>1
<1>5. ASSUME NEW n \in Nat, n \in K PROVE n + 1 \in K
  <2> SUFFICES ASSUME n + 1 <= nights PROVE Good(f[n + 1])
    OBVIOUS
  <2>1. Good(f[n])
    BY <1>5
  <2>2. n + 1 \in 1 .. nights /\ n + 1 - 1 = n
    OBVIOUS
  <2>3. PICK d \in Int : d = day - (nights - (n + 1) + 1)
    OBVIOUS
  <2>4. d < day
    BY <2>3
  <2>5. f[n + 1] = Earn(Spend(f[n], kept, d), kept, days, d)
    BY <1>1, <2>2, <2>3 DEF GoesThrough
  <2> HIDE DEF Good
  <2> QED
    BY <1>2, <1>3, <2>1, <2>4, <2>5
<1>6. nights \in K
  <2> HIDE DEF K
  <2> QED
    BY <1>4, <1>5, Induction
<1>7. Good(f[nights])
  <2> HIDE DEF Good
  <2> QED
    BY <1>6
<1> QED
  BY <1>1, <1>7 DEF GoesThrough, IsSettled

\* Types; and while a day may still be played, no freeze is spent on it unless `off`.
StreaksInv ==
    /\ StreaksTypeOK /\ freezes = [held |-> freezes.held, on |-> freezes.on]
    /\ asked \in {0, today} \/ (asked = today - 1 /\ carries)
    /\ off \/ asked = 0 \/ asked \notin saved

LEMMA StreaksStart == StreakInit => StreaksInv
<1> SUFFICES ASSUME StreakInit PROVE StreaksInv
  OBVIOUS
<1>1. LastDay \in Nat \ {0} /\ FreezeCap \in Nat \ {0}
  BY StreaksAssumption
<1>2. today = 1 /\ carries = FALSE /\ asked = 0 /\ played = {} /\ saved = {} /\ ran = 1 /\ off = FALSE
      /\ freezes = [held |-> 0, on |-> 0]
  BY DEF StreakInit
<1>3. freezes.held = 0 /\ freezes.on = 0 /\ freezes = [held |-> freezes.held, on |-> freezes.on]
  BY <1>2
<1>4. StreaksTypeOK
  <2>1. today \in 1 .. LastDay
    BY <1>1, <1>2
  <2>4. carries \in BOOLEAN /\ off \in BOOLEAN
    BY <1>2
  <2>5. asked \in 0 .. today /\ ran \in 1 .. today
    BY <1>2
  <2>3. played \subseteq 1 .. today /\ saved \subseteq 1 .. today - 1 /\ saved \intersect played = {}
    BY <1>2
  <2>2. freezes.held \in 0 .. FreezeCap /\ freezes.on \in played \union {0}
    BY <1>1, <1>3
  <2> QED
    BY <2>1, <2>2, <2>3, <2>4, <2>5 DEF StreaksTypeOK
<1> QED
  BY <1>2, <1>3, <1>4 DEF StreaksInv

LEMMA NightsAreTyped ==
    ASSUME StreaksInv, Nightly
    PROVE  StreaksInv'
<1>1. today \in Nat \ {0} /\ CatchUp \in Nat /\ FreezeCap \in Nat /\ today \in 1 .. today
  BY StreaksAssumption DEF StreaksInv, StreaksTypeOK
<1>2. played \subseteq 1 .. today /\ saved \subseteq 1 .. today - 1
  BY DEF StreaksInv, StreaksTypeOK
<1>3. played \union saved \subseteq Nat \ {0}
  BY <1>1, <1>2
<1>4. PICK due : due = Due
  OBVIOUS
<1>5. /\ due.spent \subseteq 1 .. today - 1 /\ due.spent \intersect (played \union saved) = {}
      /\ due.held \in 0 .. FreezeCap /\ due.on \in played \union {0}
  <2>1. freezes.held \in 0 .. FreezeCap /\ freezes.on \in played \union {0}
    BY DEF StreaksInv, StreaksTypeOK
  <2>2. due = Settle(played, played \union saved, freezes.held, freezes.on, today, CatchUp)
    BY <1>4 DEF Due
  <2>3. IsSettled(due, played, played \union saved, today)
    BY <1>1, <1>3, <2>1, <2>2, SettlingIsTyped
  <2> QED
    BY <2>3 DEF IsSettled
<1>6. /\ saved' \in {saved, saved \union due.spent}
      /\ freezes' \in {freezes, [held |-> due.held, on |-> due.on]}
      /\ ran' = today /\ UNCHANGED <<today, carries, asked, played>>
  BY <1>4 DEF Nightly
<1>7. off' \in BOOLEAN /\ (off => off') /\ (Carried => off')
  <2>1. CASE off \/ Carried
    BY <2>1 DEF Nightly
  <2>2. CASE ~(off \/ Carried)
    BY <2>2 DEF Nightly
  <2> QED
    BY <2>1, <2>2
<1>8. /\ freezes'.held \in 0 .. FreezeCap /\ freezes'.on \in played \union {0}
      /\ freezes' = [held |-> freezes'.held, on |-> freezes'.on]
  <2>1. CASE freezes' = freezes
    BY <2>1 DEF StreaksInv, StreaksTypeOK
  <2>2. CASE freezes' = [held |-> due.held, on |-> due.on]
    BY <1>5, <2>2
  <2> QED
    BY <1>6, <2>1, <2>2
<1>9. saved' \subseteq 1 .. today - 1 /\ (off' \/ saved' \intersect played = {})
  BY <1>2, <1>5, <1>6, <1>7 DEF StreaksInv, StreaksTypeOK
<1>10. off' \/ asked = 0 \/ asked \notin saved'
  <2>1. CASE asked = today
    BY <1>1, <1>9, <2>1
  <2>2. CASE asked # 0 /\ asked # today
    BY <1>7, <2>2 DEF StreaksInv, Carried
  <2> QED
    BY <2>1, <2>2
<1> QED
  BY <1>1, <1>6, <1>7, <1>8, <1>9, <1>10 DEF StreaksInv, StreaksTypeOK

LEMMA DaysAreTyped ==
    ASSUME StreaksInv, Ask \/ AnswerInTime \/ Morning \/ Midnight \/ UNCHANGED streakVars
    PROVE  StreaksInv'
<1>1. LastDay \in Nat /\ today \in Nat \ {0} /\ today <= LastDay /\ 0 \in 0 .. today /\ today \in 0 .. today
  BY StreaksAssumption DEF StreaksInv, StreaksTypeOK
<1>2. CASE Ask
  <2>1. asked' = today /\ UNCHANGED <<today, carries, played, saved, freezes, ran, off>>
    BY <1>2 DEF Ask
  <2>2. today \notin saved
    BY <1>1 DEF StreaksInv, StreaksTypeOK
  <2> QED
    BY <1>1, <2>1, <2>2 DEF StreaksInv, StreaksTypeOK
<1>3. CASE AnswerInTime
  <2>1. /\ asked # 0 /\ asked' = 0 /\ played' = played \union {asked}
        /\ UNCHANGED <<today, carries, saved, freezes, ran, off>>
    BY <1>3 DEF AnswerInTime
  <2>2. asked \in 1 .. today
    BY <1>1, <2>1 DEF StreaksInv, StreaksTypeOK
  <2>3. played' \subseteq 1 .. today /\ freezes.on \in played' \union {0}
        /\ (off \/ saved \intersect played' = {})
    BY <2>1, <2>2 DEF StreaksInv, StreaksTypeOK
  <2> QED
    BY <1>1, <2>1, <2>3 DEF StreaksInv, StreaksTypeOK
<1>4. CASE Morning
  <2>1. carries' = FALSE /\ asked' = (IF asked = today THEN asked ELSE 0)
        /\ UNCHANGED <<today, played, saved, freezes, ran, off>>
    BY <1>4 DEF Morning
  <2> QED
    BY <1>1, <2>1 DEF StreaksInv, StreaksTypeOK
<1>5. CASE Midnight
  <2>1. /\ ~carries /\ today < LastDay /\ today' = today + 1 /\ carries' = TRUE
        /\ UNCHANGED <<asked, played, saved, freezes, ran>>
    BY <1>5 DEF Midnight
  <2>2. off' \in BOOLEAN /\ (off => off')
    <3> DEFINE or == off \/ today + 1 - ran > CatchUp \/ Refused(OneNight(today), today - 1)
    <3>1. off' = or
      BY <1>5 DEF Midnight
    <3>2. off => or
      OBVIOUS
    <3> HIDE DEF or
    <3>3. CASE or
      BY <1>5, <3>3 DEF Midnight, or
    <3>4. CASE ~or
      BY <1>5, <3>4 DEF Midnight, or
    <3> QED
      BY <3>1, <3>2, <3>3, <3>4
  <2>3. today' \in 1 .. LastDay /\ 1 .. today \subseteq 1 .. today' /\ 0 .. today \subseteq 0 .. today'
        /\ 1 .. today - 1 \subseteq 1 .. today' - 1
    BY <1>1, <2>1
  <2>4. asked \in {0, today} /\ today = today' - 1
    BY <1>1, <2>1 DEF StreaksInv
  <2>5. StreaksTypeOK'
    BY <2>1, <2>2, <2>3 DEF StreaksInv, StreaksTypeOK
  <2> QED
    BY <2>1, <2>2, <2>4, <2>5 DEF StreaksInv
<1>6. CASE UNCHANGED streakVars
  BY <1>6 DEF streakVars, StreaksInv, StreaksTypeOK
<1> QED
  BY <1>2, <1>3, <1>4, <1>5, <1>6

\* The variables keep their types, no more freezes are held than the cap, and unless the job failed for days
\* or ran while yesterday's question was open, none is kept for a day that was played (streaks.py: nightly).
THEOREM StreaksAreTyped == StreakSpec => []StreaksTypeOK
<1>1. StreaksInv /\ [StreakNext]_streakVars => StreaksInv'
  BY NightsAreTyped, DaysAreTyped DEF StreakNext
<1>2. StreaksInv => StreaksTypeOK
  BY DEF StreaksInv
<1> QED
  BY StreaksStart, <1>1, <1>2, PTL DEF StreakSpec

-------------------------------------------------------------------------------
(* Streaks: as if the job had run every night                              *)

\* Freezes, the days they were spent on and the day of the last one earned, after the night of a day.
Spends(f, days, d) == f.held > 0 /\ FreezeNeeded(days \union f.spent, d)
Earns(f, days, d) == FreezeEarned(days \union f.spent, days, d) /\ f.on < d /\ f.held < FreezeCap
NightAfter(f, days, d) ==
    IF Spends(f, days, d) THEN [spent |-> f.spent \union {d}, held |-> f.held - 1, on |-> f.on]
    ELSE IF Earns(f, days, d) THEN [spent |-> f.spent, held |-> f.held + 1, on |-> d]
    ELSE f

\* What is due, together with what was stored.
With(kept, f) == [spent |-> kept \union f.spent, held |-> f.held, on |-> f.on]
IsFreezes(f) == f = [spent |-> f.spent, held |-> f.held, on |-> f.on]

\* A day that is settled is a night of that day, on top of what was stored.
LEMMA SettledIsANight ==
    ASSUME NEW x, IsFreezes(x), NEW kept, NEW days, NEW d,
           NEW y, y = Earn(Spend(x, days \union kept, d), days \union kept, days, d)
    PROVE  IsFreezes(y) /\ With(kept, y) = NightAfter(With(kept, x), days, d)
<1>1. PICK a, b, c : x = [spent |-> a, held |-> b, on |-> c] /\ a = x.spent /\ b = x.held /\ c = x.on
  BY DEF IsFreezes
<1>w. PICK w : w = [spent |-> kept \union a, held |-> b, on |-> c]
  OBVIOUS
<1>2. w = With(kept, x) /\ w = [spent |-> kept \union a, held |-> b, on |-> c]
      /\ w.spent = kept \union a /\ w.held = b /\ w.on = c
  <2>1. w = With(kept, x)
    BY <1>1, <1>w DEF With
  <2> QED
    BY <1>w, <2>1
<1>3. days \union kept \union a = days \union w.spent
  BY <1>2
<1>4. CASE Spends(w, days, d)
  <2>1. PICK z : z = [spent |-> a \union {d}, held |-> b - 1, on |-> c]
    OBVIOUS
  <2>2. Spend(x, days \union kept, d) = z
    <3>1. b > 0 /\ FreezeNeeded(days \union kept \union a, d)
      BY <1>2, <1>3, <1>4 DEF Spends
    <3>2. PICK u : u = [spent |-> a \union {d}, held |-> b, on |-> c]
      OBVIOUS
    <3>3. [x EXCEPT !.spent = @ \union {d}] = u
      BY <1>1, <3>2
    <3>4. [u EXCEPT !.held = b - 1] = z
      BY <2>1, <3>2
    <3>5. [x EXCEPT !.spent = @ \union {d}, !.held = @ - 1] = z
      BY <1>1, <3>2, <3>3, <3>4
    <3> QED
      BY <1>1, <3>1, <3>5 DEF Spend
  <2>3. d \notin days
    BY <1>2, <1>4 DEF Spends, FreezeNeeded
  <2>4. y = z
    BY <2>2, <2>3 DEF Earn, FreezeEarned
  <2>5. With(kept, z) = [spent |-> w.spent \union {d}, held |-> b - 1, on |-> c]
    <3>1. kept \union (a \union {d}) = w.spent \union {d}
      BY <1>2
    <3> QED
      BY <2>1, <3>1 DEF With
  <2>6. IsFreezes(z)
    BY <2>1 DEF IsFreezes
  <2> QED
    BY <1>2, <1>4, <2>4, <2>5, <2>6 DEF NightAfter
<1>5. CASE ~Spends(w, days, d)
  <2>1. Spend(x, days \union kept, d) = x
    BY <1>1, <1>2, <1>3, <1>5 DEF Spend, Spends
  <2>2. CASE Earns(w, days, d)
    <3>1. PICK z : z = [spent |-> a, held |-> b + 1, on |-> d]
      OBVIOUS
    <3>2. y = z
      <4>1. FreezeEarned(days \union kept \union a, days, d) /\ c < d /\ b < FreezeCap
        BY <1>2, <1>3, <2>2 DEF Earns
      <4>2. PICK u : u = [spent |-> a, held |-> b + 1, on |-> c]
        OBVIOUS
      <4>3. [x EXCEPT !.held = @ + 1] = u
        BY <1>1, <4>2
      <4>4. [u EXCEPT !.on = d] = z
        BY <3>1, <4>2
      <4>5. [x EXCEPT !.held = @ + 1, !.on = d] = z
        BY <1>1, <4>2, <4>3, <4>4
      <4> QED
        BY <1>1, <2>1, <4>1, <4>5 DEF Earn
    <3>3. With(kept, z) = [spent |-> w.spent, held |-> b + 1, on |-> d] /\ IsFreezes(z)
      BY <1>2, <3>1 DEF With, IsFreezes
    <3> QED
      BY <1>2, <1>5, <2>2, <3>2, <3>3 DEF NightAfter
  <2>3. CASE ~Earns(w, days, d)
    <3>1. ~(FreezeEarned(days \union kept \union a, days, d) /\ c < d /\ b < FreezeCap)
      BY <1>2, <1>3, <2>3 DEF Earns
    <3>2. y = x
      BY <1>1, <2>1, <3>1 DEF Earn
    <3> QED
      BY <1>2, <1>5, <2>3, <3>2 DEF NightAfter
  <2> QED
    BY <2>2, <2>3
<1> QED
  BY <1>4, <1>5


LEMMA OneNightIsANight ==
    ASSUME NEW day \in Int, IsFreezes(nightly)
    PROVE  OneNight(day) = NightAfter(nightly, played, day - 1)
<1>1. PICK kept, held, on : kept = nightly.spent /\ held = nightly.held /\ on = nightly.on
  OBVIOUS
<1>2. nightly = [spent |-> kept, held |-> held, on |-> on]
  BY <1>1 DEF IsFreezes
<1>3. PICK f : GoesThrough(f, played, played \union kept, held, on, day, 1)
  BY SettlesDayByDay
<1>4. PICK x : x = [spent |-> {}, held |-> held, on |-> on]
  OBVIOUS
<1>5. PICK y : y = Settle(played, played \union kept, held, on, day, 1)
  OBVIOUS
<1>6. y = Earn(Spend(x, played \union kept, day - 1), played \union kept, played, day - 1)
  <2>1. 1 \in 1 .. 1 /\ day - (1 - 1 + 1) = day - 1 /\ 1 - 1 = 0
    OBVIOUS
  <2>2. f[1] = Earn(Spend(f[0], played \union kept, day - 1), played \union kept, played, day - 1) /\ f[0] = x
    BY <1>3, <1>4, <2>1 DEF GoesThrough
  <2>3. y = f[1]
    BY <1>3, <1>5 DEF GoesThrough
  <2> QED
    BY <2>2, <2>3
<1>7. IsFreezes(x)
  BY <1>4 DEF IsFreezes
<1>8. With(kept, x) = nightly
  <2>1. kept \union x.spent = kept
    BY <1>4
  <2> QED
    BY <1>2, <1>4, <2>1 DEF With
<1>9. IsFreezes(y) /\ With(kept, y) = NightAfter(nightly, played, day - 1)
  BY <1>6, <1>7, <1>8, SettledIsANight
<1>10. OneNight(day) = [y EXCEPT !.spent = @ \union kept]
  BY <1>1, <1>5 DEF OneNight
<1>11. [y EXCEPT !.spent = @ \union kept] = With(kept, y)
  <2>1. PICK a, b, c : y = [spent |-> a, held |-> b, on |-> c] /\ a = y.spent /\ b = y.held /\ c = y.on
    BY <1>9 DEF IsFreezes
  <2>2. [y EXCEPT !.spent = @ \union kept] = [spent |-> kept \union a, held |-> b, on |-> c]
    <3>1. a \union kept = kept \union a
      OBVIOUS
    <3>2. [y EXCEPT !.spent = a \union kept] = [spent |-> a \union kept, held |-> b, on |-> c]
      BY <2>1
    <3> QED
      BY <2>1, <3>1, <3>2
  <2> QED
    BY <2>1, <2>2 DEF With
<1> QED
  BY <1>9, <1>10, <1>11

\* A streak is as long as the days since one that is missing, at most.
LEMMA StreaksStop ==
    ASSUME NEW kept, kept \subseteq Int, NEW day \in kept, NEW d \in Int, d \notin kept, d < day
    PROVE  Streak(kept, day) \in 1 .. day - d
<1> DEFINE X == {x \in kept : x <= day /\ x .. day \subseteq kept}
<1>1. Streak(kept, day) = Cardinality(X)
  BY DEF Streak
<1>2. X \subseteq d + 1 .. day
  <2> SUFFICES ASSUME NEW x \in X PROVE x \in d + 1 .. day
    OBVIOUS
  <2>1. x \in Int /\ x <= day /\ x .. day \subseteq kept
    OBVIOUS
  <2>2. ~ x <= d
    <3>1. x <= d => d \in x .. day
      BY <2>1
    <3> QED
      BY <2>1, <3>1
  <2> QED
    BY <2>1, <2>2
<1>3. IsFiniteSet(d + 1 .. day) /\ Cardinality(d + 1 .. day) = day - d
  BY FS_Interval
<1>4. IsFiniteSet(X) /\ Cardinality(X) <= day - d /\ Cardinality(X) \in Nat
  BY <1>2, <1>3, FS_Subset, FS_CardinalityType
<1>5. day \in X
  <2>1. day .. day \subseteq kept
    OBVIOUS
  <2> QED
    BY <2>1
<1>6. Cardinality(X) # 0
  BY <1>4, <1>5, FS_EmptySet
<1> HIDE DEF X
<1> QED
  BY <1>1, <1>4, <1>6

\* A streak, and what is settled of a day, depends on no day after it.
Agree(days, others, d) == \A x \in Int : x <= d => (x \in days <=> x \in others)

LEMMA StreaksAreLocal ==
    ASSUME NEW kept, NEW others, kept \subseteq Int, others \subseteq Int, NEW day \in Int, Agree(kept, others, day)
    PROVE  Streak(kept, day) = Streak(others, day)
<1>1. day \in kept <=> day \in others
  BY DEF Agree
<1>2. PICK last : last = (IF day \in kept THEN day ELSE day - 1)
  OBVIOUS
<1>3. last \in Int /\ last <= day
  BY <1>2
<1>4. ASSUME NEW x \in Int, x <= last PROVE x .. last \subseteq kept <=> x .. last \subseteq others
  <2>1. \A z \in x .. last : z \in Int /\ z <= day
    BY <1>3
  <2> QED
    BY <2>1 DEF Agree
<1>5. {x \in kept : x <= last /\ x .. last \subseteq kept} = {x \in others : x <= last /\ x .. last \subseteq others}
  <2>1. ASSUME NEW x, x \in kept, x <= last, x .. last \subseteq kept PROVE x \in others /\ x .. last \subseteq others
    <3>1. x \in Int /\ x <= day
      BY <1>3, <2>1
    <3> QED
      BY <1>4, <2>1, <3>1 DEF Agree
  <2>2. ASSUME NEW x, x \in others, x <= last, x .. last \subseteq others PROVE x \in kept /\ x .. last \subseteq kept
    <3>1. x \in Int /\ x <= day
      BY <1>3, <2>2
    <3> QED
      BY <1>4, <2>2, <3>1 DEF Agree
  <2> QED
    BY <2>1, <2>2
<1>6. Streak(kept, day) = Cardinality({x \in kept : x <= last /\ x .. last \subseteq kept})
  BY <1>2 DEF Streak
<1>7. Streak(others, day) = Cardinality({x \in others : x <= last /\ x .. last \subseteq others})
  BY <1>1, <1>2 DEF Streak
<1> QED
  BY <1>5, <1>6, <1>7

LEMMA NightsAreLocal ==
    ASSUME NEW f, f.spent \subseteq Int, NEW days, NEW others, days \subseteq Int, others \subseteq Int,
           NEW d \in Int, Agree(days, others, d)
    PROVE  NightAfter(f, days, d) = NightAfter(f, others, d)
           /\ (FreezeEarned(days \union f.spent, days, d) <=> FreezeEarned(others \union f.spent, others, d))
<1>1. Agree(days \union f.spent, others \union f.spent, d)
  BY DEF Agree
<1>2. Streak(days \union f.spent, d) = Streak(others \union f.spent, d)
  BY <1>1, StreaksAreLocal
<1>3. d \in days <=> d \in others
  BY DEF Agree
<1>4. FreezeEarned(days \union f.spent, days, d) <=> FreezeEarned(others \union f.spent, others, d)
  BY <1>2, <1>3 DEF FreezeEarned
<1>5. Spends(f, days, d) <=> Spends(f, others, d)
  <2>1. (d \in days \union f.spent <=> d \in others \union f.spent)
        /\ (d - 1 \in days \union f.spent <=> d - 1 \in others \union f.spent)
    BY <1>1 DEF Agree
  <2> QED
    BY <2>1 DEF Spends, FreezeNeeded
<1>6. Earns(f, days, d) <=> Earns(f, others, d)
  BY <1>4 DEF Earns
<1> QED
  BY <1>4, <1>5, <1>6 DEF NightAfter


\* What is held, spent and earned after the nights up to a day.
Freezes(f, d) ==
    /\ IsFreezes(f) /\ f.spent \subseteq 1 .. d /\ f.held \in 0 .. FreezeCap
    /\ f.on \in Nat /\ (f.on = 0 \/ f.on <= d)

\* g follows from f by a night of day d.
FollowsBy(f, g, days, d) ==
    /\ Freezes(g, d) /\ f.on <= g.on /\ f.spent \subseteq g.spent /\ g.spent \subseteq f.spent \union {d}
    /\ FreezeEarned(days \union g.spent, days, d) => g.on = d \/ g.held = FreezeCap
    /\ d \notin days \union g.spent /\ d - 1 \in days \union f.spent => g.held = 0
    /\ f.held = 0 /\ ~FreezeEarned(days \union f.spent, days, d) => g.held = 0
    /\ f.held = 0 /\ d \notin days => g = f

LEMMA NightsFollow ==
    ASSUME NEW d \in Int, NEW f, Freezes(f, d - 1), NEW days, days \subseteq Nat \ {0}
    PROVE  FollowsBy(f, NightAfter(f, days, d), days, d)
<1>1. FreezeCap \in Nat \ {0}
  BY StreaksAssumption
<1>2. /\ f = [spent |-> f.spent, held |-> f.held, on |-> f.on]
      /\ f.spent \subseteq 1 .. d - 1 /\ f.held \in 0 .. FreezeCap
      /\ f.on \in Nat /\ (f.on = 0 \/ f.on <= d - 1)
  BY DEF Freezes, IsFreezes
<1>3. d \in days => d >= 1 /\ f.on < d
  BY <1>2
<1>4. d \notin f.spent
  BY <1>2
<1>5. PICK g : g = NightAfter(f, days, d)
  OBVIOUS
<1>6. CASE Spends(f, days, d)
  <2>1. g = [spent |-> f.spent \union {d}, held |-> f.held - 1, on |-> f.on]
    BY <1>5, <1>6 DEF NightAfter
  <2>2. g.spent = f.spent \union {d} /\ g.held = f.held - 1 /\ g.on = f.on /\ IsFreezes(g)
    BY <2>1 DEF IsFreezes
  <2>3. f.held > 0 /\ d \notin days /\ d - 1 \in days \union f.spent
    BY <1>6 DEF Spends, FreezeNeeded
  <2>4. d - 1 >= 1
    BY <1>2, <2>3
  <2>5. g.spent \subseteq 1 .. d
    BY <1>2, <2>2, <2>4
  <2>6. g.held \in 0 .. FreezeCap
    BY <1>1, <1>2, <2>2, <2>3
  <2>7. Freezes(g, d)
    BY <1>2, <2>2, <2>5, <2>6 DEF Freezes
  <2>8. ~FreezeEarned(days \union g.spent, days, d)
    BY <2>3 DEF FreezeEarned
  <2> QED
    BY <1>2, <1>5, <2>2, <2>3, <2>7, <2>8 DEF FollowsBy
<1>7. CASE ~Spends(f, days, d) /\ Earns(f, days, d)
  <2>1. g = [spent |-> f.spent, held |-> f.held + 1, on |-> d]
    BY <1>5, <1>7 DEF NightAfter
  <2>2. g.spent = f.spent /\ g.held = f.held + 1 /\ g.on = d /\ IsFreezes(g)
    BY <2>1 DEF IsFreezes
  <2>3. d \in days /\ f.held < FreezeCap /\ FreezeEarned(days \union f.spent, days, d)
    BY <1>7 DEF Earns, FreezeEarned
  <2>4. g.held \in 0 .. FreezeCap
    BY <1>1, <1>2, <2>2, <2>3
  <2>5. g.spent \subseteq 1 .. d
    BY <1>2, <2>2
  <2>6. Freezes(g, d)
    BY <1>3, <2>2, <2>3, <2>4, <2>5 DEF Freezes
  <2> QED
    BY <1>2, <1>3, <1>5, <2>2, <2>3, <2>6 DEF FollowsBy
<1>8. CASE ~Spends(f, days, d) /\ ~Earns(f, days, d)
  <2>1. g = f
    BY <1>5, <1>8 DEF NightAfter
  <2>2. f.spent \subseteq 1 .. d /\ (f.on = 0 \/ f.on <= d)
    BY <1>2
  <2>3. Freezes(g, d)
    BY <1>2, <2>1, <2>2 DEF Freezes, IsFreezes
  <2>4. FreezeEarned(days \union f.spent, days, d) => f.held = FreezeCap
    <3>1. SUFFICES ASSUME FreezeEarned(days \union f.spent, days, d) PROVE f.held = FreezeCap
      OBVIOUS
    <3>2. f.on < d
      BY <1>3, <3>1 DEF FreezeEarned
    <3>3. ~(f.held < FreezeCap)
      BY <1>8, <3>1, <3>2 DEF Earns
    <3> QED
      BY <1>1, <1>2, <3>3
  <2>5. d \notin days \union f.spent /\ d - 1 \in days \union f.spent => f.held = 0
    BY <1>2, <1>8 DEF Spends, FreezeNeeded
  <2> QED
    BY <1>2, <1>5, <2>1, <2>3, <2>4, <2>5 DEF FollowsBy
<1> QED
  BY <1>6, <1>7, <1>8

\* The nights one after another, from before the first day.
NoFreezes == [spent |-> {}, held |-> 0, on |-> 0]
Nights(f, days, last) ==
    /\ f[-1] = NoFreezes
    /\ \A d \in 0 .. last : f[d] = NightAfter(f[d - 1], days, d)

LEMMA NightsAreFreezes ==
    ASSUME NEW f, NEW days, days \subseteq Nat \ {0}, NEW last \in Int, Nights(f, days, last)
    PROVE  /\ \A d \in -1 .. last : Freezes(f[d], d)
           /\ \A d \in 0 .. last : FollowsBy(f[d - 1], f[d], days, d)
<1> DEFINE K == {n \in Nat : n - 1 <= last => Freezes(f[n - 1], n - 1)}
<1>1. 0 \in K
  <2>1. f[0 - 1] = NoFreezes
    BY DEF Nights
  <2>2. NoFreezes.spent = {} /\ NoFreezes.held = 0 /\ NoFreezes.on = 0 /\ IsFreezes(NoFreezes)
    BY DEF NoFreezes, IsFreezes
  <2>3. 0 \in 0 .. FreezeCap
    BY StreaksAssumption
  <2>4. Freezes(NoFreezes, 0 - 1)
    BY <2>2, <2>3 DEF Freezes
  <2> QED
    BY <2>1, <2>4
<1>2. ASSUME NEW n \in Nat, n \in K PROVE n + 1 \in K
  <2> SUFFICES ASSUME n + 1 - 1 <= last PROVE Freezes(f[n + 1 - 1], n + 1 - 1)
    OBVIOUS
  <2>1. n \in 0 .. last /\ n + 1 - 1 = n
    OBVIOUS
  <2>2. f[n] = NightAfter(f[n - 1], days, n)
    BY <2>1 DEF Nights
  <2>3. Freezes(f[n - 1], n - 1)
    BY <1>2, <2>1
  <2>4. FollowsBy(f[n - 1], f[n], days, n)
    <3>1. PICK x : x = f[n - 1]
      OBVIOUS
    <3>2. n \in Int /\ Freezes(x, n - 1)
      BY <2>3, <3>1
    <3>3. FollowsBy(x, NightAfter(x, days, n), days, n)
      BY <3>2, NightsFollow
    <3> QED
      BY <2>2, <3>1, <3>3
  <2> QED
    BY <2>1, <2>4 DEF FollowsBy
<1>3. Nat \subseteq K
  <2> HIDE DEF K
  <2> QED
    BY <1>1, <1>2, Induction
<1>4. ASSUME NEW d \in -1 .. last PROVE Freezes(f[d], d)
  <2>1. d + 1 \in K /\ d + 1 - 1 = d /\ d <= last
    BY <1>3
  <2> QED
    BY <2>1
<1>5. ASSUME NEW d \in 0 .. last PROVE FollowsBy(f[d - 1], f[d], days, d)
  <2>1. d - 1 \in -1 .. last
    OBVIOUS
  <2>2. Freezes(f[d - 1], d - 1)
    BY <1>4, <2>1
  <2>3. PICK x : x = f[d - 1]
    OBVIOUS
  <2>4. d \in Int /\ Freezes(x, d - 1)
    BY <2>2, <2>3
  <2>5. FollowsBy(x, NightAfter(x, days, d), days, d)
    BY <2>4, NightsFollow
  <2> QED
    BY <2>3, <2>5 DEF Nights
<1> QED
  BY <1>4, <1>5

\* What is spent is spent for ever, and on its own night; what is earned is not earned again.
Grows(f, g, d) ==
    /\ f.on <= g.on
    /\ \A x \in Int : x <= d => (x \in f.spent <=> x \in g.spent)

LEMMA NightsGrow ==
    ASSUME NEW f, NEW days, days \subseteq Nat \ {0}, NEW last \in Int, Nights(f, days, last),
           NEW d \in -1 .. last, NEW e \in d .. last
    PROVE  Grows(f[d], f[e], d)
<1> DEFINE K == {n \in Nat : d + n <= last => Grows(f[d], f[d + n], d)}
<1>1. 0 \in K
  <2>1. f[d].on \in Nat
    BY NightsAreFreezes DEF Freezes
  <2>2. d + 0 = d
    OBVIOUS
  <2>3. Grows(f[d], f[d + 0], d)
    BY <2>1, <2>2 DEF Grows
  <2> QED
    BY <2>3
<1>2. ASSUME NEW n \in Nat, n \in K PROVE n + 1 \in K
  <2> SUFFICES ASSUME d + (n + 1) <= last PROVE Grows(f[d], f[d + (n + 1)], d)
    OBVIOUS
  <2>1. PICK e2 \in 0 .. last : e2 = d + (n + 1)
    OBVIOUS
  <2>2. e2 - 1 = d + n /\ d + n <= last /\ d \in -1 .. last /\ e2 - 1 \in -1 .. last /\ d < e2
    BY <2>1
  <2>3. Grows(f[d], f[e2 - 1], d)
    BY <1>2, <2>2
  <2>4. FollowsBy(f[e2 - 1], f[e2], days, e2)
    BY NightsAreFreezes
  <2>5. f[d].on \in Nat /\ f[e2 - 1].on \in Nat /\ f[e2].on \in Nat
    <3>1. Freezes(f[d], d) /\ Freezes(f[e2 - 1], e2 - 1) /\ Freezes(f[e2], e2)
      <4>1. \A x \in -1 .. last : Freezes(f[x], x)
        BY NightsAreFreezes
      <4>2. e2 \in -1 .. last
        OBVIOUS
      <4> QED
        BY <2>2, <4>1, <4>2
    <3> QED
      BY <3>1 DEF Freezes
  <2>6. Grows(f[d], f[e2], d)
    BY <2>2, <2>3, <2>4, <2>5 DEF Grows, FollowsBy
  <2> QED
    BY <2>1, <2>6
<1>3. e - d \in K
  <2> HIDE DEF K
  <2> QED
    BY <1>1, <1>2, Induction
<1>4. d + (e - d) = e /\ e <= last
  OBVIOUS
<1> QED
  BY <1>3, <1>4


\* No day earned less than it would have because of the cap.
NoneRefused(f, days, last) ==
    \A d \in 0 .. last : FreezeEarned(days \union f[d].spent, days, d) => f[d].on = d

\* With nothing held, nothing is held again before a streak is as long as FreezeEvery.
LEMMA NothingComesBack ==
    ASSUME NEW f, NEW days, days \subseteq Nat \ {0}, NEW last \in Int, Nights(f, days, last),
           NEW d \in 0 .. last, NEW e \in d .. last, e - d < FreezeEvery,
           f[d].held = 0, d \notin days \union f[e].spent
    PROVE  f[e].held = 0
<1> DEFINE K == {n \in Nat : d + n <= e => f[d + n].held = 0}
<1>0. FreezeEvery \in Nat \ {0}
  BY StreaksAssumption
<1>1. 0 \in K
  OBVIOUS
<1>2. ASSUME NEW n \in Nat, n \in K PROVE n + 1 \in K
  <2> SUFFICES ASSUME d + (n + 1) <= e PROVE f[d + (n + 1)].held = 0
    OBVIOUS
  <2>1. PICK j \in 0 .. last : j = d + (n + 1)
    OBVIOUS
  <2>2. j \in Int /\ j - 1 = d + n /\ d + n <= e /\ d < j /\ j <= e /\ j - 1 \in -1 .. last /\ e \in j - 1 .. last
        /\ d \in Int /\ d <= j - 1 /\ j - d < FreezeEvery
    BY <1>0, <2>1
  <2>3. f[j - 1].held = 0
    BY <1>2, <2>2
  <2>4. FollowsBy(f[j - 1], f[j], days, j)
    BY NightsAreFreezes
  <2>5. PICK kept : kept = days \union f[j - 1].spent
    OBVIOUS
  <2>6. Grows(f[j - 1], f[e], j - 1)
    BY <2>2, NightsGrow
  <2>7. d \notin kept
    BY <2>2, <2>5, <2>6 DEF Grows
  <2>8. kept \subseteq Int
    <3>1. Freezes(f[j - 1], j - 1)
      BY <2>2, NightsAreFreezes
    <3>2. f[j - 1].spent \subseteq 1 .. j - 1
      BY <3>1 DEF Freezes
    <3>3. f[j - 1].spent \subseteq Int
      BY <2>2, <3>2
    <3>4. days \subseteq Int
      OBVIOUS
    <3> QED
      BY <2>5, <3>3, <3>4
  <2>9. ~FreezeEarned(kept, days, j)
    <3>1. SUFFICES ASSUME j \in days PROVE Streak(kept, j) % FreezeEvery # 0
      BY DEF FreezeEarned
    <3>2. Streak(kept, j) \in 1 .. j - d
      BY <2>2, <2>5, <2>7, <2>8, <3>1, StreaksStop
    <3>3. PICK s \in Nat : s = Streak(kept, j) /\ 0 < s /\ s < FreezeEvery
      BY <1>0, <2>2, <3>2
    <3>4. s % FreezeEvery = s
      BY <1>0, <3>3
    <3> QED
      BY <3>3, <3>4
  <2>10. f[j].held = 0
    BY <2>3, <2>4, <2>5, <2>9 DEF FollowsBy
  <2> QED
    BY <2>1, <2>10
<1>3. e - d \in K
  <2> HIDE DEF K
  <2> QED
    BY <1>1, <1>2, Induction
<1> QED
  BY <1>3

\* A day that was settled, and is settled again within FreezeEvery days, is left as it is.
LEMMA SettlingAgainChangesNothing ==
    ASSUME NEW f, NEW days, days \subseteq Nat \ {0}, NEW last \in Int, Nights(f, days, last),
           NoneRefused(f, days, last - 1),
           NEW e \in -1 .. last, NEW d \in Int, d <= e, last - d < FreezeEvery
    PROVE  NightAfter(f[e], days, d) = f[e]
<1>1. Freezes(f[e], e)
  BY NightsAreFreezes
<1>2. PICK g : g = f[e]
  OBVIOUS
<1>3. /\ IsFreezes(g) /\ g.spent \subseteq 1 .. e /\ g.held \in 0 .. FreezeCap
      /\ g.on \in Nat /\ e \in Int
  BY <1>1, <1>2 DEF Freezes
<1>4. CASE d < 1
  <2>1. d \notin days /\ d - 1 \notin days \union g.spent
    BY <1>3, <1>4
  <2> QED
    BY <1>2, <2>1 DEF NightAfter, Spends, Earns, FreezeNeeded, FreezeEarned
<1>5. CASE d >= 1
  <2>1. d \in 0 .. last /\ d \in -1 .. last /\ d - 1 \in -1 .. last /\ e \in d .. last /\ e \in d - 1 .. last
        /\ e - d < FreezeEvery
    BY <1>3, <1>5, StreaksAssumption
  <2>2. FollowsBy(f[d - 1], f[d], days, d)
    BY <2>1, NightsAreFreezes
  <2>3. Grows(f[d], g, d)
    BY <1>2, <2>1, NightsGrow
  <2>4. Grows(f[d - 1], g, d - 1)
    BY <1>2, <2>1, NightsGrow
  <2>5. ~Spends(g, days, d)
    <3>1. SUFFICES ASSUME g.held > 0, d \notin days \union g.spent, d - 1 \in days \union g.spent PROVE FALSE
      BY DEF Spends, FreezeNeeded
    <3>2. d \notin f[d].spent
      BY <2>3, <3>1 DEF Grows
    <3>3. d - 1 \in days \union f[d - 1].spent
      BY <2>4, <3>1 DEF Grows
    <3>4. f[d].held = 0
      BY <2>2, <3>1, <3>2, <3>3 DEF FollowsBy
    <3>5. f[e].held = 0
      <4>1. d \notin days \union f[e].spent
        BY <1>2, <3>1
      <4> QED
        BY <2>1, <3>4, <4>1, NothingComesBack, ZenonT(40)
    <3> QED
      BY <1>2, <3>1, <3>5
  <2>6. ~Earns(g, days, d)
    <3>1. SUFFICES ASSUME FreezeEarned(days \union g.spent, days, d), g.on < d, g.held < FreezeCap PROVE FALSE
      BY DEF Earns
    <3>2. Freezes(f[d], d)
      BY <2>1, NightsAreFreezes
    <3>3. f[d].spent \subseteq Int /\ f[d].on \in Nat /\ g.spent \subseteq Int
      BY <1>3, <3>2 DEF Freezes
    <3>4. Agree(days \union g.spent, days \union f[d].spent, d)
      BY <2>3 DEF Grows, Agree
    <3>5. Streak(days \union g.spent, d) = Streak(days \union f[d].spent, d)
      <4>1. days \union g.spent \subseteq Int /\ days \union f[d].spent \subseteq Int
        <5>1. days \subseteq Int
          OBVIOUS
        <5> QED
          BY <3>3, <5>1
      <4> QED
        BY <3>4, <4>1, StreaksAreLocal
    <3>6. FreezeEarned(days \union f[d].spent, days, d)
      BY <3>1, <3>5 DEF FreezeEarned
    <3>7. f[d].on # d
      BY <2>3, <3>1, <3>3, <1>3 DEF Grows
    <3>8. f[d].held = FreezeCap
      BY <2>2, <3>6, <3>7 DEF FollowsBy
    <3>9. d = last
      BY <2>1, <3>6, <3>7 DEF NoneRefused
    <3>10. f[d] = g
      BY <1>2, <2>1, <3>9
    <3> QED
      BY <3>1, <3>8, <3>10, StreaksAssumption
  <2> QED
    BY <1>2, <2>5, <2>6 DEF NightAfter
<1> QED
  BY <1>4, <1>5

\* What is due on a day, from what was stored on an earlier one, is what its nights would have left.
NightsUpTo(f, days, day) ==
    /\ days \subseteq Nat \ {0} /\ day \in Nat \ {0}
    /\ Nights(f, days, day - 1) /\ NoneRefused(f, days, day - 2)
InReach(stored, day) == stored \in 0 .. day - 1 /\ day - stored - 1 <= CatchUp

LEMMA CatchingUpIsEnough ==
    ASSUME NEW f, NEW days, NEW day, NightsUpTo(f, days, day), NEW stored, InReach(stored, day),
           NEW g, g = f[stored]
    PROVE  With(g.spent, Settle(days, days \union g.spent, g.held, g.on, day, CatchUp)) = f[day - 1]
<1>0. /\ days \subseteq Nat \ {0} /\ day \in Nat \ {0}
      /\ Nights(f, days, day - 1) /\ NoneRefused(f, days, day - 2)
      /\ stored \in 0 .. day - 1 /\ day - stored - 1 <= CatchUp
  BY DEF NightsUpTo, InReach
<1>s. PICK s : s = Settle(days, days \union g.spent, g.held, g.on, day, CatchUp)
  OBVIOUS
<1>1. CatchUp \in Nat /\ FreezeEvery \in Nat /\ CatchUp < FreezeEvery
  BY StreaksAssumption
<1>2. Freezes(g, stored)
  <2>1. day - 1 \in Int /\ stored \in -1 .. day - 1
    BY <1>0
  <2>2. \A d \in -1 .. day - 1 : Freezes(f[d], d)
    BY <1>0, <2>1, NightsAreFreezes
  <2> QED
    BY <2>1, <2>2
<1>3. PICK kept, held, on : kept = g.spent /\ held = g.held /\ on = g.on
                            /\ g = [spent |-> kept, held |-> held, on |-> on]
  BY <1>2 DEF Freezes, IsFreezes
<1>4. PICK h : GoesThrough(h, days, days \union kept, held, on, day, CatchUp)
  <2>1. day \in Int
    BY <1>0
  <2> QED
    BY <1>1, <2>1, SettlesDayByDay
<1>5. s = h[CatchUp]
  BY <1>3, <1>4, <1>s DEF GoesThrough
<1> DEFINE AsOf(n) == IF day - CatchUp + n - 1 >= stored THEN day - CatchUp + n - 1 ELSE stored
           Right(n) == IsFreezes(h[n]) /\ With(kept, h[n]) = f[AsOf(n)]
           K == {n \in Nat : n <= CatchUp => Right(n)}
<1>6. 0 \in K
  <2>1. h[0] = [spent |-> {}, held |-> held, on |-> on]
    BY <1>4 DEF GoesThrough
  <2>2. PICK x : x = [spent |-> {}, held |-> held, on |-> on]
    OBVIOUS
  <2>3. x.spent = {} /\ x.held = held /\ x.on = on /\ kept \union {} = kept
    BY <2>2
  <2>4. IsFreezes(x) /\ With(kept, x) = g
    BY <1>3, <2>2, <2>3 DEF IsFreezes, With
  <2>5. AsOf(0) = stored
    BY <1>0, <1>1
  <2> QED
    BY <2>1, <2>2, <2>4, <2>5
<1>7. ASSUME NEW n \in Nat, n \in K PROVE n + 1 \in K
  <2> SUFFICES ASSUME n + 1 <= CatchUp PROVE Right(n + 1)
    OBVIOUS
  <2>1. n <= CatchUp /\ n + 1 \in 1 .. CatchUp /\ n + 1 - 1 = n
    BY <1>1
  <2>2. IsFreezes(h[n]) /\ With(kept, h[n]) = f[AsOf(n)]
    BY <1>7, <2>1
  <2>3. PICK d \in Int : d = day - (CatchUp - (n + 1) + 1)
    BY <1>0, <1>1
  <2>4. PICK x : x = h[n]
    OBVIOUS
  <2>5. PICK y : y = h[n + 1]
    OBVIOUS
  <2>6. y = Earn(Spend(x, days \union kept, d), days \union kept, days, d)
    <3>1. PICK m \in 1 .. CatchUp : m = n + 1
      BY <2>1
    <3>2. h[m] = Earn(Spend(h[m - 1], days \union kept, day - (CatchUp - m + 1)), days \union kept, days,
                      day - (CatchUp - m + 1))
      BY <1>4 DEF GoesThrough
    <3>3. m - 1 = n /\ day - (CatchUp - m + 1) = d
      BY <2>1, <2>3, <3>1
    <3> QED
      BY <2>4, <2>5, <3>1, <3>2, <3>3
  <2>7. IsFreezes(x)
    BY <2>2, <2>4
  <2>8. IsFreezes(y) /\ With(kept, y) = NightAfter(With(kept, x), days, d)
    BY <2>6, <2>7, SettledIsANight
  <2>9. With(kept, y) = NightAfter(f[AsOf(n)], days, d)
    BY <2>2, <2>4, <2>8
  <2>10. d = day - CatchUp + n /\ d < day /\ day - 1 - d < FreezeEvery
    BY <1>0, <1>1, <2>1, <2>3
  <2>11. CASE d > stored
    <3>1. AsOf(n) = d - 1 /\ AsOf(n + 1) = d /\ d \in 0 .. day - 1
      BY <1>0, <1>1, <2>10, <2>11
    <3>2. f[d] = NightAfter(f[d - 1], days, d)
      BY <1>0, <3>1 DEF Nights
    <3> QED
      BY <2>5, <2>8, <2>9, <3>1, <3>2
  <2>12. CASE ~(d > stored)
    <3>1. AsOf(n) = stored /\ AsOf(n + 1) = stored
      BY <1>0, <1>1, <2>10, <2>12
    <3>2. NightAfter(f[stored], days, d) = f[stored]
      <4>1. day - 1 \in Int /\ stored \in -1 .. day - 1 /\ d <= stored /\ day - 1 - 1 = day - 2
        BY <1>0, <2>12
      <4> QED
        BY <1>0, <2>10, <4>1, SettlingAgainChangesNothing
    <3> QED
      BY <2>5, <2>8, <2>9, <3>1, <3>2
  <2> QED
    BY <2>11, <2>12
<1>8. CatchUp \in K
  <2> HIDE DEF K
  <2> QED
    BY <1>1, <1>6, <1>7, Induction
<1>9. AsOf(CatchUp) = day - 1
  BY <1>0, <1>1
<1>10. With(kept, h[CatchUp]) = f[AsOf(CatchUp)]
  <2> HIDE DEF AsOf
  <2> QED
    BY <1>1, <1>8
<1> QED
  BY <1>3, <1>5, <1>9, <1>10, <1>s


\* What is played later changes no night before it.
LEMMA NightsStand ==
    ASSUME NEW f, NEW days, NEW others, days \subseteq Nat \ {0}, others \subseteq Nat \ {0}, NEW last \in Int,
           Nights(f, days, last), Agree(days, others, last)
    PROVE  Nights(f, others, last) /\ (NoneRefused(f, days, last) => NoneRefused(f, others, last))
<1>1. ASSUME NEW d \in 0 .. last PROVE f[d] = NightAfter(f[d - 1], others, d)
  <2>1. d \in Int /\ d - 1 \in -1 .. last /\ days \subseteq Int /\ others \subseteq Int /\ Agree(days, others, d)
    BY DEF Agree
  <2>2. Freezes(f[d - 1], d - 1)
    BY <2>1, NightsAreFreezes
  <2>3. PICK x : x = f[d - 1] /\ x.spent \subseteq Int
    BY <2>1, <2>2 DEF Freezes
  <2>4. NightAfter(x, days, d) = NightAfter(x, others, d)
    BY <2>1, <2>3, NightsAreLocal
  <2> QED
    BY <2>3, <2>4 DEF Nights
<1>2. ASSUME NEW d \in 0 .. last, FreezeEarned(others \union f[d].spent, others, d)
      PROVE  FreezeEarned(days \union f[d].spent, days, d)
  <2>1. d \in Int /\ d \in -1 .. last /\ days \subseteq Int /\ others \subseteq Int /\ Agree(days, others, d)
    BY DEF Agree
  <2>2. Freezes(f[d], d)
    BY <2>1, NightsAreFreezes
  <2>3. PICK x : x = f[d] /\ x.spent \subseteq Int
    BY <2>1, <2>2 DEF Freezes
  <2>4. FreezeEarned(days \union x.spent, days, d) <=> FreezeEarned(others \union x.spent, others, d)
    BY <2>1, <2>3, NightsAreLocal
  <2> QED
    BY <1>2, <2>3, <2>4
<1>3. Nights(f, others, last)
  BY <1>1 DEF Nights
<1> QED
  BY <1>2, <1>3 DEF NoneRefused

LEMMA NightsGoOn ==
    ASSUME NEW f, NEW days, NEW last \in Int, -1 <= last, Nights(f, days, last)
    PROVE  \E g : /\ Nights(g, days, last + 1) /\ g[last + 1] = NightAfter(f[last], days, last + 1)
                  /\ \A d \in -1 .. last : g[d] = f[d]
<1> DEFINE g == [d \in -1 .. last + 1 |-> IF d <= last THEN f[d] ELSE NightAfter(f[last], days, last + 1)]
<1>1. \A d \in -1 .. last : g[d] = f[d]
  OBVIOUS
<1>2. g[last + 1] = NightAfter(f[last], days, last + 1)
  OBVIOUS
<1> HIDE DEF g
<1>3. g[-1] = NoFreezes
  BY <1>1 DEF Nights
<1>4. ASSUME NEW d \in 0 .. last + 1 PROVE g[d] = NightAfter(g[d - 1], days, d)
  <2>1. CASE d <= last
    <3>1. d \in 0 .. last /\ d - 1 \in -1 .. last /\ d \in -1 .. last
      BY <2>1
    <3> QED
      BY <1>1, <3>1 DEF Nights
  <2>2. CASE d = last + 1
    <3>1. d - 1 = last /\ last \in -1 .. last
      BY <2>2
    <3>2. g[d - 1] = f[last]
      BY <1>1, <3>1
    <3> QED
      BY <1>2, <2>2, <3>2
  <2> QED
    BY <2>1, <2>2
<1>5. Nights(g, days, last + 1)
  BY <1>3, <1>4 DEF Nights
<1> QED
  BY <1>1, <1>2, <1>5

\* Whoever holds nothing and does not play gets nothing.
LEMMA NothingIsDue ==
    ASSUME NEW f, NEW days, days \subseteq Nat \ {0}, NEW last \in Int, Nights(f, days, last),
           NEW e \in -1 .. last, f[e].held = 0, \A d \in e + 1 .. last : d \notin days
    PROVE  f[last] = f[e]
<1> DEFINE K == {n \in Nat : e + n <= last => f[e + n] = f[e]}
<1>1. 0 \in K
  OBVIOUS
<1>2. ASSUME NEW n \in Nat, n \in K PROVE n + 1 \in K
  <2> SUFFICES ASSUME e + (n + 1) <= last PROVE f[e + (n + 1)] = f[e]
    OBVIOUS
  <2>1. PICK j \in 0 .. last : j = e + (n + 1)
    OBVIOUS
  <2>2. j - 1 = e + n /\ e + n <= last /\ j \in e + 1 .. last
    BY <2>1
  <2>3. f[j - 1] = f[e]
    BY <1>2, <2>2
  <2>4. FollowsBy(f[j - 1], f[j], days, j)
    BY NightsAreFreezes
  <2>5. f[j] = f[j - 1]
    BY <2>2, <2>3, <2>4 DEF FollowsBy
  <2> QED
    BY <2>1, <2>3, <2>5
<1>3. last - e \in K
  <2> HIDE DEF K
  <2> QED
    BY <1>1, <1>2, Induction
<1> QED
  BY <1>3

\* What is stored is what the nights up to the last one that ran have left; `nightly`, what all have.
Stored == [spent |-> saved, held |-> freezes.held, on |-> freezes.on]
Caught(f) ==
    /\ Nights(f, played, today - 2) /\ nightly = f[today - 2]
    /\ off \/ /\ today - ran <= CatchUp /\ NoneRefused(f, played, today - 2)
              /\ ran < today => Stored = f[ran - 1]
              /\ ran = today => (~Carried /\ Stored = NightAfter(f[today - 2], played, today - 1))

NightsInv == StreaksInv /\ \E f : Caught(f)

LEMMA TonightIsANight ==
    ASSUME StreaksInv, NEW f, Caught(f)
    PROVE  \E g : /\ Nights(g, played, today - 1) /\ g[today - 1] = OneNight(today)
                  /\ \A d \in -1 .. today - 2 : g[d] = f[d]
                  /\ off \/ (NoneRefused(g, played, today - 2) /\ Stored = g[ran - 1])
<1>1. today \in Nat \ {0} /\ ran \in 1 .. today /\ played \subseteq 1 .. today /\ played \subseteq Nat \ {0}
  BY StreaksAssumption DEF StreaksInv, StreaksTypeOK
<1>2. today - 2 \in Int /\ -1 <= today - 2 /\ today - 2 + 1 = today - 1 /\ today \in Int /\ today - 2 \in -1 .. today - 2
  BY <1>1
<1>3. Nights(f, played, today - 2) /\ nightly = f[today - 2]
  BY DEF Caught
<1>4. PICK g : /\ Nights(g, played, today - 1) /\ g[today - 1] = NightAfter(f[today - 2], played, today - 1)
               /\ \A d \in -1 .. today - 2 : g[d] = f[d]
  <2>1. \E g : /\ Nights(g, played, today - 2 + 1)
               /\ g[today - 2 + 1] = NightAfter(f[today - 2], played, today - 2 + 1)
               /\ \A d \in -1 .. today - 2 : g[d] = f[d]
    BY <1>2, <1>3, NightsGoOn
  <2> QED
    BY <1>2, <2>1
<1>5. IsFreezes(nightly)
  <2>1. Freezes(f[today - 2], today - 2)
    BY <1>1, <1>2, <1>3, NightsAreFreezes
  <2> QED
    BY <1>3, <2>1 DEF Freezes
<1>6. OneNight(today) = g[today - 1]
  BY <1>2, <1>3, <1>4, <1>5, OneNightIsANight
<1>7. ASSUME ~off PROVE NoneRefused(g, played, today - 2) /\ Stored = g[ran - 1]
  <2>1. NoneRefused(g, played, today - 2)
    <3>1. \A d \in 0 .. today - 2 : d \in -1 .. today - 2
      OBVIOUS
    <3> QED
      BY <1>4, <1>7, <3>1 DEF Caught, NoneRefused
  <2>2. CASE ran < today
    <3>1. ran - 1 \in -1 .. today - 2
      BY <1>1, <2>2
    <3> QED
      BY <1>4, <1>7, <2>1, <2>2, <3>1 DEF Caught
  <2>3. CASE ran = today
    BY <1>4, <1>7, <2>1, <2>3 DEF Caught
  <2> QED
    BY <1>1, <2>2, <2>3
<1> QED
  BY <1>4, <1>6, <1>7

\* What a page shows, and what the job would store, is what every night would have left.
LEMMA WhatIsDue ==
    ASSUME NightsInv, ~off
    PROVE  With(saved, Due) = OneNight(today)
<1>1. PICK f : Caught(f)
  BY DEF NightsInv
<1>2. StreaksInv
  BY DEF NightsInv
<1>3. PICK g : /\ Nights(g, played, today - 1) /\ g[today - 1] = OneNight(today)
               /\ NoneRefused(g, played, today - 2) /\ Stored = g[ran - 1]
  BY <1>1, <1>2, TonightIsANight
<1>4. today \in Nat \ {0} /\ ran \in 1 .. today /\ played \subseteq Nat \ {0} /\ today - ran <= CatchUp
  <2>1. today \in Nat \ {0} /\ ran \in 1 .. today /\ played \subseteq 1 .. today
    BY <1>2, StreaksAssumption DEF StreaksInv, StreaksTypeOK
  <2> QED
    BY <1>1, <2>1 DEF Caught
<1>5. PICK stored \in 0 .. today - 1 : stored = ran - 1
  BY <1>4
<1>6. today - stored - 1 <= CatchUp
  BY <1>4, <1>5
<1>7. PICK x : x = Stored
  OBVIOUS
<1>8. x.spent = saved /\ x.held = freezes.held /\ x.on = freezes.on /\ x = g[stored]
  BY <1>3, <1>5, <1>7 DEF Stored
<1>9. PICK s : s = Due
  OBVIOUS
<1>10. s = Settle(played, played \union x.spent, x.held, x.on, today, CatchUp)
  BY <1>8, <1>9 DEF Due
<1>11. With(x.spent, s) = g[today - 1]
  <2>1. NightsUpTo(g, played, today) /\ InReach(stored, today)
    BY <1>3, <1>4, <1>6 DEF NightsUpTo, InReach
  <2>2. PICK day, days : day = today /\ days = played
    OBVIOUS
  <2>3. With(x.spent, Settle(days, days \union x.spent, x.held, x.on, day, CatchUp)) = g[day - 1]
    BY <1>8, <2>1, <2>2, CatchingUpIsEnough
  <2> QED
    BY <1>10, <2>2, <2>3
<1> QED
  BY <1>3, <1>8, <1>9, <1>11

LEMMA NightsStart == StreakInit => NightsInv
<1> SUFFICES ASSUME StreakInit PROVE NightsInv
  OBVIOUS
<1>1. /\ today = 1 /\ asked = 0 /\ played = {} /\ saved = {} /\ ran = 1 /\ freezes = [held |-> 0, on |-> 0]
      /\ nightly = NoFreezes
  BY DEF StreakInit, NoFreezes
<1>2. PICK f : f = [d \in -1 .. -1 |-> NoFreezes]
  OBVIOUS
<1>3. f[-1] = NoFreezes /\ today - 2 = -1 /\ today - 1 = 0
  BY <1>1, <1>2
<1>4. Nights(f, played, today - 2) /\ NoneRefused(f, played, today - 2)
  BY <1>3 DEF Nights, NoneRefused
<1>5. Stored = NightAfter(f[today - 2], played, today - 1)
  <2>1. Stored = NoFreezes
    BY <1>1 DEF Stored, NoFreezes
  <2>2. NoFreezes.held = 0
    BY DEF NoFreezes
  <2>3. NightAfter(NoFreezes, played, 0) = NoFreezes
    BY <1>1, <2>2 DEF NightAfter, Spends, Earns, FreezeEarned
  <2> QED
    BY <1>3, <2>1, <2>3
<1>6. today - ran <= CatchUp /\ ~(ran < today) /\ ~Carried
  BY <1>1, StreaksAssumption DEF Carried
<1>7. Caught(f)
  BY <1>1, <1>3, <1>4, <1>5, <1>6 DEF Caught
<1> QED
  BY <1>7, StreaksStart DEF NightsInv

\* Between two nights nothing that was settled changes.
LEMMA DaysAreCaught ==
    ASSUME NightsInv, Ask \/ AnswerInTime \/ Morning \/ UNCHANGED streakVars
    PROVE  NightsInv'
<1>1. PICK f : Caught(f)
  BY DEF NightsInv
<1>2. StreaksInv /\ StreaksInv'
  BY DaysAreTyped DEF NightsInv
<1>3. /\ today \in Nat \ {0} /\ ran \in 1 .. today /\ played \subseteq Nat \ {0} /\ asked \in 0 .. today
      /\ asked \in {0, today} \/ (asked = today - 1 /\ carries)
  BY <1>2 DEF StreaksInv, StreaksTypeOK
<1>4. UNCHANGED <<today, saved, freezes, ran, nightly, off>>
  BY DEF Ask, AnswerInTime, Morning, streakVars
<1>5. Stored' = Stored
  BY <1>4 DEF Stored
<1>6. ASSUME played' = played, Carried' => Carried PROVE NightsInv'
  <2>1. Caught(f)'
    BY <1>1, <1>4, <1>5, <1>6 DEF Caught
  <2> QED
    BY <1>2, <2>1 DEF NightsInv
<1>7. CASE Ask
  <2>1. played' = played /\ asked' = today
    BY <1>7 DEF Ask
  <2> QED
    BY <1>3, <1>4, <1>6, <2>1 DEF Carried
<1>8. CASE Morning \/ UNCHANGED streakVars
  <2>1. played' = played
    BY <1>8 DEF Morning, streakVars
  <2>2. Carried' => Carried
    BY <1>8 DEF Morning, streakVars, Carried
  <2> QED
    BY <1>6, <2>1, <2>2
<1>9. CASE AnswerInTime
  <2>1. asked # 0 /\ played' = played \union {asked} /\ asked' = 0
    BY <1>9 DEF AnswerInTime
  <2>2. asked \in {today - 1, today} /\ (Carried <=> asked = today - 1)
    BY <1>3, <2>1 DEF Carried
  <2>3. played' \subseteq Nat \ {0}
    BY <1>3, <2>1
  <2>4. today - 2 \in Int /\ Agree(played, played', today - 2)
    BY <1>3, <2>1, <2>2 DEF Agree
  <2>5. PICK others : others = played'
    OBVIOUS
  <2>6. Nights(f, others, today - 2) /\ (NoneRefused(f, played, today - 2) => NoneRefused(f, others, today - 2))
    <3>1. Nights(f, played, today - 2) /\ others \subseteq Nat \ {0} /\ Agree(played, others, today - 2)
      BY <1>1, <2>3, <2>4, <2>5 DEF Caught
    <3> QED
      BY <1>3, <2>4, <3>1, NightsStand
  <2>7. ASSUME ran = today, ~off PROVE NightAfter(f[today - 2], others, today - 1) = NightAfter(f[today - 2], played, today - 1)
    <3>1. ~Carried
      BY <1>1, <2>7 DEF Caught
    <3>2. asked = today
      BY <2>2, <3>1
    <3>3. today - 1 \in Int /\ Agree(played, others, today - 1)
      BY <1>3, <2>1, <2>5, <3>2 DEF Agree
    <3>4. Freezes(f[today - 2], today - 2)
      <4>1. Nights(f, played, today - 2) /\ today - 2 \in -1 .. today - 2
        BY <1>1, <1>3 DEF Caught
      <4> QED
        BY <1>3, <2>4, <4>1, NightsAreFreezes
    <3>5. PICK x : x = f[today - 2] /\ x.spent \subseteq Int
      BY <2>4, <3>4 DEF Freezes
    <3>6. played \subseteq Int /\ others \subseteq Int
      BY <1>3, <2>3, <2>5
    <3> QED
      BY <3>3, <3>5, <3>6, NightsAreLocal
  <2>8. ~Carried'
    BY <2>1 DEF Carried
  <2>9. Caught(f)'
    BY <1>1, <1>4, <1>5, <2>5, <2>6, <2>7, <2>8 DEF Caught
  <2> QED
    BY <1>2, <2>9 DEF NightsInv
<1> QED
  BY <1>7, <1>8, <1>9

\* The job stores what every night would have left, also when it passes a player over.
LEMMA NightsAreCaught ==
    ASSUME NightsInv, Nightly
    PROVE  NightsInv'
<1>1. PICK f : Caught(f)
  BY DEF NightsInv
<1>2. StreaksInv /\ StreaksInv'
  BY NightsAreTyped DEF NightsInv
<1>3. today \in Nat \ {0} /\ ran \in 1 .. today /\ played \subseteq Nat \ {0} /\ played \subseteq 1 .. today
  BY <1>2 DEF StreaksInv, StreaksTypeOK
<1>4. CatchUp \in Nat /\ CatchUp < FreezeEvery
  BY StreaksAssumption
<1>5. UNCHANGED <<today, carries, asked, played, nightly>> /\ ran' = today
  BY DEF Nightly
<1>6. off' = FALSE => ~off /\ ~Carried
  BY DEF Nightly
<1>7. ASSUME ~off, ~Carried PROVE Stored' = NightAfter(f[today - 2], played, today - 1)
  <2>1. PICK g : /\ Nights(g, played, today - 1) /\ g[today - 1] = OneNight(today)
                 /\ \A d \in -1 .. today - 2 : g[d] = f[d]
                 /\ NoneRefused(g, played, today - 2) /\ Stored = g[ran - 1]
    BY <1>1, <1>2, <1>7, TonightIsANight
  <2>2. g[today - 1] = NightAfter(f[today - 2], played, today - 1)
    <3>1. today - 1 \in 0 .. today - 1 /\ today - 2 \in -1 .. today - 2 /\ today - 1 - 1 = today - 2
      BY <1>3
    <3>2. g[today - 1] = NightAfter(g[today - 1 - 1], played, today - 1)
      BY <2>1, <3>1 DEF Nights
    <3> QED
      BY <2>1, <3>1, <3>2
  <2>3. CASE freezes.held > 0 \/ \E d \in played : d >= today - CatchUp - 1
    <3>1. PICK due : due = Due
      OBVIOUS
    <3>2. saved' = saved \union due.spent /\ freezes' = [held |-> due.held, on |-> due.on]
      BY <2>3, <3>1 DEF Nightly
    <3>3. Stored' = With(saved, due)
      BY <3>2 DEF Stored, With
    <3>4. With(saved, due) = OneNight(today)
      BY <1>7, <3>1, WhatIsDue
    <3> QED
      BY <2>1, <2>2, <3>3, <3>4
  <2>4. CASE ~(freezes.held > 0 \/ \E d \in played : d >= today - CatchUp - 1)
    <3>1. UNCHANGED <<saved, freezes>>
      BY <2>4 DEF Nightly
    <3>2. Stored' = Stored
      BY <3>1 DEF Stored
    <3>3. freezes.held \in 0 .. FreezeCap
      BY <1>2 DEF StreaksInv, StreaksTypeOK
    <3>4. freezes.held = 0 /\ \A d \in played : ~(d >= today - CatchUp - 1)
      BY <2>4, <3>3, StreaksAssumption
    <3>5. g[ran - 1].held = 0
      <4>1. Stored.held = freezes.held
        BY DEF Stored
      <4> QED
        BY <2>1, <3>4, <4>1
    <3>6. today - ran <= CatchUp
      BY <1>1, <1>7 DEF Caught
    <3>7. \A d \in ran - 1 + 1 .. today - 1 : d \notin played
      BY <1>3, <1>4, <3>4, <3>6
    <3>8. g[today - 1] = g[ran - 1]
      <4>1. PICK last \in Int : last = today - 1
        BY <1>3
      <4>2. PICK e \in -1 .. last : e = ran - 1
        BY <1>3, <4>1
      <4>3. Nights(g, played, last) /\ g[e].held = 0 /\ \A d \in e + 1 .. last : d \notin played
        BY <2>1, <3>5, <3>7, <4>1, <4>2
      <4>4. g[last] = g[e]
        BY <1>3, <4>3, NothingIsDue
      <4> QED
        BY <4>1, <4>2, <4>4
    <3> QED
      BY <2>1, <2>2, <3>2, <3>8
  <2> QED
    BY <2>3, <2>4
<1>8. off' \in BOOLEAN
  BY <1>2 DEF StreaksInv, StreaksTypeOK
<1>9. Carried' <=> Carried
  BY <1>5 DEF Carried
<1>10. Caught(f)'
  <2>1. Nights(f, played, today - 2)' /\ (nightly = f[today - 2])'
    BY <1>1, <1>5 DEF Caught
  <2>2. ASSUME ~off'
        PROVE  /\ (today - ran <= CatchUp)' /\ NoneRefused(f, played, today - 2)' /\ ~(ran < today)' /\ ~Carried'
               /\ Stored' = NightAfter(f[today - 2], played, today - 1)'
    <3>1. ~off /\ ~Carried
      BY <1>6, <1>8, <2>2
    <3>2. NoneRefused(f, played, today - 2)
      BY <1>1, <3>1 DEF Caught
    <3>3. Stored' = NightAfter(f[today - 2], played, today - 1)
      BY <1>7, <3>1
    <3> QED
      BY <1>3, <1>4, <1>5, <1>9, <3>1, <3>2, <3>3
  <2> QED
    BY <2>1, <2>2 DEF Caught
<1> QED
  BY <1>2, <1>10 DEF NightsInv


\* At midnight a night more has to have run.
LEMMA MidnightIsCaught ==
    ASSUME NightsInv, Midnight
    PROVE  NightsInv'
<1>1. PICK f : Caught(f)
  BY DEF NightsInv
<1>2. StreaksInv /\ StreaksInv'
  BY DaysAreTyped DEF NightsInv
<1>3. today \in Nat \ {0} /\ ran \in 1 .. today /\ off \in BOOLEAN /\ off' \in BOOLEAN
  BY <1>2 DEF StreaksInv, StreaksTypeOK
<1>4. PICK g : /\ Nights(g, played, today - 1) /\ g[today - 1] = OneNight(today)
               /\ \A d \in -1 .. today - 2 : g[d] = f[d]
               /\ off \/ (NoneRefused(g, played, today - 2) /\ Stored = g[ran - 1])
  BY <1>1, <1>2, TonightIsANight
<1>5. /\ today' = today + 1 /\ nightly' = g[today - 1] /\ UNCHANGED <<asked, played, saved, freezes, ran>>
  BY <1>4 DEF Midnight
<1>6. Stored' = Stored /\ today' - 2 = today - 1 /\ ran < today'
  BY <1>3, <1>5 DEF Stored
<1>7. ASSUME ~off' PROVE ~off /\ ~(today + 1 - ran > CatchUp) /\ ~Refused(OneNight(today), today - 1)
  BY <1>7 DEF Midnight
<1>8. ASSUME ~off' PROVE today' - ran <= CatchUp /\ NoneRefused(g, played, today - 1) /\ Stored = g[ran - 1]
  <2>1. today' - ran <= CatchUp
    BY <1>3, <1>5, <1>7, <1>8, StreaksAssumption
  <2>2. NoneRefused(g, played, today - 2) /\ Stored = g[ran - 1]
    BY <1>4, <1>7, <1>8
  <2>3. FreezeEarned(played \union g[today - 1].spent, played, today - 1) => g[today - 1].on = today - 1
    BY <1>4, <1>7, <1>8 DEF Refused
  <2>4. \A d \in 0 .. today - 1 : d \in 0 .. today - 2 \/ d = today - 1
    BY <1>3
  <2>5. NoneRefused(g, played, today - 1)
    BY <2>2, <2>3, <2>4 DEF NoneRefused
  <2> QED
    BY <2>1, <2>2, <2>5
<1>9. Caught(g)'
  <2>1. Nights(g, played, today - 2)' /\ (nightly = g[today - 2])'
    BY <1>4, <1>5, <1>6
  <2>2. ASSUME ~off'
        PROVE  (today - ran <= CatchUp)' /\ NoneRefused(g, played, today - 2)' /\ ~(ran = today)' /\ (Stored = g[ran - 1])'
    BY <1>3, <1>5, <1>6, <1>8, <2>2
  <2> QED
    BY <2>1, <2>2 DEF Caught
<1> QED
  BY <1>2, <1>9 DEF NightsInv

\* Whenever it ran, the job has left what it would have left by running every night, as long as it missed
\* no more nights than it can make up for, never ran while yesterday's question was still open, and no
\* freeze was refused because of the cap: `off` (streaks.py: settle, nightly).
THEOREM NightsInvariantHolds == StreakSpec => []NightsInv
<1>1. NightsInv /\ [StreakNext]_streakVars => NightsInv'
  BY DaysAreCaught, NightsAreCaught, MidnightIsCaught DEF StreakNext
<1> QED
  BY NightsStart, <1>1, PTL DEF StreakSpec

\* So the streak and the freezes that are read are, at any hour, as if the job had run every night
\* (streaks.py: current, held): settling a day again within FreezeEvery days of it changes nothing, and
\* CatchUp is less than that.
THEOREM FreezesAreAsIfEveryNight == StreakSpec => []AsIfEveryNight
<1>1. NightsInv => AsIfEveryNight
  <2> SUFFICES ASSUME NightsInv, ~off
               PROVE  Current.held = OneNight(today).held /\ Current.kept = played \union OneNight(today).spent
    BY DEF AsIfEveryNight
  <2>1. PICK due, tonight : due = Due /\ tonight = OneNight(today)
    OBVIOUS
  <2>2. With(saved, due) = tonight
    BY <2>1, WhatIsDue
  <2>3. tonight.held = due.held /\ tonight.spent = saved \union due.spent
    BY <2>2 DEF With
  <2>4. Current = [kept |-> played \union saved \union due.spent, held |-> due.held]
    BY <2>1 DEF Current
  <2>5. Current.held = due.held /\ Current.kept = played \union saved \union due.spent
    BY <2>4
  <2> QED
    BY <2>1, <2>3, <2>5
<1> QED
  BY NightsInvariantHolds, <1>1, PTL


-------------------------------------------------------------------------------
(* Leaderboard: pages                                                      *)

\* What scores a page may be of: one of each member.
Scorable(scores) ==
    /\ IsFiniteSet(scores) /\ \A s \in scores : s.score \in Int
    /\ \A s, t \in scores : s.who = t.who => s = t

\* From the highest score to the lowest, all of them and each once.
Sorts(x, T) ==
    /\ x \in Injection(1 .. Cardinality(T), T)
    /\ \A i, j \in DOMAIN x : i < j => x[i].score >= x[j].score

LEMMA LowestScore ==
    ASSUME NEW T, IsFiniteSet(T), T # {}, \A s \in T : s.score \in Int
    PROVE  \E s \in T : \A t \in T : t.score >= s.score
<1> DEFINE Has(T0) == T0 # {} => \E s \in T0 : \A t \in T0 : t.score >= s.score
           K == {n \in Nat : \A T0 \in SUBSET T : Cardinality(T0) <= n => Has(T0)}
<1>1. \A T0 \in SUBSET T : IsFiniteSet(T0) /\ Cardinality(T0) \in Nat
  BY FS_Subset, FS_CardinalityType
<1>2. 0 \in K
  <2>1. \A T0 \in SUBSET T : Cardinality(T0) <= 0 => T0 = {}
    BY <1>1, FS_EmptySet
  <2> QED
    BY <2>1
<1>3. ASSUME NEW n \in Nat, n \in K PROVE n + 1 \in K
  <2>1. ASSUME NEW T0 \in SUBSET T, Cardinality(T0) <= n + 1, T0 # {}
        PROVE  \E s \in T0 : \A t \in T0 : t.score >= s.score
    <3>1. PICK x \in T0 : TRUE
      BY <2>1
    <3>2. T0 \ {x} \in SUBSET T /\ Cardinality(T0 \ {x}) <= n
      BY <1>1, <2>1, OneLess
    <3>3. CASE T0 \ {x} = {}
      BY <3>1, <3>3
    <3>4. CASE T0 \ {x} # {}
      <4>1. PICK s \in T0 \ {x} : \A t \in T0 \ {x} : t.score >= s.score
        BY <1>3, <3>2, <3>4
      <4>2. s.score \in Int /\ x.score \in Int /\ \A t \in T0 : t.score \in Int
        BY <3>1, <4>1
      <4>3. CASE x.score >= s.score
        BY <4>1, <4>2, <4>3
      <4>4. CASE ~(x.score >= s.score)
        <5>1. \A t \in T0 : t.score >= x.score
          BY <4>1, <4>2, <4>4
        <5> QED
          BY <3>1, <5>1
      <4> QED
        BY <4>3, <4>4
    <3> QED
      BY <3>3, <3>4
  <2> HIDE DEF Has
  <2> QED
    BY <2>1 DEF Has
<1>4. Nat \subseteq K
  <2> HIDE DEF K
  <2> QED
    BY <1>2, <1>3, Induction
<1>5. Cardinality(T) \in K /\ Cardinality(T) <= Cardinality(T)
  BY <1>1, <1>4
<1> QED
  BY <1>5

LEMMA ScoresAreSorted ==
    ASSUME NEW T, IsFiniteSet(T), \A s \in T : s.score \in Int
    PROVE  \E x : Sorts(x, T)
<1> DEFINE K == {n \in Nat : \A T0 \in SUBSET T : Cardinality(T0) = n => \E x : Sorts(x, T0)}
<1>1. \A T0 \in SUBSET T : IsFiniteSet(T0) /\ Cardinality(T0) \in Nat
  BY FS_Subset, FS_CardinalityType
<1>2. 0 \in K
  <2>1. ASSUME NEW T0 \in SUBSET T, Cardinality(T0) = 0 PROVE \E x : Sorts(x, T0)
    <3> DEFINE x == [i \in 1 .. 0 |-> i]
    <3>1. T0 = {} /\ 1 .. 0 = {}
      BY <1>1, <2>1, FS_EmptySet
    <3>2. x \in Injection(1 .. Cardinality(T0), T0)
      BY <2>1, <3>1 DEF Injection, IsInjective
    <3>3. Sorts(x, T0)
      BY <3>1, <3>2 DEF Sorts
    <3> QED
      BY <3>3
  <2> QED
    BY <2>1
<1>3. ASSUME NEW n \in Nat, n \in K PROVE n + 1 \in K
  <2>1. ASSUME NEW T0 \in SUBSET T, Cardinality(T0) = n + 1 PROVE \E x : Sorts(x, T0)
    <3>1. IsFiniteSet(T0) /\ T0 # {} /\ \A s \in T0 : s.score \in Int
      BY <1>1, <2>1, FS_EmptySet
    <3>2. PICK s \in T0 : \A t \in T0 : t.score >= s.score
      BY <3>1, LowestScore
    <3>3. T0 \ {s} \in SUBSET T /\ Cardinality(T0 \ {s}) = n
      BY <2>1, <3>1, OneLess
    <3>4. PICK x : Sorts(x, T0 \ {s})
      BY <1>3, <3>3
    <3>5. /\ x \in [1 .. n -> T0 \ {s}] /\ (\A i, j \in 1 .. n : x[i] = x[j] => i = j)
          /\ \A i, j \in 1 .. n : i < j => x[i].score >= x[j].score
      BY <3>3, <3>4 DEF Sorts, Injection, IsInjective
    <3> DEFINE y == [i \in 1 .. n + 1 |-> IF i = n + 1 THEN s ELSE x[i]]
    <3>6. y \in [1 .. n + 1 -> T0] /\ \A i \in 1 .. n + 1 : y[i] = IF i = n + 1 THEN s ELSE x[i]
      BY <3>5
    <3>7. \A i \in 1 .. n + 1 : i # n + 1 => i \in 1 .. n
      OBVIOUS
    <3> HIDE DEF y
    <3>8. \A i, j \in 1 .. n + 1 : y[i] = y[j] => i = j
      BY <3>5, <3>6, <3>7
    <3>9. \A i, j \in 1 .. n + 1 : i < j => y[i].score >= y[j].score
      <4> TAKE i, j \in 1 .. n + 1
      <4> HAVE i < j
      <4>1. i \in 1 .. n /\ y[i] = x[i] /\ x[i] \in T0
        BY <3>5, <3>6
      <4>2. CASE j = n + 1
        BY <3>2, <3>6, <4>1, <4>2
      <4>3. CASE j # n + 1
        BY <3>5, <3>6, <3>7, <4>1, <4>3
      <4> QED
        BY <4>2, <4>3
    <3>10. Sorts(y, T0)
      BY <2>1, <3>6, <3>8, <3>9 DEF Sorts, Injection, IsInjective
    <3> QED
      BY <3>10
  <2> QED
    BY <2>1
<1>4. Nat \subseteq K
  <2> HIDE DEF K
  <2> QED
    BY <1>2, <1>3, Induction
<1> QED
  BY <1>1, <1>4

\* Whoever is level with the one before shares their place, so a place is that of the first who is level.
LEMMA PlacesAreOfTheFirst ==
    ASSUME NEW n \in Nat, NEW f \in [1 .. n -> Int]
    PROVE  /\ DOMAIN Ranks(f) = 1 .. n
           /\ \A i \in 1 .. n : /\ Ranks(f)[i] \in 1 .. i /\ f[Ranks(f)[i]] = f[i]
                                /\ Ranks(f)[i] # 1 => f[Ranks(f)[i] - 1] # f[Ranks(f)[i]]
<1> DEFINE Next(g, i) == IF i > 1 /\ f[i] = f[i - 1] THEN g[i - 1] ELSE i
           P(g) == g = [i \in 1 .. n |-> Next(g, i)]
           it == CHOOSE g : P(g)
           Up(g, k) == \A i \in 1 .. n : i <= k => g[i] = Next(g, i)
           K == {k \in Nat : \E g : Up(g, k)}
<1>0. DOMAIN f = 1 .. n
  OBVIOUS
<1>1. Ranks(f) = [i \in 1 .. n |-> it[i]]
  BY <1>0 DEF Ranks
<1>2. 0 \in K
  OBVIOUS
<1>3. ASSUME NEW k \in Nat, k \in K PROVE k + 1 \in K
  <2>1. PICK g : Up(g, k)
    BY <1>3
  <2> DEFINE h == [i \in 1 .. n |-> IF i <= k THEN g[i] ELSE Next(g, i)]
  <2>2. ASSUME NEW i \in 1 .. n, i <= k + 1 PROVE h[i] = Next(h, i)
    <3>1. h[i] = Next(g, i)
      BY <2>1
    <3>2. i > 1 => i - 1 \in 1 .. n /\ i - 1 <= k
      BY <2>2
    <3>3. i > 1 => h[i - 1] = g[i - 1]
      BY <3>2
    <3> HIDE DEF h
    <3> QED
      BY <3>1, <3>3
  <2>3. Up(h, k + 1)
    <3> HIDE DEF h, Next
    <3> QED
      BY <2>2
  <2> HIDE DEF Up, h
  <2> QED
    BY <2>3
<1>4. n \in K
  <2> HIDE DEF K
  <2> QED
    BY <1>2, <1>3, Induction
<1>5. \E g : P(g)
  <2>1. PICK g : \A i \in 1 .. n : g[i] = Next(g, i)
    BY <1>4
  <2> DEFINE h == [i \in 1 .. n |-> g[i]]
  <2>2. \A i \in 1 .. n : h[i] = Next(h, i)
    <3> TAKE i \in 1 .. n
    <3>1. i > 1 => i - 1 \in 1 .. n
      OBVIOUS
    <3>2. h[i] = g[i] /\ (i > 1 => h[i - 1] = g[i - 1])
      BY <3>1
    <3> HIDE DEF h
    <3> QED
      BY <2>1, <3>2
  <2>3. h = [i \in 1 .. n |-> h[i]]
    OBVIOUS
  <2> HIDE DEF h, Next
  <2>4. P(h)
    BY <2>2, <2>3
  <2> QED
    BY <2>4
<1>6. P(it)
  <2> HIDE DEF P
  <2> QED
    BY <1>5
<1>7. \A i \in 1 .. n : it[i] = Next(it, i)
  <2> HIDE DEF Next, it
  <2> QED
    BY <1>6
<1> HIDE DEF it
<1> DEFINE Right(i) == i \in 1 .. n => /\ it[i] \in 1 .. i /\ f[it[i]] = f[i]
                                       /\ it[i] # 1 => f[it[i] - 1] # f[it[i]]
           Q == {k \in Nat : Right(k)}
<1>8. 0 \in Q
  OBVIOUS
<1>9. ASSUME NEW k \in Nat, k \in Q PROVE k + 1 \in Q
  <2> SUFFICES ASSUME k + 1 \in 1 .. n
               PROVE  /\ it[k + 1] \in 1 .. k + 1 /\ f[it[k + 1]] = f[k + 1]
                      /\ it[k + 1] # 1 => f[it[k + 1] - 1] # f[it[k + 1]]
    OBVIOUS
  <2>1. it[k + 1] = IF k + 1 > 1 /\ f[k + 1] = f[k] THEN it[k] ELSE k + 1
    <3>1. k + 1 - 1 = k
      OBVIOUS
    <3> QED
      BY <1>7, <3>1
  <2>2. CASE k + 1 > 1 /\ f[k + 1] = f[k]
    <3>1. k \in 1 .. n /\ it[k + 1] = it[k]
      BY <2>1, <2>2
    <3>2. it[k] \in 1 .. k /\ f[it[k]] = f[k] /\ (it[k] # 1 => f[it[k] - 1] # f[it[k]])
      BY <1>9, <3>1
    <3>3. it[k] \in 1 .. k + 1
      BY <3>2
    <3> QED
      BY <2>2, <3>1, <3>2, <3>3
  <2>3. CASE ~(k + 1 > 1 /\ f[k + 1] = f[k])
    <3>1. it[k + 1] = k + 1 /\ k + 1 \in 1 .. k + 1 /\ k + 1 - 1 = k
      BY <2>1, <2>3
    <3>2. k + 1 # 1 => f[k] # f[k + 1]
      BY <2>3
    <3> QED
      BY <3>1, <3>2
  <2> QED
    BY <2>2, <2>3
<1>10. \A i \in 1 .. n : i \in Nat /\ i \in Q
  <2> HIDE DEF Q
  <2>1. Nat \subseteq Q
    BY <1>8, <1>9, Induction
  <2>2. \A i \in 1 .. n : i \in Nat
    OBVIOUS
  <2> QED
    BY <2>1, <2>2
<1>11. \A i \in 1 .. n : Right(i)
  <2> HIDE DEF Right
  <2> QED
    BY <1>10
<1> QED
  BY <1>1, <1>11

\* A page, from any scores: whom it names, and that places agree.
PageIsRight(scores, viewer) ==
    /\ \A r \in Page(scores, viewer).rows : \E s \in scores : s.who = r.who /\ ~s.out
    /\ \A r, s \in Page(scores, viewer).rows : r.rank < s.rank <=> r.score > s.score
    /\ \A me \in Page(scores, viewer).me, r \in Page(scores, viewer).rows :
          r.who = viewer => r.rank = me.rank /\ r.score = me.score

LEMMA PagesAreRight ==
    ASSUME NEW scores, Scorable(scores), NEW viewer
    PROVE  PageIsRight(scores, viewer)
<1> DEFINE shown == {s \in scores : ~s.out}
           sorting == CHOOSE x \in Injection(1 .. Cardinality(shown), shown) :
                         \A i, j \in DOMAIN x : i < j => x[i].score >= x[j].score
<1>1. PICK sorted : sorted = sorting
  OBVIOUS
<1>2. PICK f : f = [i \in DOMAIN sorted |-> sorted[i].score]
  OBVIOUS
<1>3. PICK ranks : ranks = Ranks(f)
  OBVIOUS
<1> DEFINE page == [rows |-> {[who |-> sorted[i].who, score |-> sorted[i].score, rank |-> ranks[i]] :
                                i \in {j \in DOMAIN sorted : ranks[j] <= TopRank}},
                    me |-> {[rank |-> RankAmong(s.score, {o \in shown : o.who # viewer}), score |-> s.score] :
                                s \in {x \in scores : x.who = viewer}}]
<1>4. Page(scores, viewer) = page
  BY <1>1, <1>2, <1>3 DEF Page
<1>5. IsFiniteSet(shown) /\ \A s \in shown : s \in scores /\ s.score \in Int
  BY FS_Subset DEF Scorable
<1>6. Sorts(sorted, shown)
  <2>1. \E x : Sorts(x, shown)
    <3> HIDE DEF shown
    <3> QED
      BY <1>5, ScoresAreSorted
  <2> QED
    BY <1>1, <2>1 DEF Sorts
<1> HIDE DEF sorting
<1>7. PICK n \in Nat : n = Cardinality(shown)
  BY <1>5, FS_CardinalityType
<1>8. /\ sorted \in [1 .. n -> shown] /\ DOMAIN sorted = 1 .. n
      /\ \A i, j \in 1 .. n : sorted[i] = sorted[j] => i = j
      /\ \A i, j \in 1 .. n : i < j => sorted[i].score >= sorted[j].score
  <2> HIDE DEF shown
  <2> QED
    BY <1>6, <1>7 DEF Sorts, Injection, IsInjective
<1>9. \A s \in shown : \E i \in 1 .. n : sorted[i] = s
  <2>1. sorted \in Injection(1 .. n, shown) /\ IsFiniteSet(1 .. n) /\ Cardinality(1 .. n) = n
    BY <1>6, <1>7, FS_Interval DEF Sorts
  <2> HIDE DEF shown
  <2>2. sorted \in Surjection(1 .. n, shown)
    BY <1>5, <1>7, <2>1, FS_Injection
  <2> QED
    BY <2>2 DEF Surjection
<1>10. f \in [1 .. n -> Int] /\ \A i \in 1 .. n : f[i] = sorted[i].score
  <2>1. \A i \in 1 .. n : sorted[i] \in shown
    BY <1>8
  <2> HIDE DEF shown
  <2> QED
    BY <1>2, <1>5, <1>8, <2>1
<1>11. /\ \A i \in 1 .. n : /\ ranks[i] \in 1 .. i /\ f[ranks[i]] = f[i]
                            /\ ranks[i] # 1 => f[ranks[i] - 1] # f[ranks[i]]
  BY <1>3, <1>10, PlacesAreOfTheFirst
<1>12. \A i, j \in 1 .. n : i <= j => f[i] >= f[j]
  <2> TAKE i, j \in 1 .. n
  <2> HAVE i <= j
  <2>1. f[i] \in Int /\ f[j] \in Int
    BY <1>10
  <2>2. CASE i = j
    BY <2>1, <2>2
  <2>3. CASE i # j
    <3>1. i < j
      BY <2>3
    <3> QED
      BY <1>8, <1>10, <3>1
  <2> QED
    BY <2>2, <2>3
<1>13. \A i, j \in 1 .. n : /\ ranks[j] \in 1 .. n /\ f[ranks[j]] = f[j]
                            /\ i < ranks[j] <=> f[i] > f[j]
  <2> TAKE i, j \in 1 .. n
  <2>1. ranks[j] \in 1 .. n /\ f[ranks[j]] = f[j]
    BY <1>11
  <2>2. f[i] \in Int /\ f[j] \in Int
    BY <1>10
  <2>3. ASSUME i < ranks[j] PROVE f[i] > f[j]
    <3>1. ranks[j] - 1 \in 1 .. n /\ i <= ranks[j] - 1 /\ ranks[j] - 1 <= ranks[j] /\ ranks[j] # 1
      BY <2>1, <2>3
    <3>2. f[ranks[j] - 1] \in Int /\ f[i] >= f[ranks[j] - 1] /\ f[ranks[j] - 1] >= f[ranks[j]]
      BY <1>10, <1>12, <2>1, <3>1
    <3>3. f[ranks[j] - 1] # f[ranks[j]]
      BY <1>11, <3>1
    <3> QED
      BY <2>1, <2>2, <3>2, <3>3
  <2>4. ASSUME ~(i < ranks[j]) PROVE ~(f[i] > f[j])
    <3>1. ranks[j] <= i
      BY <2>1, <2>4
    <3>2. f[ranks[j]] >= f[i]
      BY <1>12, <2>1, <3>1
    <3> QED
      BY <2>1, <2>2, <3>2
  <2> QED
    BY <2>1, <2>3, <2>4
<1> DEFINE Row(i) == [who |-> sorted[i].who, score |-> f[i], rank |-> ranks[i]]
<1>14. \A r \in page.rows : \E i \in 1 .. n : r = Row(i)
  BY <1>8, <1>10
<1> DEFINE Ahead(x) == {o \in {y \in shown : y.who # viewer} : o.score > x}
<1>15. \A me \in page.me : \E s \in scores : s.who = viewer /\ me.score = s.score
                                            /\ me.rank = 1 + Cardinality(Ahead(s.score))
  BY DEF RankAmong
<1> HIDE DEF page
<1>16. \A r \in page.rows : \E s \in scores : s.who = r.who /\ ~s.out
  <2> TAKE r \in page.rows
  <2>1. PICK i \in 1 .. n : r = Row(i)
    BY <1>14
  <2>2. r.who = sorted[i].who
    BY <2>1
  <2>3. sorted[i] \in shown
    BY <1>8
  <2> QED
    BY <2>2, <2>3
<1>17. \A r, s \in page.rows : r.rank < s.rank <=> r.score > s.score
  <2> TAKE r, s \in page.rows
  <2>1. PICK i \in 1 .. n : r = Row(i)
    BY <1>14
  <2>2. PICK j \in 1 .. n : s = Row(j)
    BY <1>14
  <2>3. r.rank = ranks[i] /\ r.score = f[i] /\ s.rank = ranks[j] /\ s.score = f[j]
    BY <2>1, <2>2
  <2>4. ranks[i] \in 1 .. n /\ f[ranks[i]] = f[i]
    BY <1>13
  <2>5. ranks[i] < ranks[j] <=> f[ranks[i]] > f[j]
    BY <1>13, <2>4
  <2> QED
    BY <2>3, <2>4, <2>5
<1>18. \A me \in page.me, r \in page.rows : r.who = viewer => r.rank = me.rank /\ r.score = me.score
  <2> TAKE me \in page.me, r \in page.rows
  <2> HAVE r.who = viewer
  <2>1. PICK i \in 1 .. n : r = Row(i)
    BY <1>14
  <2>2. PICK s \in scores : s.who = viewer /\ me.score = s.score /\ me.rank = 1 + Cardinality(Ahead(s.score))
    BY <1>15
  <2>3. r.who = sorted[i].who /\ r.score = f[i] /\ r.rank = ranks[i] /\ f[i] = sorted[i].score
    BY <1>10, <2>1
  <2>4. sorted[i] \in scores
    BY <1>5, <1>8
  <2>5. sorted[i] = s
    BY <2>2, <2>3, <2>4 DEF Scorable
  <2> DEFINE T == 1 .. ranks[i] - 1
             g == [j \in T |-> sorted[j]]
  <2>6. ranks[i] \in 1 .. n
    BY <1>13
  <2>7. \A j \in T : j \in 1 .. n /\ j < ranks[i]
    BY <2>6
  <2>8. \A j \in 1 .. n : sorted[j] \in Ahead(f[i]) <=> j \in T
    <3> TAKE j \in 1 .. n
    <3>1. sorted[j] \in shown /\ sorted[j].score = f[j]
      BY <1>8, <1>10
    <3>2. j < ranks[i] <=> f[j] > f[i]
      BY <1>13
    <3>3. j < ranks[i] <=> j \in T
      BY <2>6
    <3>4. f[j] > f[i] => sorted[j].who # viewer
      <4> SUFFICES ASSUME f[j] > f[i], sorted[j].who = viewer PROVE FALSE
        OBVIOUS
      <4>1. sorted[j] = s
        BY <1>5, <2>2, <3>1 DEF Scorable
      <4>2. f[j] = f[i] /\ f[i] \in Int
        BY <1>10, <2>5, <4>1
      <4> QED
        BY <4>2
    <3> QED
      BY <3>1, <3>2, <3>3, <3>4
  <2>9. \A o \in Ahead(f[i]) : \E j \in T : sorted[j] = o
    <3> TAKE o \in Ahead(f[i])
    <3>1. o \in shown
      OBVIOUS
    <3>2. PICK j \in 1 .. n : sorted[j] = o
      BY <1>9, <3>1
    <3> QED
      BY <2>8, <3>2
  <2> HIDE DEF Ahead
  <2>10. g \in Bijection(T, Ahead(f[i]))
    <3>1. g \in [T -> Ahead(f[i])] /\ \A j \in T : g[j] = sorted[j]
      BY <2>7, <2>8
    <3>2. \A j, k \in T : g[j] = g[k] => j = k
      BY <1>8, <2>7, <3>1
    <3>3. \A o \in Ahead(f[i]) : \E j \in T : g[j] = o
      BY <2>9, <3>1
    <3> HIDE DEF g, T
    <3> QED
      BY <3>1, <3>2, <3>3 DEF Bijection, Injection, Surjection, IsInjective
  <2>11. IsFiniteSet(T) /\ Cardinality(T) = ranks[i] - 1
    BY <2>6, FS_Interval
  <2>12. Cardinality(Ahead(f[i])) = ranks[i] - 1
    <3>1. ExistsBijection(T, Ahead(f[i]))
      BY <2>10 DEF ExistsBijection
    <3> HIDE DEF T
    <3> QED
      BY <2>11, <3>1, FS_Bijection
  <2> QED
    BY <2>2, <2>3, <2>5, <2>6, <2>12
<1> QED
  BY <1>4, <1>16, <1>17, <1>18 DEF PageIsRight

LEMMA TotalsAreIntegers ==
    ASSUME NEW counted, IsFiniteSet(counted), counted \subseteq Attempt, NEW m
    PROVE  Total(counted, m) \in Int
<1> DEFINE T == {a \in counted : a.by = m}
           f == [a \in T |-> a.lp]
           P(g) == g = [s \in SUBSET T |->
                          IF s = {} THEN 0
                          ELSE (CHOOSE x \in s : TRUE).lp + g[s \ {CHOOSE x \in s : TRUE}]]
           it == CHOOSE g : P(g)
<1>1. IsFiniteSet(T) /\ \A a \in T : a.lp \in Int
  <2>1. IsFiniteSet(T)
    BY FS_Subset
  <2>2. \A a \in Attempt : a.lp \in Int
    BY LeaderboardAssumption DEF Attempt
  <2> QED
    BY <2>1, <2>2
<1>2. Total(counted, m) = it[T]
  BY DEF Total, MapThenSumSet, MapThenFoldSet
<1>3. \A s \in SUBSET T : s # {} => f[First(s)] = (CHOOSE x \in s : TRUE).lp
  <2> TAKE s \in SUBSET T
  <2> HAVE s # {}
  <2>1. First(s) \in T
    BY FirstIsIn
  <2>2. f[First(s)] = First(s).lp
    BY <2>1
  <2> QED
    BY <2>2 DEF First
<1>4. \A g : P(g) <=> Adds(g, f, T)
  <2> TAKE g
  <2> DEFINE A == [s \in SUBSET T |->
                     IF s = {} THEN 0
                     ELSE (CHOOSE x \in s : TRUE).lp + g[s \ {CHOOSE x \in s : TRUE}]]
             B == [s \in SUBSET T |-> IF s = {} THEN 0 ELSE f[First(s)] + g[s \ {First(s)}]]
  <2>1. \A s \in SUBSET T : A[s] = B[s]
    BY <1>3 DEF First
  <2>2. A = B
    BY <2>1
  <2> QED
    BY <2>2 DEF Adds
<1>5. DOMAIN f = T /\ \A a \in T : f[a] \in Int
  BY <1>1
<1> HIDE DEF T, f
<1>6. it = CHOOSE g : Adds(g, f, T)
  <2> HIDE DEF P
  <2> QED
    BY <1>4
<1>8. SumOf(f) \in Int
  <2>1. PICK h : SumOf(f) = h[DOMAIN f] /\ \A s \in SUBSET DOMAIN f : h[s] \in Int
    BY <1>1, <1>5, SumInAnyOrder
  <2> QED
    BY <2>1
<1>9. SumOf(f) = it[T]
  BY <1>5, <1>6 DEF SumOf
<1> QED
  BY <1>2, <1>8, <1>9

\* The days that a board may begin on.
LEMMA PeriodsBegin ==
    ASSUME NEW t \in 0 .. LastTick, NEW period
    PROVE  Day(t) \in 0 .. LastDayOf /\ FirstDay(period, Day(t)) \in Firsts
<1>1. PICK len \in Nat \ {0} : len = DayLength
  BY LeaderboardAssumption
<1>2. LastTick \in Nat /\ WeekDays \in Nat \ {0} /\ 0 \in SeasonStarts /\ SeasonStarts \subseteq Nat
  BY LeaderboardAssumption
<1>3. t \in Nat /\ t <= LastTick
  BY <1>2
<1>4. t \div len \in Nat /\ LastTick \div len \in Nat /\ t \div len <= LastTick \div len
  BY <1>1, <1>2, <1>3
<1>5. PICK d \in Nat : d = Day(t) /\ d <= LastDayOf
  BY <1>1, <1>4 DEF Day, LastDayOf
<1>6. LastDayOf \in Nat
  BY <1>1, <1>4 DEF Day, LastDayOf
<1> DEFINE began == {x \in SeasonStarts : x <= d}
           since == {y \in Nat : \E x \in began : y = d - x}
<1>7. Max(began) \in began
  <2>1. since # {} /\ since \subseteq Nat
    BY <1>2, <1>5
  <2>2. PICK y \in since : \A z \in since : y <= z
    <3> HIDE DEF since
    <3> QED
      BY <2>1, LeastElement
  <2>3. PICK x \in began : y = d - x
    BY <2>2
  <2>4. \A z \in began : d - z \in since
    BY <1>2, <1>5
  <2>5. \A z \in began : x >= z
    <3> TAKE z \in began
    <3>1. y <= d - z
      BY <2>2, <2>4
    <3>2. x \in Nat /\ z \in Nat
      BY <1>2, <2>3
    <3> QED
      BY <1>5, <2>3, <3>1, <3>2
  <2> HIDE DEF began
  <2> QED
    BY <2>5 DEF Max
<1>8. FirstDay(period, d) \in {d - (WeekDays - 1), Max(began)}
  BY DEF FirstDay
<1>9. Max(began) \in Nat /\ Max(began) <= d
  BY <1>2, <1>7
<1> HIDE DEF began
<1>10. FirstDay(period, d) \in 1 - WeekDays .. LastDayOf
  BY <1>2, <1>5, <1>6, <1>8, <1>9
<1> QED
  BY <1>5, <1>6, <1>10 DEF Firsts

-------------------------------------------------------------------------------
(* Leaderboard: the invariant                                              *)

Idle == {"waiting", "shown", "failed"}

Request ==
    [step : {"look", "queue", "keep", "own", "names", "page"}, by : Members, board : Boards, first : Firsts,
     counted : SUBSET Attempt, began : 0 .. LastTick, own : SUBSET Attempt, seen : SUBSET Members,
     scores : SUBSET [who : Members, score : Int, out : BOOLEAN]]

\* Of whoever has been on the team, in the same standing, since before t.
OldAnswer(m, a, first, t, who) ==
    who[m].status = "active" /\ who[m].since < t /\ a.by = m /\ a.day >= first /\ a.at < t

\* Every answer of theirs from before t is counted.
CountsOld(counted, first, t, who, given) ==
    \A m \in Members, a \in given : OldAnswer(m, a, first, t, who) => a \in counted

\* The moment whose answers a request must count.
Since(w) == w.began - BoardTtl + 1

OwnIsKnown(w, who, given) ==
    who[w.by].status # "gone" => \A a \in w.own : a \in given /\ a.by = w.by /\ a.day >= w.first

RightScores(w, who, given) ==
    /\ Scorable(w.scores)
    /\ \A s \in w.scores : ~s.out => s.who \in w.seen
    /\ w.board # "ranked" =>
          /\ (\E s \in w.scores : s.who = w.by) => w.own \subseteq w.counted
          /\ \A m \in Members, a \in given :
                OldAnswer(m, a, w.first, Since(w), who) => \E s \in w.scores : s.who = m

\* A request has counted what is old enough and nothing of another period, its viewer's own answers unless
\* they are not among its names, and can name whoever it has seen.
RightRequest(w, v, now, who, given, lock) ==
    /\ w \in Request /\ w.began <= now
    /\ \A m \in Members : who[m].status = "active" /\ ~who[m].out => m \in w.seen
    /\ IsFiniteSet(w.counted) /\ \A a \in w.counted : a.day >= w.first
    /\ w.step \in {"look", "queue", "keep", "own"} => w.board # "ranked"
    /\ w.step # "page" => OwnIsKnown(w, who, given)
    /\ w.step \in {"keep", "names"} /\ w.board # "ranked" /\ (\E a \in w.counted : a.by = w.by) =>
          who[w.by].status = "gone" \/ w.own \subseteq w.counted
    /\ w.step = "keep" => /\ lock = [by |-> v, at |-> lock.at] /\ lock.at \in w.began .. now
                          /\ CountsOld(w.counted, w.first, lock.at, who, given)
    /\ w.step \in {"own", "names", "page"} /\ w.board # "ranked" =>
          CountsOld(w.counted, w.first, Since(w), who, given)
    /\ w.step = "page" => RightScores(w, who, given)

RightAverages(w) ==
    /\ w = [step |-> "averages", rows |-> w.rows, seen |-> w.seen]
    /\ \A r \in w.rows : r.of \subseteq w.seen

RightView(w, v, now, who, given, lock) ==
    w.step \in Idle \/ RightAverages(w) \/ RightRequest(w, v, now, who, given, lock)

RightSum(key, sum, who, given) ==
    /\ IsFiniteSet(sum.counted) /\ \A a \in sum.counted : a.day >= key[2]
    /\ CountsOld(sum.counted, key[2], sum.at, who, given)

BoardInv ==
    /\ BoardTypeOK /\ view = [v \in Views |-> view[v]] /\ IsFiniteSet(answers)
    /\ \A key \in Keys : sums[key] # Nothing => RightSum(key, sums[key], people, answers)
    /\ \A v \in Views : RightView(view[v], v, clock, people, answers, summing)
    /\ summing # Nothing => summing.by \in Views

LEMMA BoardsStart == BoardInit => BoardInv
<1> SUFFICES ASSUME BoardInit PROVE BoardInv
  OBVIOUS
<1>1. LastTick \in Nat /\ MaxMoves \in Nat /\ BoardTtl \in Nat \ {0}
  BY LeaderboardAssumption
<1>2. /\ clock = 0 /\ answers = {} /\ (\A key \in Keys : sums[key] = Nothing) /\ summing = Nothing /\ moves = 0
      /\ view = [v \in Views |-> Waiting]
      /\ people = [m \in Members |-> [status |-> "active", out |-> FALSE, since |-> -BoardTtl]]
  BY DEF BoardInit
<1>3. people \in [Members -> [status : {"active", "left", "gone"}, out : BOOLEAN, since : -BoardTtl .. LastTick]]
  <2>1. -BoardTtl \in -BoardTtl .. LastTick
    BY <1>1
  <2>2. [status |-> "active", out |-> FALSE, since |-> -BoardTtl]
            \in [status : {"active", "left", "gone"}, out : BOOLEAN, since : -BoardTtl .. LastTick]
    BY <2>1
  <2> QED
    BY <1>2, <2>2
<1>4. BoardTypeOK
  BY <1>1, <1>2, <1>3 DEF BoardTypeOK
<1>5. \A v \in Views : view[v].step \in Idle
  BY <1>2 DEF Waiting, Idle
<1>6. view = [v \in Views |-> view[v]] /\ IsFiniteSet(answers)
  BY <1>2, FS_EmptySet
<1> QED
  BY <1>2, <1>4, <1>5, <1>6 DEF BoardInv, RightView

\* A step of one request that nobody else sees.
LEMMA RequestsStep ==
    ASSUME BoardInv, NEW v \in Views, NEW w, Goes(v, w), OnlyViews, view[v].step # "keep",
           RightView(w, v, clock, people, answers, summing)
    PROVE  BoardInv'
<1>1. /\ view' = [view EXCEPT ![v] = w]
      /\ UNCHANGED <<clock, people, answers, sums, summing, moves>>
  BY DEF Goes, OnlyViews
<1>2. view' = [x \in Views |-> view'[x]] /\ view'[v] = w /\ \A x \in Views \ {v} : view'[x] = view[x]
  BY <1>1 DEF BoardInv
<1>3. \A x \in Views : RightView(view'[x], x, clock, people, answers, summing)
  BY <1>2 DEF BoardInv
<1>4. summing # Nothing => summing.by \in Views /\ view'[summing.by].step = "keep"
  BY <1>2 DEF BoardInv, BoardTypeOK, At
<1>5. BoardTypeOK'
  BY <1>1, <1>4 DEF BoardInv, BoardTypeOK, At
<1> QED
  BY <1>1, <1>2, <1>3, <1>4, <1>5 DEF BoardInv

LEMMA AsRequest ==
    ASSUME BoardInv, NEW v \in Views, view[v].step \in {"look", "queue", "keep", "own", "names", "page"}
    PROVE  RightRequest(view[v], v, clock, people, answers, summing) /\ view[v] \in Request
<1>1. view[v].step \notin Idle /\ view[v].step # "averages"
  BY DEF Idle
<1>2. ~RightAverages(view[v])
  <2> SUFFICES ASSUME RightAverages(view[v]) PROVE FALSE
    OBVIOUS
  <2>1. view[v].step = "averages"
    BY DEF RightAverages
  <2> QED
    BY <1>1, <2>1
<1>3. RightView(view[v], v, clock, people, answers, summing)
  BY DEF BoardInv
<1>4. RightRequest(view[v], v, clock, people, answers, summing)
  BY <1>1, <1>2, <1>3 DEF RightView
<1> QED
  BY <1>4 DEF RightRequest

\* The members as they are read.
LEMMA MembersAre ==
    ASSUME BoardInv
    PROVE  /\ \A m : m \in Active <=> m \in Members /\ people[m].status = "active"
           /\ \A m : m \in Visible <=> m \in Members /\ people[m].status = "active" /\ ~people[m].out
           /\ \A m \in Members : people[m].status \in {"active", "left", "gone"} /\ people[m].out \in BOOLEAN
                                 /\ people[m].since \in Int
           /\ answers \subseteq Attempt
           /\ \A m, first : LpOf(m, first) = {a \in answers : a.by = m /\ a.day >= first}
           /\ clock \in 0 .. LastTick
<1>1. /\ \A m : m \in Active <=> m \in Members /\ people[m].status = "active"
      /\ \A m : m \in Visible <=> m \in Members /\ people[m].status = "active" /\ ~people[m].out
  BY DEF Active, Visible
<1>2. \A m \in Members :
         people[m] \in [status : {"active", "left", "gone"}, out : BOOLEAN, since : -BoardTtl .. LastTick]
  BY DEF BoardInv, BoardTypeOK
<1>3. \A m \in Members : people[m].status \in {"active", "left", "gone"} /\ people[m].out \in BOOLEAN
                         /\ people[m].since \in Int
  BY <1>2, LeaderboardAssumption
<1> QED
  BY <1>1, <1>3 DEF BoardInv, BoardTypeOK, LpOf

LEMMA OpensKeep ==
    ASSUME BoardInv, NEW v \in Views, NEW m \in Members, NEW b \in Boards, Open(v, m, b)
    PROVE  BoardInv'
<1>1. PICK first : first = FirstDay(IF b = "week" THEN "week" ELSE "season", Day(clock))
  OBVIOUS
<1>2. PICK step : step = IF b = "ranked" THEN "names" ELSE "look"
  OBVIOUS
<1>3. PICK w : w = [step |-> step, by |-> m, board |-> b, first |-> first, counted |-> {}, began |-> clock,
                    own |-> LpOf(m, first), seen |-> Visible, scores |-> {}]
  OBVIOUS
<1>4. At(v, "waiting") /\ Goes(v, w) /\ OnlyViews
  BY <1>1, <1>2, <1>3 DEF Open
<1>5. first \in Firsts /\ clock \in 0 .. LastTick /\ LastTick \in Nat
  BY <1>1, PeriodsBegin, LeaderboardAssumption DEF BoardInv, BoardTypeOK
<1>6. LpOf(m, first) \subseteq Attempt /\ Visible \subseteq Members
  BY MembersAre
<1>7. step \in {"look", "names"} /\ (step = "look" => b # "ranked") /\ (step = "names" => b = "ranked")
  BY <1>2
<1>8. w \in Request
  BY <1>3, <1>5, <1>6, <1>7 DEF Request
<1>9. w.step = step /\ w.by = m /\ w.board = b /\ w.first = first /\ w.counted = {} /\ w.began = clock
      /\ w.own = LpOf(m, first) /\ w.seen = Visible /\ w.scores = {}
  BY <1>3
<1>10. RightRequest(w, v, clock, people, answers, summing)
  <2>1. IsFiniteSet(w.counted) /\ w.began <= clock
    BY <1>5, <1>9, FS_EmptySet
  <2>2. \A x \in Members : people[x].status = "active" /\ ~people[x].out => x \in w.seen
    BY <1>9, MembersAre
  <2>3. OwnIsKnown(w, people, answers)
    BY <1>9, MembersAre DEF OwnIsKnown
  <2> QED
    BY <1>7, <1>8, <1>9, <2>1, <2>2, <2>3 DEF RightRequest
<1>11. view[v].step # "keep"
  BY <1>4 DEF At
<1> QED
  BY <1>4, <1>10, <1>11, RequestsStep DEF RightView

LEMMA HitsKeep == ASSUME BoardInv, NEW v \in Views, Hit(v) \/ Miss(v) PROVE BoardInv'
<1>1. view[v].step \in {"look", "queue"} /\ OnlyViews
  BY DEF Hit, Miss, At
<1>2. RightRequest(view[v], v, clock, people, answers, summing) /\ view[v] \in Request
  BY <1>1, AsRequest
<1>3. PICK w : w = view[v] /\ w \in Request /\ RightRequest(w, v, clock, people, answers, summing)
               /\ w.step \in {"look", "queue"}
  BY <1>1, <1>2
<1>4. w.board # "ranked" /\ w.counted \in SUBSET Attempt /\ w.first \in Firsts /\ w.began \in Int
      /\ w.scores \in SUBSET [who : Members, score : Int, out : BOOLEAN] /\ w.began <= clock /\ clock \in Int
  BY <1>3, LeaderboardAssumption DEF RightRequest, Request, BoardInv, BoardTypeOK
<1>5. CASE Hit(v)
  <2>1. PICK key \in Keys : key = KeyOf(v) /\ key[2] = w.first
    <3>1. w.board \in Boards \ {"ranked"}
      BY <1>3, <1>4 DEF Request
    <3>2. <<w.board, w.first>> \in Keys
      BY <1>4, <3>1 DEF Keys
    <3>3. <<w.board, w.first>> = KeyOf(v) /\ <<w.board, w.first>>[2] = w.first
      BY <1>3 DEF KeyOf
    <3> QED
      BY <3>2, <3>3
  <2>2. Cached(key) /\ Goes(v, [w EXCEPT !.step = "own", !.counted = sums[key].counted])
    BY <1>3, <1>5, <2>1 DEF Hit
  <2>3. PICK c : c = sums[key].counted
    OBVIOUS
  <2>4. PICK at \in Int : at = sums[key].at /\ clock - at < BoardTtl
    BY <1>4, <2>2 DEF Cached, BoardInv, BoardTypeOK
  <2>5. c \in SUBSET Attempt /\ RightSum(key, sums[key], people, answers)
    BY <2>2, <2>3 DEF Cached, BoardInv, BoardTypeOK
  <2>6. PICK u : u = [w EXCEPT !.step = "own", !.counted = c, !.scores = w.scores]
    OBVIOUS
  <2>7. u = [w EXCEPT !.step = "own", !.counted = c]
    BY <1>3, <2>6 DEF Request
  <2>8. /\ u \in Request /\ u.step = "own" /\ u.counted = c
        /\ u.by = w.by /\ u.board = w.board /\ u.first = w.first /\ u.began = w.began
        /\ u.own = w.own /\ u.seen = w.seen
    <3>1. w \in Request /\ "own" \in {"look", "queue", "keep", "own", "names", "page"} /\ c \in SUBSET Attempt
          /\ w.scores \in SUBSET [who : Members, score : Int, out : BOOLEAN]
      BY <1>3, <1>4, <2>5
    <3>2. u \in Request
      BY <2>6, <3>1 DEF Request
    <3> QED
      BY <2>6, <3>1, <3>2 DEF Request
  <2>9. IsFiniteSet(u.counted) /\ \A a \in u.counted : a.day >= u.first
    BY <2>1, <2>3, <2>5, <2>8 DEF RightSum
  <2>10. CountsOld(u.counted, u.first, Since(u), people, answers)
    <3>1. Since(u) <= at /\ Since(u) \in Int
      BY <1>4, <2>4, <2>8, LeaderboardAssumption DEF Since
    <3>2. CountsOld(c, w.first, at, people, answers)
      BY <2>1, <2>3, <2>4, <2>5 DEF RightSum
    <3>3. \A x \in Members, a \in answers :
             OldAnswer(x, a, u.first, Since(u), people) => OldAnswer(x, a, w.first, at, people)
      <4>1. \A x \in Members : people[x].since \in Int
        BY MembersAre
      <4>2. \A a \in answers : a.at \in Int
        BY MembersAre, LeaderboardAssumption DEF Attempt
      <4> QED
        BY <2>8, <3>1, <4>1, <4>2 DEF OldAnswer
    <3> QED
      BY <2>8, <3>2, <3>3 DEF CountsOld
  <2>11. OwnIsKnown(u, people, answers)
    BY <1>3, <2>8 DEF RightRequest, OwnIsKnown
  <2>12. RightRequest(u, v, clock, people, answers, summing)
    BY <1>3, <1>4, <2>8, <2>9, <2>10, <2>11 DEF RightRequest
  <2> QED
    BY <1>1, <2>2, <2>3, <2>7, <2>12, RequestsStep DEF RightView
<1>6. CASE Miss(v)
  <2>1. PICK u : u = [w EXCEPT !.step = "queue", !.counted = w.counted, !.scores = w.scores]
    OBVIOUS
  <2>2. u = [w EXCEPT !.step = "queue"]
    BY <1>3, <2>1 DEF Request
  <2>3. /\ u \in Request /\ u.step = "queue" /\ u.counted = w.counted
        /\ u.by = w.by /\ u.board = w.board /\ u.first = w.first /\ u.began = w.began
        /\ u.own = w.own /\ u.seen = w.seen
    <3>1. w \in Request /\ "queue" \in {"look", "queue", "keep", "own", "names", "page"}
          /\ w.counted \in SUBSET Attempt /\ w.scores \in SUBSET [who : Members, score : Int, out : BOOLEAN]
      BY <1>3, <1>4
    <3>2. u \in Request
      BY <2>1, <3>1 DEF Request
    <3> QED
      BY <2>1, <3>1, <3>2 DEF Request
  <2>4. OwnIsKnown(u, people, answers)
    BY <1>3, <2>3 DEF RightRequest, OwnIsKnown
  <2>5. RightRequest(u, v, clock, people, answers, summing)
    BY <1>3, <1>4, <2>3, <2>4 DEF RightRequest
  <2>6. Goes(v, u)
    BY <1>3, <1>6, <2>2 DEF Miss
  <2> QED
    BY <1>1, <2>5, <2>6, RequestsStep DEF RightView
<1> QED
  BY <1>5, <1>6

\* What is as old as an earlier moment is as old as a later one.
LEMMA OlderIsOld ==
    ASSUME BoardInv, NEW m \in Members, NEW a \in answers, NEW first, NEW s \in Int, NEW t \in Int, s <= t,
           OldAnswer(m, a, first, s, people)
    PROVE  OldAnswer(m, a, first, t, people)
<1>1. people[m].since \in Int
  BY MembersAre
<1>2. a.at \in Int
  BY MembersAre, LeaderboardAssumption DEF Attempt
<1> QED
  BY <1>1, <1>2 DEF OldAnswer

\* The viewer's own answers are read again: theirs count to the last, the others' as they did.
LEMMA ReadOwnKeeps == ASSUME BoardInv, NEW v \in Views, ReadOwn(v) PROVE BoardInv'
<1>1. view[v].step = "own" /\ OnlyViews
  BY DEF ReadOwn, At
<1>2. RightRequest(view[v], v, clock, people, answers, summing) /\ view[v] \in Request
  BY <1>1, AsRequest
<1>3. PICK w : w = view[v] /\ w \in Request /\ RightRequest(w, v, clock, people, answers, summing) /\ w.step = "own"
  BY <1>1, <1>2
<1>4. PICK now : now = IF w.by \in Active THEN LpOf(w.by, w.first) ELSE {}
  OBVIOUS
<1>5. PICK c : c = {a \in w.counted : a.by # w.by} \union now
  OBVIOUS
<1>6. Goes(v, [w EXCEPT !.step = "names", !.counted = c])
  BY <1>3, <1>4, <1>5 DEF ReadOwn
<1>7. PICK u : u = [w EXCEPT !.step = "names", !.counted = c]
  OBVIOUS
<1>8. w.counted \in SUBSET Attempt /\ w.by \in Members /\ w.first \in Firsts /\ w.began <= clock
  BY <1>3 DEF Request, RightRequest
<1>9. now \subseteq answers /\ now \subseteq Attempt /\ \A a \in now : a.day >= w.first
  BY <1>4, MembersAre
<1>10. c \in SUBSET Attempt
  BY <1>5, <1>8, <1>9
<1>11. u \in Request
  BY <1>3, <1>7, <1>10 DEF Request
<1>12. /\ u.step = "names" /\ u.counted = c
       /\ u.by = w.by /\ u.board = w.board /\ u.first = w.first /\ u.began = w.began
       /\ u.own = w.own /\ u.seen = w.seen
  BY <1>3, <1>7, <1>11 DEF Request
<1>13. w.board # "ranked" /\ IsFiniteSet(w.counted) /\ (\A a \in w.counted : a.day >= w.first)
       /\ (\A m \in Members : people[m].status = "active" /\ ~people[m].out => m \in w.seen)
       /\ OwnIsKnown(w, people, answers) /\ CountsOld(w.counted, w.first, Since(w), people, answers)
  BY <1>3 DEF RightRequest
<1>14. IsFiniteSet(c) /\ \A a \in c : a.day >= w.first
  <2>1. IsFiniteSet(now)
    BY <1>9, FS_Subset DEF BoardInv
  <2>2. IsFiniteSet({a \in w.counted : a.by # w.by})
    <3>1. {a \in w.counted : a.by # w.by} \subseteq w.counted
      OBVIOUS
    <3> QED
      BY <1>13, <3>1, FS_Subset
  <2>3. IsFiniteSet(c)
    BY <1>5, <2>1, <2>2, FS_Union
  <2> QED
    BY <1>5, <1>9, <1>13, <2>3
<1>15. CountsOld(u.counted, u.first, Since(u), people, answers)
  <2>1. Since(u) = Since(w)
    BY <1>12 DEF Since
  <2>2. SUFFICES ASSUME NEW m \in Members, NEW a \in answers, OldAnswer(m, a, w.first, Since(w), people)
                 PROVE  a \in c
    BY <1>12, <2>1 DEF CountsOld
  <2>3. a \in w.counted /\ a.by = m /\ a.day >= w.first /\ people[m].status = "active"
    BY <1>13, <2>2 DEF CountsOld, OldAnswer
  <2>4. CASE m = w.by
    BY <1>4, <1>5, <2>3, <2>4, MembersAre
  <2>5. CASE m # w.by
    BY <1>5, <2>3, <2>5
  <2> QED
    BY <2>4, <2>5
<1>16. OwnIsKnown(u, people, answers)
  BY <1>12, <1>13 DEF OwnIsKnown
<1>17. (\E a \in c : a.by = w.by) => people[w.by].status = "gone" \/ w.own \subseteq c
  <2>1. SUFFICES ASSUME NEW a \in c, a.by = w.by, people[w.by].status # "gone", NEW b \in w.own
                 PROVE  b \in c
    OBVIOUS
  <2>2. a \in now
    BY <1>5, <2>1
  <2>3. w.by \in Active /\ now = {x \in answers : x.by = w.by /\ x.day >= w.first}
    BY <1>4, <2>2, MembersAre
  <2>4. b \in answers /\ b.by = w.by /\ b.day >= w.first
    BY <1>13, <2>1 DEF OwnIsKnown
  <2> QED
    BY <1>5, <2>3, <2>4
<1>18. RightRequest(u, v, clock, people, answers, summing)
  <2>1. u.began <= clock /\ IsFiniteSet(u.counted) /\ \A a \in u.counted : a.day >= u.first
    BY <1>8, <1>12, <1>14
  <2>2. \A m \in Members : people[m].status = "active" /\ ~people[m].out => m \in u.seen
    BY <1>12, <1>13
  <2>3. (\E a \in u.counted : a.by = u.by) => people[u.by].status = "gone" \/ u.own \subseteq u.counted
    BY <1>12, <1>17
  <2> QED
    BY <1>11, <1>12, <1>15, <1>16, <2>1, <2>2, <2>3 DEF RightRequest
<1> QED
  BY <1>1, <1>6, <1>7, <1>18, RequestsStep DEF RightView

\* The names read, with what each has by the answers counted and whether they are hidden now.
NamesOf(D, counted) == {[who |-> m, score |-> Total(counted, m), out |-> people[m].out] : m \in D}

LEMMA NamesAreScorable ==
    ASSUME BoardInv, NEW D \in SUBSET Members, NEW counted, IsFiniteSet(counted), counted \subseteq Attempt
    PROVE  /\ Scorable(NamesOf(D, counted))
           /\ NamesOf(D, counted) \in SUBSET [who : Members, score : Int, out : BOOLEAN]
           /\ \A s \in NamesOf(D, counted) : s.who \in D /\ s.out = people[s.who].out
           /\ \A m \in D : \E s \in NamesOf(D, counted) : s.who = m
<1>1. \A m \in D : Total(counted, m) \in Int
  BY TotalsAreIntegers
<1>2. \A m \in D : people[m].out \in BOOLEAN /\ m \in Members
  BY MembersAre
<1>3. PICK f : f = [m \in D |-> [who |-> m, score |-> Total(counted, m), out |-> people[m].out]]
  OBVIOUS
<1>4. \A m \in D : /\ f[m] \in [who : Members, score : Int, out : BOOLEAN]
                   /\ f[m].who = m /\ f[m].out = people[m].out
  BY <1>1, <1>2, <1>3
<1>5. NamesOf(D, counted) = {f[m] : m \in D}
  BY <1>3 DEF NamesOf
<1>6. IsFiniteSet(NamesOf(D, counted))
  <2>1. f \in Surjection(D, NamesOf(D, counted))
    BY <1>3, <1>5 DEF Surjection
  <2>2. IsFiniteSet(D)
    BY LeaderboardAssumption, FS_Subset
  <2> QED
    BY <2>1, <2>2, FS_Surjection
<1>7. \A s \in NamesOf(D, counted) : s \in [who : Members, score : Int, out : BOOLEAN]
  BY <1>4, <1>5
<1>8. \A s, t \in NamesOf(D, counted) : s.who = t.who => s = t
  <2>1. SUFFICES ASSUME NEW m \in D, NEW n \in D, f[m].who = f[n].who PROVE f[m] = f[n]
    BY <1>5
  <2> QED
    BY <1>4, <2>1
<1>9. Scorable(NamesOf(D, counted))
  BY <1>6, <1>7, <1>8 DEF Scorable
<1> QED
  BY <1>4, <1>5, <1>7, <1>9

\* Whoever has LP and is active is named, and the page is drawn from that.
LEMMA ReadNamesKeeps == ASSUME BoardInv, NEW v \in Views, ReadNames(v) PROVE BoardInv'
<1>1. view[v].step = "names" /\ OnlyViews
  BY DEF ReadNames, At
<1>2. RightRequest(view[v], v, clock, people, answers, summing) /\ view[v] \in Request
  BY <1>1, AsRequest
<1>3. PICK w : w = view[v] /\ w \in Request /\ RightRequest(w, v, clock, people, answers, summing) /\ w.step = "names"
  BY <1>1, <1>2
<1>4. w.counted \in SUBSET Attempt /\ w.by \in Members /\ w.first \in Firsts /\ w.board \in Boards
  BY <1>3 DEF Request
<1>5. /\ IsFiniteSet(w.counted) /\ (\A a \in w.counted : a.day >= w.first) /\ w.began <= clock
      /\ (\A m \in Members : people[m].status = "active" /\ ~people[m].out => m \in w.seen)
      /\ (w.board # "ranked" => CountsOld(w.counted, w.first, Since(w), people, answers))
      /\ (w.board # "ranked" /\ (\E a \in w.counted : a.by = w.by) =>
             people[w.by].status = "gone" \/ w.own \subseteq w.counted)
  BY <1>3 DEF RightRequest
<1>6. PICK D, counted : /\ Scores(v) = NamesOf(D, counted) /\ D \subseteq Active
                        /\ IsFiniteSet(counted) /\ counted \subseteq Attempt
                        /\ w.board # "ranked" => D = Active \intersect {a.by : a \in w.counted}
  <2>1. CASE w.board = "ranked"
    <3>1. Scores(v) = NamesOf(Played(w.first), answers)
      BY <1>3, <2>1 DEF Scores, NamesOf
    <3>2. Played(w.first) \subseteq Active /\ IsFiniteSet(answers) /\ answers \subseteq Attempt
      BY MembersAre DEF Played, BoardInv
    <3> QED
      BY <2>1, <3>1, <3>2
  <2>2. CASE w.board # "ranked"
    <3>1. Scores(v) = NamesOf(Active \intersect {a.by : a \in w.counted}, w.counted)
      BY <1>3, <2>2 DEF Scores, NamesOf
    <3> QED
      BY <1>4, <1>5, <2>2, <3>1
  <2> QED
    BY <2>1, <2>2
<1>7. PICK x : x = Scores(v)
  OBVIOUS
<1>8. /\ Scorable(x) /\ x \in SUBSET [who : Members, score : Int, out : BOOLEAN]
      /\ \A s \in x : s.who \in D /\ s.out = people[s.who].out
      /\ \A m \in D : \E s \in x : s.who = m
  <2>1. D \in SUBSET Members
    BY <1>6, MembersAre
  <2> QED
    <3>1. x = NamesOf(D, counted) /\ IsFiniteSet(counted) /\ counted \subseteq Attempt
      BY <1>6, <1>7
    <3>2. /\ Scorable(NamesOf(D, counted))
          /\ NamesOf(D, counted) \in SUBSET [who : Members, score : Int, out : BOOLEAN]
          /\ \A s \in NamesOf(D, counted) : s.who \in D /\ s.out = people[s.who].out
          /\ \A m \in D : \E s \in NamesOf(D, counted) : s.who = m
      BY <2>1, <3>1, NamesAreScorable
    <3> QED
      BY <3>1, <3>2
<1>9. PICK u : u = [w EXCEPT !.step = "page", !.scores = x]
  OBVIOUS
<1>10. Goes(v, u)
  BY <1>3, <1>7, <1>9 DEF ReadNames
<1>11. u \in Request
  BY <1>3, <1>8, <1>9 DEF Request
<1>12. /\ u.step = "page" /\ u.scores = x /\ u.counted = w.counted
       /\ u.by = w.by /\ u.board = w.board /\ u.first = w.first /\ u.began = w.began
       /\ u.own = w.own /\ u.seen = w.seen
  BY <1>3, <1>9, <1>11 DEF Request
<1>13. \A s \in x : ~s.out => s.who \in w.seen
  BY <1>5, <1>6, <1>8, MembersAre
<1>14. w.board # "ranked" => ((\E s \in x : s.who = w.by) => w.own \subseteq w.counted)
  <2>1. SUFFICES ASSUME w.board # "ranked", NEW s \in x, s.who = w.by PROVE w.own \subseteq w.counted
    OBVIOUS
  <2>2. w.by \in Active /\ \E a \in w.counted : a.by = w.by
    BY <1>6, <1>8, <2>1
  <2>3. people[w.by].status = "active"
    BY <2>2, MembersAre
  <2> QED
    BY <1>5, <2>1, <2>2, <2>3
<1>15. Since(u) = Since(w)
  BY <1>12 DEF Since
<1>16. w.board # "ranked" =>
          \A m \in Members, a \in answers :
             OldAnswer(m, a, w.first, Since(w), people) => \E s \in x : s.who = m
  <2>1. SUFFICES ASSUME w.board # "ranked", NEW m \in Members, NEW a \in answers,
                        OldAnswer(m, a, w.first, Since(w), people)
                 PROVE  \E s \in x : s.who = m
    OBVIOUS
  <2>2. a \in w.counted /\ a.by = m /\ people[m].status = "active"
    BY <1>5, <2>1 DEF CountsOld, OldAnswer
  <2>3. m \in D
    BY <1>6, <2>1, <2>2, MembersAre
  <2> QED
    BY <1>8, <2>3
<1>17. RightScores(u, people, answers)
  BY <1>8, <1>12, <1>13, <1>14, <1>15, <1>16 DEF RightScores
<1>18. RightRequest(u, v, clock, people, answers, summing)
  <2>1. u.board # "ranked" => CountsOld(u.counted, u.first, Since(u), people, answers)
    BY <1>5, <1>12, <1>15
  <2> QED
    BY <1>5, <1>11, <1>12, <1>17, <2>1 DEF RightRequest
<1> QED
  BY <1>1, <1>10, <1>18, RequestsStep DEF RightView

\* What is shown, or was not, asks for nothing.
LEMMA EndsKeep == ASSUME BoardInv, NEW v \in Views, Show(v) \/ Fail(v) PROVE BoardInv'
<1>1. PICK w : w \in {[step |-> "shown"], [step |-> "failed"]} /\ Goes(v, w) /\ OnlyViews /\ view[v].step = "page"
  BY DEF Show, Fail, At
<1>2. w.step \in Idle
  BY <1>1 DEF Idle
<1> QED
  BY <1>1, <1>2, RequestsStep DEF RightView

LEMMA OpenVerticalsKeeps == ASSUME BoardInv, NEW v \in Views, OpenVerticals(v) PROVE BoardInv'
<1>1. PICK rows : rows = VerticalBoard(Visible \intersect Played(FirstDay("season", Day(clock))),
                                       Played(FirstDay("week", Day(clock))))
  OBVIOUS
<1>2. PICK w : w = [step |-> "averages", rows |-> rows, seen |-> Visible]
  OBVIOUS
<1>3. Goes(v, w) /\ OnlyViews /\ view[v].step = "waiting"
  BY <1>1, <1>2 DEF OpenVerticals, At
<1>4. \A r \in rows : r.of \subseteq Visible
  BY <1>1 DEF VerticalBoard
<1>5. RightAverages(w)
  BY <1>2, <1>4 DEF RightAverages
<1> QED
  BY <1>3, <1>5, RequestsStep DEF RightView

\* Whatever was old before now is old still, and whoever is not deleted was not and has their answers.
HistoryStands(now, who, given, who2, given2) ==
    /\ \A m \in Members, a \in given2, t \in Int : \A first :
          t <= now /\ OldAnswer(m, a, first, t, who2) => a \in given /\ OldAnswer(m, a, first, t, who)
    /\ \A m \in Members : who2[m].status # "gone" =>
          who[m].status # "gone" /\ \A a \in given : a.by = m => a \in given2

\* The same request, which may have seen more members.
SeesMore(w, u) ==
    /\ u.step = w.step /\ u.by = w.by /\ u.board = w.board /\ u.first = w.first /\ u.counted = w.counted
    /\ u.began = w.began /\ u.own = w.own /\ u.scores = w.scores /\ w.seen \subseteq u.seen

LEMMA CountsSurvive ==
    ASSUME NEW counted, NEW first, NEW t \in Int, NEW now \in Int, t <= now,
           NEW who, NEW given, NEW who2, NEW given2,
           CountsOld(counted, first, t, who, given), HistoryStands(now, who, given, who2, given2)
    PROVE  CountsOld(counted, first, t, who2, given2)
<1> SUFFICES ASSUME NEW m \in Members, NEW a \in given2, OldAnswer(m, a, first, t, who2)
             PROVE  a \in counted
  BY DEF CountsOld
<1>1. a \in given /\ OldAnswer(m, a, first, t, who)
  BY DEF HistoryStands
<1> QED
  BY <1>1 DEF CountsOld

LEMMA RequestsSurvive ==
    ASSUME NEW w \in Request, NEW u \in Request, NEW v, NEW now \in Int, NEW now2 \in Int, now <= now2,
           NEW who, NEW given, NEW who2, NEW given2, NEW lock,
           RightRequest(w, v, now, who, given, lock), HistoryStands(now, who, given, who2, given2), SeesMore(w, u),
           \A m \in Members : who2[m].status = "active" /\ ~who2[m].out => m \in u.seen
    PROVE  RightRequest(u, v, now2, who2, given2, lock)
<1>1. /\ u.step = w.step /\ u.by = w.by /\ u.board = w.board /\ u.first = w.first /\ u.counted = w.counted
      /\ u.began = w.began /\ u.own = w.own /\ u.scores = w.scores /\ w.seen \subseteq u.seen
  BY DEF SeesMore
<1>2. w.began \in Int /\ w.by \in Members
  BY LeaderboardAssumption DEF Request
<1>3. w.began <= now /\ Since(w) \in Int /\ Since(w) <= now /\ Since(u) = Since(w)
  <2>1. w.began <= now
    BY DEF RightRequest
  <2> QED
    BY <1>1, <1>2, <2>1, LeaderboardAssumption DEF Since
<1>4. u.began <= now2
  BY <1>1, <1>2, <1>3
<1>5. IsFiniteSet(u.counted) /\ \A a \in u.counted : a.day >= u.first
  BY <1>1 DEF RightRequest
<1>6. u.step \in {"look", "queue", "keep", "own"} => u.board # "ranked"
  BY <1>1 DEF RightRequest
<1>7. u.step # "page" => OwnIsKnown(u, who2, given2)
  <2>1. SUFFICES ASSUME w.step # "page", who2[w.by].status # "gone", NEW a \in w.own
                 PROVE  a \in given2 /\ a.by = w.by /\ a.day >= w.first
    BY <1>1 DEF OwnIsKnown
  <2>2. who[w.by].status # "gone" /\ \A x \in given : x.by = w.by => x \in given2
    BY <1>2, <2>1 DEF HistoryStands
  <2>3. a \in given /\ a.by = w.by /\ a.day >= w.first
    BY <2>1, <2>2 DEF RightRequest, OwnIsKnown
  <2> QED
    BY <2>2, <2>3
<1>8. u.step \in {"keep", "names"} /\ u.board # "ranked" /\ (\E a \in u.counted : a.by = u.by) =>
         who2[u.by].status = "gone" \/ u.own \subseteq u.counted
  <2>1. who[w.by].status = "gone" => who2[w.by].status = "gone"
    BY <1>2 DEF HistoryStands
  <2>2. w.step \in {"keep", "names"} /\ w.board # "ranked" /\ (\E a \in w.counted : a.by = w.by) =>
           who[w.by].status = "gone" \/ w.own \subseteq w.counted
    BY DEF RightRequest
  <2> QED
    BY <1>1, <2>1, <2>2
<1>9. u.step = "keep" => /\ lock = [by |-> v, at |-> lock.at] /\ lock.at \in u.began .. now2
                         /\ CountsOld(u.counted, u.first, lock.at, who2, given2)
  <2>1. SUFFICES ASSUME w.step = "keep"
                 PROVE  /\ lock = [by |-> v, at |-> lock.at] /\ lock.at \in w.began .. now2
                        /\ CountsOld(w.counted, w.first, lock.at, who2, given2)
    BY <1>1
  <2>2. /\ lock = [by |-> v, at |-> lock.at] /\ lock.at \in w.began .. now
        /\ CountsOld(w.counted, w.first, lock.at, who, given)
    BY <2>1 DEF RightRequest
  <2>3. lock.at \in Int /\ lock.at <= now /\ lock.at \in w.began .. now2
    BY <1>2, <2>2
  <2>4. CountsOld(w.counted, w.first, lock.at, who2, given2)
    BY <2>2, <2>3, CountsSurvive
  <2> QED
    BY <2>2, <2>3, <2>4
<1>10. u.step \in {"own", "names", "page"} /\ u.board # "ranked" =>
          CountsOld(u.counted, u.first, Since(u), who2, given2)
  <2>1. SUFFICES ASSUME w.step \in {"own", "names", "page"}, w.board # "ranked"
                 PROVE  CountsOld(w.counted, w.first, Since(w), who2, given2)
    BY <1>1, <1>3
  <2>2. CountsOld(w.counted, w.first, Since(w), who, given)
    BY <2>1 DEF RightRequest
  <2> QED
    BY <1>3, <2>2, CountsSurvive
<1>11. u.step = "page" => RightScores(u, who2, given2)
  <2>1. SUFFICES ASSUME w.step = "page" PROVE RightScores(u, who2, given2)
    BY <1>1
  <2>2. RightScores(w, who, given)
    BY <2>1 DEF RightRequest
  <2>3. Scorable(u.scores) /\ \A s \in u.scores : ~s.out => s.who \in u.seen
    BY <1>1, <2>2 DEF RightScores
  <2>4. u.board # "ranked" => ((\E s \in u.scores : s.who = u.by) => u.own \subseteq u.counted)
    BY <1>1, <2>2 DEF RightScores
  <2>5. ASSUME u.board # "ranked", NEW m \in Members, NEW a \in given2, OldAnswer(m, a, u.first, Since(u), who2)
        PROVE  \E s \in u.scores : s.who = m
    <3>1. a \in given /\ OldAnswer(m, a, w.first, Since(w), who)
      BY <1>1, <1>3, <2>5 DEF HistoryStands
    <3> QED
      BY <1>1, <2>2, <2>5, <3>1 DEF RightScores
  <2> QED
    BY <2>3, <2>4, <2>5 DEF RightScores
<1> QED
  BY <1>4, <1>5, <1>6, <1>7, <1>8, <1>9, <1>10, <1>11 DEF RightRequest

\* Only the one who holds the lock is about to keep a sum.
LEMMA OneSumsAtATime ==
    ASSUME BoardInv, NEW v \in Views, view[v].step = "keep"
    PROVE  summing = [by |-> v, at |-> summing.at] /\ summing.by = v /\ summing # Nothing
<1>1. RightRequest(view[v], v, clock, people, answers, summing) /\ view[v] \in Request
  BY AsRequest
<1>2. summing = [by |-> v, at |-> summing.at] /\ summing.at \in view[v].began .. clock
  BY <1>1 DEF RightRequest
<1>3. view[v].began \in 0 .. LastTick /\ clock \in 0 .. LastTick /\ LastTick \in Nat
  BY <1>1, LeaderboardAssumption DEF Request, BoardInv, BoardTypeOK
<1>4. summing.at \in 0 .. LastTick
  BY <1>2, <1>3
<1>5. summing \in [by : Views, at : 0 .. LastTick]
  BY <1>2, <1>4
<1> QED
  BY <1>2, <1>5, LeaderboardAssumption

\* Whoever does not keep is not concerned by the lock.
LEMMA LocksChange ==
    ASSUME NEW w, NEW v, NEW now, NEW who, NEW given, NEW lock, NEW lock2, w.step # "keep",
           RightView(w, v, now, who, given, lock)
    PROVE  RightView(w, v, now, who, given, lock2)
BY DEF RightView, RightRequest

\* The sum is read when the lock is had, and counts every answer there is.
LEMMA SumKeeps == ASSUME BoardInv, NEW v \in Views, Sum(v) PROVE BoardInv'
<1>1. view[v].step = "queue" /\ summing = Nothing /\ UNCHANGED <<clock, people, answers, sums, moves>>
  BY DEF Sum, At
<1>2. RightRequest(view[v], v, clock, people, answers, summing) /\ view[v] \in Request
  BY <1>1, AsRequest
<1>3. PICK w : w = view[v] /\ w \in Request /\ RightRequest(w, v, clock, people, answers, summing) /\ w.step = "queue"
  BY <1>1, <1>2
<1>4. PICK c : c = Lp(w.first)
  OBVIOUS
<1>5. PICK u : u = [w EXCEPT !.step = "keep", !.counted = c]
  OBVIOUS
<1>6. PICK lock : lock = [by |-> v, at |-> clock]
  OBVIOUS
<1>7. view' = [view EXCEPT ![v] = u] /\ summing' = lock
  BY <1>3, <1>4, <1>5, <1>6 DEF Sum, Goes
<1>8. \A a : a \in c <=> a \in answers /\ a.day >= w.first /\ a.by \in Active
  BY <1>4, MembersAre DEF Lp
<1>9. c \in SUBSET Attempt /\ IsFiniteSet(c) /\ c \subseteq answers
  <2>1. c \subseteq answers
    BY <1>8
  <2> QED
    BY <2>1, MembersAre, FS_Subset DEF BoardInv
<1>10. u \in Request
  BY <1>3, <1>5, <1>9 DEF Request
<1>11. /\ u.step = "keep" /\ u.counted = c
       /\ u.by = w.by /\ u.board = w.board /\ u.first = w.first /\ u.began = w.began
       /\ u.own = w.own /\ u.seen = w.seen
  BY <1>3, <1>5, <1>10 DEF Request
<1>12. /\ w.board # "ranked" /\ OwnIsKnown(w, people, answers) /\ w.began <= clock
       /\ \A m \in Members : people[m].status = "active" /\ ~people[m].out => m \in w.seen
  BY <1>3 DEF RightRequest
<1>13. lock = [by |-> v, at |-> lock.at] /\ lock.at = clock /\ lock.at \in u.began .. clock
  BY <1>3, <1>6, <1>11, <1>12, MembersAre, LeaderboardAssumption DEF Request
<1>14. CountsOld(u.counted, u.first, lock.at, people, answers)
  <2>1. SUFFICES ASSUME NEW m \in Members, NEW a \in answers, OldAnswer(m, a, w.first, clock, people)
                 PROVE  a \in c
    BY <1>11, <1>13 DEF CountsOld
  <2>2. a.by = m /\ a.day >= w.first /\ people[m].status = "active"
    BY <2>1 DEF OldAnswer
  <2> QED
    BY <1>8, <2>2, MembersAre
<1>15. OwnIsKnown(u, people, answers)
  BY <1>11, <1>12 DEF OwnIsKnown
<1>16. (\E a \in c : a.by = w.by) => people[w.by].status = "gone" \/ w.own \subseteq c
  <2>1. SUFFICES ASSUME NEW a \in c, a.by = w.by, people[w.by].status # "gone", NEW b \in w.own
                 PROVE  b \in c
    OBVIOUS
  <2>2. b \in answers /\ b.by = w.by /\ b.day >= w.first
    BY <1>12, <2>1 DEF OwnIsKnown
  <2> QED
    BY <1>8, <2>1, <2>2
<1>17. RightRequest(u, v, clock, people, answers, lock)
  <2>1. IsFiniteSet(u.counted) /\ \A a \in u.counted : a.day >= u.first
    BY <1>8, <1>9, <1>11
  <2>2. u.began <= clock /\ \A m \in Members : people[m].status = "active" /\ ~people[m].out => m \in u.seen
    BY <1>11, <1>12
  <2>3. (\E a \in u.counted : a.by = u.by) => people[u.by].status = "gone" \/ u.own \subseteq u.counted
    BY <1>11, <1>16
  <2> QED
    BY <1>10, <1>11, <1>12, <1>13, <1>14, <1>15, <2>1, <2>2, <2>3 DEF RightRequest
<1>18. ASSUME NEW x \in Views \ {v} PROVE RightView(view'[x], x, clock, people, answers, lock)
  <2>1. view'[x] = view[x] /\ RightView(view[x], x, clock, people, answers, summing)
    BY <1>7 DEF BoardInv
  <2>2. view[x].step # "keep"
    BY <1>1, OneSumsAtATime
  <2> QED
    BY <2>1, <2>2, LocksChange
<1>19. view'[v] = u /\ view' = [x \in Views |-> view'[x]]
  BY <1>7 DEF BoardInv
<1>20. \A x \in Views : RightView(view'[x], x, clock', people', answers', summing')
  BY <1>1, <1>7, <1>17, <1>18, <1>19 DEF RightView
<1>21. summing'.by = v /\ view'[summing'.by].step = "keep"
  BY <1>6, <1>7, <1>11, <1>19
<1>22. BoardTypeOK'
  BY <1>1, <1>21 DEF BoardInv, BoardTypeOK, At
<1> QED
  BY <1>1, <1>19, <1>20, <1>21, <1>22 DEF BoardInv

\* The sum is kept as old as its reading, and the lock is free.
LEMMA KeepKeeps == ASSUME BoardInv, NEW v \in Views, Keep(v) PROVE BoardInv'
<1>1. view[v].step = "keep" /\ summing' = Nothing /\ sums' = Kept(v)
      /\ UNCHANGED <<clock, people, answers, moves>>
  BY DEF Keep, At
<1>2. RightRequest(view[v], v, clock, people, answers, summing) /\ view[v] \in Request
  BY <1>1, AsRequest
<1>3. PICK w : w = view[v] /\ w \in Request /\ RightRequest(w, v, clock, people, answers, summing) /\ w.step = "keep"
  BY <1>1, <1>2
<1>4. PICK at : at = summing.at
  OBVIOUS
<1>5. PICK u : u = [w EXCEPT !.step = "names"]
  OBVIOUS
<1>6. view' = [view EXCEPT ![v] = u]
  BY <1>3, <1>5 DEF Keep, Goes
<1>7. u \in Request
  BY <1>3, <1>5 DEF Request
<1>8. /\ u.step = "names" /\ u.counted = w.counted
      /\ u.by = w.by /\ u.board = w.board /\ u.first = w.first /\ u.began = w.began
      /\ u.own = w.own /\ u.seen = w.seen
  BY <1>3, <1>5, <1>7 DEF Request
<1>9. /\ w.board # "ranked" /\ OwnIsKnown(w, people, answers) /\ w.began <= clock
      /\ (\A m \in Members : people[m].status = "active" /\ ~people[m].out => m \in w.seen)
      /\ IsFiniteSet(w.counted) /\ (\A a \in w.counted : a.day >= w.first)
      /\ at \in w.began .. clock /\ CountsOld(w.counted, w.first, at, people, answers)
  BY <1>3, <1>4 DEF RightRequest
<1>10. (\E a \in w.counted : a.by = w.by) => people[w.by].status = "gone" \/ w.own \subseteq w.counted
  BY <1>3, <1>9 DEF RightRequest
<1>11. w.began \in Nat /\ clock \in Nat /\ at \in Int /\ Since(w) \in Int /\ Since(w) <= at /\ Since(u) = Since(w)
       /\ at \in 0 .. clock
  BY <1>3, <1>8, <1>9, MembersAre, LeaderboardAssumption DEF Request, Since
<1>12. CountsOld(u.counted, u.first, Since(u), people, answers)
  <2>1. SUFFICES ASSUME NEW m \in Members, NEW a \in answers, OldAnswer(m, a, w.first, Since(w), people)
                 PROVE  a \in w.counted
    BY <1>8, <1>11 DEF CountsOld
  <2>2. OldAnswer(m, a, w.first, at, people)
    BY <1>11, <2>1, OlderIsOld
  <2> QED
    BY <1>9, <2>2 DEF CountsOld
<1>13. RightRequest(u, v, clock, people, answers, Nothing)
  <2>1. OwnIsKnown(u, people, answers)
    BY <1>8, <1>9 DEF OwnIsKnown
  <2> QED
    BY <1>7, <1>8, <1>9, <1>10, <1>12, <2>1 DEF RightRequest
<1>14. ASSUME NEW x \in Views \ {v} PROVE RightView(view'[x], x, clock, people, answers, Nothing)
  <2>1. view'[x] = view[x] /\ RightView(view[x], x, clock, people, answers, summing)
    BY <1>6 DEF BoardInv
  <2>2. view[x].step # "keep"
    BY <1>1, OneSumsAtATime
  <2> QED
    BY <2>1, <2>2, LocksChange
<1>15. view'[v] = u /\ view' = [x \in Views |-> view'[x]]
  BY <1>6 DEF BoardInv
<1>16. \A x \in Views : RightView(view'[x], x, clock', people', answers', summing')
  BY <1>1, <1>13, <1>14, <1>15 DEF RightView
<1>17. ASSUME NEW key \in Keys, sums'[key] # Nothing
       PROVE  /\ sums'[key].at \in 0 .. clock /\ sums'[key].counted \subseteq Attempt
              /\ RightSum(key, sums'[key], people, answers)
  <2>1. sums'[key] = IF key = KeyOf(v) THEN [at |-> at, counted |-> w.counted]
                     ELSE IF sums[key] # Nothing /\ at - sums[key].at >= BoardTtl THEN Nothing ELSE sums[key]
    BY <1>1, <1>3, <1>4 DEF Kept
  <2>2. CASE key = KeyOf(v)
    <3>1. PICK sum : sum = sums'[key] /\ sum = [at |-> at, counted |-> w.counted]
      BY <2>1, <2>2
    <3>2. sum.at = at /\ sum.counted = w.counted /\ key[2] = w.first
      BY <1>3, <2>2, <3>1 DEF KeyOf
    <3>3. RightSum(key, sum, people, answers)
      BY <1>9, <3>2 DEF RightSum
    <3>4. w.counted \subseteq Attempt
      BY <1>3 DEF Request
    <3> QED
      BY <1>11, <3>1, <3>2, <3>3, <3>4
  <2>3. CASE key # KeyOf(v)
    <3>1. sums'[key] = sums[key] /\ sums[key] # Nothing
      BY <1>17, <2>1, <2>3
    <3> QED
      BY <3>1 DEF BoardInv, BoardTypeOK
  <2> QED
    BY <2>2, <2>3
<1>18. BoardTypeOK'
  BY <1>1, <1>17 DEF BoardInv, BoardTypeOK
<1> QED
  BY <1>1, <1>15, <1>16, <1>17, <1>18 DEF BoardInv

\* What a request was right about, it is right about after somebody else's step.
LEMMA OthersMove ==
    ASSUME BoardInv, BoardTypeOK', UNCHANGED <<sums, summing>>, IsFiniteSet(answers'), clock <= clock',
           view' = [v \in Views |-> view'[v]], HistoryStands(clock, people, answers, people', answers'),
           \A v \in Views : view[v].step \in Idle => view'[v] = view[v],
           \A v \in Views : RightAverages(view[v]) => RightAverages(view'[v]),
           \A v \in Views : view[v].step \notin Idle /\ view[v] \in Request =>
               /\ view'[v] \in Request /\ SeesMore(view[v], view'[v])
               /\ \A m \in Members : people'[m].status = "active" /\ ~people'[m].out => m \in view'[v].seen
    PROVE  BoardInv'
<1>1. clock \in Int /\ clock' \in Int
  BY LeaderboardAssumption DEF BoardInv, BoardTypeOK
<1>2. ASSUME NEW v \in Views PROVE RightView(view'[v], v, clock', people', answers', summing')
  <2>1. RightView(view[v], v, clock, people, answers, summing)
    BY DEF BoardInv
  <2>2. CASE view[v].step \in Idle
    BY <2>2 DEF RightView
  <2>3. CASE RightAverages(view[v])
    BY <2>3 DEF RightView
  <2>4. CASE view[v].step \notin Idle /\ RightRequest(view[v], v, clock, people, answers, summing)
    <3>1. PICK w : w = view[v]
      OBVIOUS
    <3>2. PICK u : u = view'[v]
      OBVIOUS
    <3>3. w \in Request
      BY <2>4, <3>1 DEF RightRequest
    <3>4. /\ u \in Request /\ SeesMore(w, u)
          /\ \A m \in Members : people'[m].status = "active" /\ ~people'[m].out => m \in u.seen
      BY <2>4, <3>1, <3>2, <3>3
    <3>5. RightRequest(u, v, clock', people', answers', summing)
      BY <1>1, <2>4, <3>1, <3>3, <3>4, RequestsSurvive
    <3> QED
      BY <3>2, <3>5 DEF RightView
  <2> QED
    BY <2>1, <2>2, <2>3, <2>4 DEF RightView
<1>3. ASSUME NEW key \in Keys, sums'[key] # Nothing PROVE RightSum(key, sums'[key], people', answers')
  <2>1. sums'[key] = sums[key] /\ RightSum(key, sums[key], people, answers) /\ sums[key].at \in 0 .. clock
    BY <1>3 DEF BoardInv, BoardTypeOK
  <2>2. PICK sum : sum = sums[key] /\ RightSum(key, sum, people, answers) /\ sum.at \in Int /\ sum.at <= clock
    BY <1>1, <2>1
  <2>3. CountsOld(sum.counted, key[2], sum.at, people', answers')
    BY <1>1, <2>2, CountsSurvive DEF RightSum
  <2> QED
    BY <2>1, <2>2, <2>3 DEF RightSum
<1>4. summing' # Nothing => summing'.by \in Views
  BY DEF BoardInv
<1> QED
  BY <1>2, <1>3, <1>4 DEF BoardInv

\* When no request moves, none has to have seen more, if nobody comes into sight.
LEMMA ViewsStay ==
    ASSUME BoardInv, BoardTypeOK', UNCHANGED <<people, sums, summing, view>>, IsFiniteSet(answers'), clock <= clock',
           HistoryStands(clock, people, answers, people', answers')
    PROVE  BoardInv'
<1>1. \A v \in Views : view'[v] = view[v]
  OBVIOUS
<1>2. view' = [v \in Views |-> view'[v]]
  BY DEF BoardInv
<1>3. ASSUME NEW v \in Views, view[v].step \notin Idle, view[v] \in Request
      PROVE  /\ view'[v] \in Request /\ SeesMore(view[v], view'[v])
             /\ \A m \in Members : people'[m].status = "active" /\ ~people'[m].out => m \in view'[v].seen
  <2>1. view[v].step \in {"look", "queue", "keep", "own", "names", "page"}
    BY <1>3 DEF Request
  <2>2. RightRequest(view[v], v, clock, people, answers, summing)
    BY <2>1, AsRequest
  <2>3. \A m \in Members : people[m].status = "active" /\ ~people[m].out => m \in view[v].seen
    BY <2>2 DEF RightRequest
  <2> QED
    BY <1>1, <1>3, <2>3 DEF SeesMore
<1> QED
  BY <1>1, <1>2, <1>3, OthersMove

\* An answer of now is not older than now.
LEMMA PlaysKeep == ASSUME BoardInv, NEW m \in Members, NEW won \in Won, NEW day, Play(m, won, day) PROVE BoardInv'
<1>1. PICK a : a = [by |-> m, lp |-> won, day |-> day, at |-> clock]
  OBVIOUS
<1>2. /\ day \in {Day(clock), Day(clock) - 1} /\ day \in Nat /\ answers' = answers \union {a}
      /\ UNCHANGED <<clock, people, sums, summing, view, moves>>
  BY <1>1 DEF Play
<1>3. clock \in 0 .. LastTick /\ clock \in Int /\ answers \subseteq Attempt
  BY LeaderboardAssumption DEF BoardInv, BoardTypeOK
<1>4. a \in Attempt /\ a.at = clock
  <2>1. Day(clock) \in 0 .. LastDayOf
    BY <1>3, PeriodsBegin
  <2>2. LastDayOf \in Int
    BY LeaderboardAssumption DEF LastDayOf, Day
  <2>3. day \in 0 .. LastDayOf
    BY <1>2, <2>1, <2>2
  <2> QED
    BY <1>1, <1>3, <2>3 DEF Attempt
<1>5. BoardTypeOK'
  BY <1>2, <1>3, <1>4 DEF BoardInv, BoardTypeOK, At
<1>6. IsFiniteSet(answers')
  BY <1>2, FS_AddElement DEF BoardInv
<1>7. HistoryStands(clock, people, answers, people', answers')
  <2>1. ASSUME NEW x \in Members, NEW b \in answers', NEW t \in Int, NEW first,
               t <= clock, OldAnswer(x, b, first, t, people')
        PROVE  b \in answers /\ OldAnswer(x, b, first, t, people)
    <3>1. b.at < t
      BY <2>1 DEF OldAnswer
    <3>2. b # a
      BY <1>3, <1>4, <2>1, <3>1
    <3> QED
      BY <1>2, <2>1, <3>2
  <2>2. \A x \in Members : people'[x].status # "gone" =>
           people[x].status # "gone" /\ \A b \in answers : b.by = x => b \in answers'
    BY <1>2
  <2> QED
    BY <2>1, <2>2 DEF HistoryStands
<1>8. clock <= clock'
  BY <1>2, <1>3
<1> QED
  BY <1>2, <1>5, <1>6, <1>7, <1>8, ViewsStay

LEMMA TicksKeep == ASSUME BoardInv, Tick PROVE BoardInv'
<1>1. /\ clock < LastTick /\ clock' = clock + 1
      /\ UNCHANGED <<people, answers, sums, summing, view, moves>>
  BY DEF Tick
<1>2. clock \in 0 .. LastTick /\ LastTick \in Nat
  BY LeaderboardAssumption DEF BoardInv, BoardTypeOK
<1>3. clock' \in 0 .. LastTick /\ clock <= clock'
  BY <1>1, <1>2
<1>4. \A key \in Keys : sums'[key] # Nothing => sums'[key].at \in 0 .. clock' /\ sums'[key].counted \subseteq Attempt
  BY <1>1, <1>2 DEF BoardInv, BoardTypeOK
<1>5. BoardTypeOK'
  BY <1>1, <1>3, <1>4 DEF BoardInv, BoardTypeOK, At
<1>6. HistoryStands(clock, people, answers, people', answers')
  BY <1>1 DEF HistoryStands
<1>7. IsFiniteSet(answers')
  BY <1>1 DEF BoardInv
<1> QED
  BY <1>1, <1>3, <1>5, <1>6, <1>7, ViewsStay

\* A member whose standing changes has been in it since now, is deleted for ever, and is seen if they are
\* in sight.
LEMMA MovesKeep ==
    ASSUME BoardInv, NEW m \in Members, NEW new, people[m].status # "gone",
           new \in [status : {"active", "left", "gone"}, out : BOOLEAN, since : Int], Moved(m, new),
           answers' = answers \/ (new.status = "gone" /\ answers' = {a \in answers : a.by # m})
    PROVE  BoardInv'
<1>1. PICK p : p = [new EXCEPT !.since = clock]
  OBVIOUS
<1>2. clock \in 0 .. LastTick /\ LastTick \in Nat /\ BoardTtl \in Nat /\ MaxMoves \in Nat /\ moves \in 0 .. MaxMoves
  BY LeaderboardAssumption DEF BoardInv, BoardTypeOK
<1>3. p \in [status : {"active", "left", "gone"}, out : BOOLEAN, since : -BoardTtl .. LastTick]
      /\ p.status = new.status /\ p.out = new.out /\ p.since = clock
  <2>1. clock \in -BoardTtl .. LastTick
    BY <1>2
  <2> QED
    BY <1>1, <2>1
<1>4. /\ people' = [people EXCEPT ![m] = p] /\ moves' \in {moves, moves + 1} /\ moves' <= MaxMoves
      /\ UNCHANGED <<clock, sums, summing>>
  BY <1>1 DEF Moved
<1>5. people \in [Members -> [status : {"active", "left", "gone"}, out : BOOLEAN, since : -BoardTtl .. LastTick]]
  BY DEF BoardInv, BoardTypeOK
<1>6. people'[m] = p /\ \A x \in Members \ {m} : people'[x] = people[x]
  BY <1>4, <1>5
<1>7. answers' \subseteq answers
  OBVIOUS
<1>8. view' = [v \in Views |-> IF Reading(v) /\ new.status = "active" /\ ~new.out
                                 THEN [view[v] EXCEPT !.seen = @ \union {m}] ELSE view[v]]
  BY DEF Moved
<1>9. view' = [v \in Views |-> view'[v]]
      /\ \A v \in Views : view'[v] = IF Reading(v) /\ new.status = "active" /\ ~new.out
                                       THEN [view[v] EXCEPT !.seen = @ \union {m}] ELSE view[v]
  BY <1>8
<1>10. \A v \in Views : view[v].step \in Idle => view'[v] = view[v]
  BY <1>9 DEF Idle, Reading
<1>11. ASSUME NEW v \in Views, RightAverages(view[v]) PROVE RightAverages(view'[v])
  <2>1. PICK w : w = view[v] /\ w = [step |-> "averages", rows |-> w.rows, seen |-> w.seen]
                 /\ \A r \in w.rows : r.of \subseteq w.seen
    BY <1>11 DEF RightAverages
  <2>2. PICK rows, seen : rows = w.rows /\ seen = w.seen
    OBVIOUS
  <2>3. CASE view'[v] = view[v]
    BY <1>11, <2>3
  <2>4. CASE view'[v] = [view[v] EXCEPT !.seen = @ \union {m}]
    <3>1. PICK u : u = view'[v] /\ u = [w EXCEPT !.seen = seen \union {m}]
      BY <2>1, <2>2, <2>4
    <3>2. u = [step |-> "averages", rows |-> rows, seen |-> seen \union {m}]
      BY <2>1, <2>2, <3>1, SMTT(30)
    <3>3. u.rows = rows /\ u.seen = seen \union {m} /\ \A r \in rows : r.of \subseteq seen
      BY <2>1, <2>2, <3>2
    <3> QED
      BY <3>1, <3>2, <3>3 DEF RightAverages
  <2> QED
    BY <1>9, <2>3, <2>4
<1>12. ASSUME NEW v \in Views, view[v].step \notin Idle, view[v] \in Request
       PROVE  /\ view'[v] \in Request /\ SeesMore(view[v], view'[v])
              /\ \A x \in Members : people'[x].status = "active" /\ ~people'[x].out => x \in view'[v].seen
  <2>1. view[v].step \in {"look", "queue", "keep", "own", "names", "page"}
    BY <1>12 DEF Request
  <2>2. RightRequest(view[v], v, clock, people, answers, summing)
    BY <2>1, AsRequest
  <2>3. PICK w : w = view[v] /\ w \in Request
                 /\ \A x \in Members : people[x].status = "active" /\ ~people[x].out => x \in w.seen
    BY <1>12, <2>2 DEF RightRequest
  <2>4. Reading(v)
    BY <2>1 DEF Reading
  <2>5. CASE new.status = "active" /\ ~new.out
    <3>1. PICK u : u = view'[v] /\ u = [w EXCEPT !.seen = w.seen \union {m}]
      BY <1>9, <2>3, <2>4, <2>5
    <3>2. u \in Request
      BY <2>3, <3>1 DEF Request
    <3>3. /\ u.step = w.step /\ u.by = w.by /\ u.board = w.board /\ u.first = w.first /\ u.counted = w.counted
          /\ u.began = w.began /\ u.own = w.own /\ u.scores = w.scores /\ u.seen = w.seen \union {m}
      BY <2>3, <3>1, <3>2 DEF Request
    <3>4. \A x \in Members : people'[x].status = "active" /\ ~people'[x].out => x \in u.seen
      BY <1>6, <2>3, <3>3
    <3> QED
      BY <2>3, <3>1, <3>2, <3>3, <3>4 DEF SeesMore
  <2>6. CASE ~(new.status = "active" /\ ~new.out)
    <3>1. view'[v] = w
      BY <1>9, <2>3, <2>6
    <3>2. ASSUME NEW x \in Members, people'[x].status = "active", ~people'[x].out PROVE x \in w.seen
      <4>1. x # m
        BY <1>3, <1>6, <2>6, <3>2
      <4> QED
        BY <1>6, <2>3, <3>2, <4>1
    <3> QED
      BY <2>3, <3>1, <3>2 DEF SeesMore
  <2> QED
    BY <2>5, <2>6
<1>13. HistoryStands(clock, people, answers, people', answers')
  <2>1. ASSUME NEW x \in Members, NEW b \in answers', NEW t \in Int, NEW first,
               t <= clock, OldAnswer(x, b, first, t, people')
        PROVE  b \in answers /\ OldAnswer(x, b, first, t, people)
    <3>1. people'[x].since < t
      BY <2>1 DEF OldAnswer
    <3>2. x # m
      BY <1>2, <1>3, <1>6, <2>1, <3>1
    <3> QED
      BY <1>6, <1>7, <2>1, <3>2 DEF OldAnswer
  <2>2. ASSUME NEW x \in Members, people'[x].status # "gone"
        PROVE  people[x].status # "gone" /\ \A b \in answers : b.by = x => b \in answers'
    <3>1. CASE x = m
      BY <1>3, <1>6, <2>2, <3>1
    <3>2. CASE x # m
      BY <1>6, <2>2, <3>2
    <3> QED
      BY <3>1, <3>2
  <2> QED
    BY <2>1, <2>2 DEF HistoryStands
<1>14. IsFiniteSet(answers')
  BY <1>7, FS_Subset DEF BoardInv
<1>15. summing' # Nothing => view'[summing'.by].step = "keep"
  <2>1. SUFFICES ASSUME summing # Nothing PROVE view'[summing.by].step = "keep"
    BY <1>4
  <2>2. summing.by \in Views /\ view[summing.by].step = "keep"
    BY <2>1 DEF BoardInv, BoardTypeOK, At
  <2>3. view[summing.by] \in Request /\ view[summing.by].step \notin Idle
    BY <2>2, AsRequest DEF Idle
  <2> QED
    BY <1>12, <2>2, <2>3 DEF SeesMore
<1>16. BoardTypeOK'
  <2>1. people' \in [Members -> [status : {"active", "left", "gone"}, out : BOOLEAN, since : -BoardTtl .. LastTick]]
    BY <1>3, <1>4, <1>5
  <2>2. moves' \in 0 .. MaxMoves
    BY <1>2, <1>4
  <2> QED
    BY <1>4, <1>7, <1>15, <2>1, <2>2 DEF BoardInv, BoardTypeOK, At
<1>17. clock <= clock'
  BY <1>2, <1>4
<1> QED
  BY <1>4, <1>9, <1>10, <1>11, <1>12, <1>13, <1>14, <1>16, <1>17, OthersMove

LEMMA StandingsMove ==
    ASSUME BoardInv, NEW m \in Members, Hide(m) \/ Leave(m) \/ Return(m) \/ Delete(m)
    PROVE  BoardInv'
<1>1. people[m] \in [status : {"active", "left", "gone"}, out : BOOLEAN, since : -BoardTtl .. LastTick]
  BY DEF BoardInv, BoardTypeOK
<1>2. -BoardTtl .. LastTick \subseteq Int
  BY LeaderboardAssumption
<1>3. PICK p : p = people[m] /\ p \in [status : {"active", "left", "gone"}, out : BOOLEAN, since : Int]
  BY <1>1, <1>2
<1>4. CASE Hide(m)
  <2>1. PICK new : new = [p EXCEPT !.out = ~@] /\ Moved(m, new)
    BY <1>3, <1>4 DEF Hide
  <2>2. new \in [status : {"active", "left", "gone"}, out : BOOLEAN, since : Int]
    BY <1>3, <2>1
  <2>3. people[m].status # "gone" /\ answers' = answers
    BY <1>4, MembersAre DEF Hide
  <2> QED
    BY <2>1, <2>2, <2>3, MovesKeep
<1>5. CASE Leave(m)
  <2>1. PICK new : new = [p EXCEPT !.status = "left"] /\ Moved(m, new)
    BY <1>3, <1>5 DEF Leave
  <2>2. new \in [status : {"active", "left", "gone"}, out : BOOLEAN, since : Int]
    BY <1>3, <2>1
  <2>3. people[m].status # "gone" /\ answers' = answers
    BY <1>5, MembersAre DEF Leave
  <2> QED
    BY <2>1, <2>2, <2>3, MovesKeep
<1>6. CASE Return(m)
  <2>1. PICK new : new = [p EXCEPT !.status = "active"] /\ Moved(m, new)
    BY <1>3, <1>6 DEF Return
  <2>2. new \in [status : {"active", "left", "gone"}, out : BOOLEAN, since : Int]
    BY <1>3, <2>1
  <2>3. people[m].status # "gone" /\ answers' = answers
    BY <1>6 DEF Return
  <2> QED
    BY <2>1, <2>2, <2>3, MovesKeep
<1>7. CASE Delete(m)
  <2>1. PICK new : new = [p EXCEPT !.status = "gone"] /\ Moved(m, new)
    BY <1>3, <1>7 DEF Delete
  <2>2. new \in [status : {"active", "left", "gone"}, out : BOOLEAN, since : Int] /\ new.status = "gone"
    BY <1>3, <2>1
  <2>3. people[m].status # "gone" /\ answers' = {a \in answers : a.by # m}
    BY <1>7 DEF Delete
  <2> QED
    BY <2>1, <2>2, <2>3, MovesKeep
<1> QED
  BY <1>4, <1>5, <1>6, <1>7

LEMMA BoardsStepOn == BoardInv /\ [BoardNext]_boardVars => BoardInv'
<1> SUFFICES ASSUME BoardInv, [BoardNext]_boardVars PROVE BoardInv'
  OBVIOUS
<1>1. ASSUME NEW v \in Views, NEW m \in Members, NEW b \in Boards, Open(v, m, b) PROVE BoardInv'
  BY <1>1, OpensKeep
<1>2. ASSUME NEW v \in Views, Hit(v) \/ Miss(v) PROVE BoardInv'
  BY <1>2, HitsKeep
<1>3. ASSUME NEW v \in Views, Sum(v) PROVE BoardInv'
  BY <1>3, SumKeeps
<1>4. ASSUME NEW v \in Views, Keep(v) PROVE BoardInv'
  BY <1>4, KeepKeeps
<1>5. ASSUME NEW v \in Views, ReadOwn(v) PROVE BoardInv'
  BY <1>5, ReadOwnKeeps
<1>6. ASSUME NEW v \in Views, ReadNames(v) PROVE BoardInv'
  BY <1>6, ReadNamesKeeps
<1>7. ASSUME NEW v \in Views, Show(v) \/ Fail(v) PROVE BoardInv'
  BY <1>7, EndsKeep
<1>8. ASSUME NEW v \in Views, OpenVerticals(v) PROVE BoardInv'
  BY <1>8, OpenVerticalsKeeps
<1>9. ASSUME NEW m \in Members, NEW won \in Won, NEW d \in 0 .. LastDayOf, Play(m, won, d) PROVE BoardInv'
  BY <1>9, PlaysKeep
<1>10. ASSUME NEW m \in Members, Hide(m) \/ Leave(m) \/ Return(m) \/ Delete(m) PROVE BoardInv'
  BY <1>10, StandingsMove
<1>11. CASE Tick
  BY <1>11, TicksKeep
<1>12. CASE UNCHANGED boardVars
  BY <1>12 DEF boardVars, BoardInv, BoardTypeOK, At
<1> QED
  BY <1>1, <1>2, <1>3, <1>4, <1>5, <1>6, <1>7, <1>8, <1>9, <1>10, <1>11, <1>12 DEF BoardNext

\* What each request has read stands, step by step, for a board that is true when it is drawn
\* (services/leaderboard.py: _period_lp, _scores, board).
THEOREM BoardInvariantHolds == BoardSpec => []BoardInv
BY BoardsStart, BoardsStepOn, PTL DEF BoardSpec

\* Every row of the cache holds what its key says, and only whoever sums holds the lock
\* (services/leaderboard.py: _sums, _lock).
THEOREM BoardsAreTyped == BoardSpec => []BoardTypeOK
<1>1. BoardInv => BoardTypeOK
  BY DEF BoardInv
<1> QED
  BY <1>1, BoardInvariantHolds, PTL

\* A page is drawn of what its request has read, from the scores it kept.
LEMMA PagesTellTheTruth == BoardInv => BoardsTellTheTruth
<1> SUFFICES ASSUME BoardInv PROVE BoardsTellTheTruth
  OBVIOUS
<1>1. ASSUME NEW v \in Paged
      PROVE  /\ RightRequest(view[v], v, clock, people, answers, summing) /\ view[v] \in Request
             /\ RightScores(view[v], people, answers) /\ PageIsRight(view[v].scores, view[v].by)
  <2>1. v \in Views /\ view[v].step = "page"
    BY DEF Paged, At
  <2>2. RightRequest(view[v], v, clock, people, answers, summing) /\ view[v] \in Request
    BY <2>1, AsRequest
  <2>3. RightScores(view[v], people, answers)
    BY <2>1, <2>2 DEF RightRequest
  <2>4. Scorable(view[v].scores)
    BY <2>3 DEF RightScores
  <2> QED
    BY <2>2, <2>3, <2>4, PagesAreRight
<1>2. NamesOnlyTheVisible
  <2>1. ASSUME NEW v \in Paged PROVE {r.who : r \in PageOf(v).rows} \subseteq view[v].seen
    <3>1. SUFFICES ASSUME NEW r \in Page(view[v].scores, view[v].by).rows PROVE r.who \in view[v].seen
      BY DEF PageOf
    <3>2. PICK s \in view[v].scores : s.who = r.who /\ ~s.out
      BY <1>1 DEF PageIsRight
    <3> QED
      BY <1>1, <3>2 DEF RightScores
  <2>2. ASSUME NEW v \in Views, At(v, "averages") PROVE \A r \in view[v].rows : r.of \subseteq view[v].seen
    <3>1. view[v].step = "averages"
      BY <2>2 DEF At
    <3>2. RightView(view[v], v, clock, people, answers, summing)
      BY DEF BoardInv
    <3>3. view[v] \notin Request /\ view[v].step \notin Idle
      BY <3>1 DEF Request, Idle
    <3> QED
      BY <3>2, <3>3 DEF RightView, RightRequest, RightAverages
  <2> QED
    BY <2>1, <2>2 DEF NamesOnlyTheVisible
<1>3. OwnIsCurrent
  BY <1>1 DEF OwnIsCurrent, Summed, RightScores
<1>4. OthersAreRecent
  <2>1. SUFFICES ASSUME NEW v \in Summed, NEW m \in Active, NEW a \in answers,
                        people[m].since + BoardTtl <= view[v].began,
                        a.by = m, a.day >= view[v].first, a.at + BoardTtl <= view[v].began
                 PROVE  a \in view[v].counted /\ \E s \in view[v].scores : s.who = m
    BY DEF OthersAreRecent
  <2>2. v \in Paged /\ view[v].board # "ranked"
    BY <2>1 DEF Summed
  <2>3. PICK w : w = view[v] /\ w \in Request /\ RightRequest(w, v, clock, people, answers, summing)
                 /\ RightScores(w, people, answers) /\ w.board # "ranked" /\ w.step = "page"
    BY <1>1, <2>2 DEF Paged, At
  <2>4. m \in Members /\ people[m].status = "active" /\ people[m].since \in Int
    BY <2>1, MembersAre
  <2>5. a.at \in Int /\ w.began \in Int /\ BoardTtl \in Int
    BY <2>3, MembersAre, LeaderboardAssumption DEF Attempt, Request
  <2>6. people[m].since < Since(w) /\ a.at < Since(w)
    BY <2>1, <2>3, <2>4, <2>5 DEF Since
  <2>7. OldAnswer(m, a, w.first, Since(w), people)
    BY <2>1, <2>3, <2>4, <2>6 DEF OldAnswer
  <2>8. a \in w.counted
    BY <2>3, <2>4, <2>7 DEF RightRequest, CountsOld
  <2>9. \E s \in w.scores : s.who = m
    BY <2>3, <2>4, <2>7 DEF RightScores
  <2> QED
    BY <2>3, <2>8, <2>9
<1>5. CountsThePeriod
  BY <1>1 DEF CountsThePeriod, Summed, RightRequest
<1>6. PlacesAgree
  BY <1>1 DEF PlacesAgree, PageOf, PageIsRight
<1> QED
  BY <1>2, <1>3, <1>4, <1>5, <1>6 DEF BoardsTellTheTruth

\* A board names nobody who could not be seen, counts what is as old as the cache may be and nothing of
\* another period, the viewer's own answers to the last, and gives each their place
\* (services/leaderboard.py: board, verticals; domain/leaderboard.py: ranks, rank_among, vertical_board).
THEOREM BoardsStayTrue == BoardSpec => []BoardsTellTheTruth
BY BoardInvariantHolds, PagesTellTheTruth, PTL

-------------------------------------------------------------------------------
(* The four in one run                                                     *)

LEMMA EachStepIsTheirs ==
    [CareerNext]_careerVars => /\ [RankNext]_rankVars /\ [StreakNext]_streakVars
                               /\ [AwardsNext]_awardsVars /\ [BoardNext]_boardVars
<1> SUFFICES ASSUME [CareerNext]_careerVars
             PROVE  /\ [RankNext]_rankVars /\ [StreakNext]_streakVars
                    /\ [AwardsNext]_awardsVars /\ [BoardNext]_boardVars
  OBVIOUS
<1>1. CASE RankNext /\ UNCHANGED <<streakVars, awardsVars, boardVars, part>>
  BY <1>1
<1>2. CASE StreakNext /\ UNCHANGED <<rankVars, awardsVars, boardVars, part>>
  BY <1>2
<1>3. CASE AwardsNext /\ UNCHANGED <<rankVars, streakVars, boardVars, part>>
  BY <1>3
<1>4. CASE BoardNext /\ UNCHANGED <<rankVars, streakVars, awardsVars, part>>
  BY <1>4
<1>5. CASE UNCHANGED careerVars
  BY <1>5 DEF careerVars
<1> QED
  BY <1>1, <1>2, <1>3, <1>4, <1>5 DEF CareerNext

\* A behaviour of the run is one of each part, so what is proved of a part holds in it.
THEOREM ThePartsShareNothing == CareerSpec => RankSpec /\ StreakSpec /\ AwardsSpec /\ BoardSpec
<1>1. CareerInit => RankInit /\ StreakInit /\ AwardsInit /\ BoardInit
  BY DEF CareerInit
<1> QED
  BY <1>1, EachStepIsTheirs, PTL DEF CareerSpec, RankSpec, StreakSpec, AwardsSpec, BoardSpec

\* The variables of all four keep their types, at once (xp.py, streaks.py, practice.py, leaderboard.py).
THEOREM CareersAreTyped == CareerSpec => []CareerTypeOK
<1>1. AInv => AwardsTypeOK
  BY DEF AInv
<1>2. RankTypeOK /\ StreaksTypeOK /\ AwardsTypeOK /\ BoardTypeOK => CareerTypeOK
  BY DEF CareerTypeOK
<1> QED
  BY <1>1, <1>2, ThePartsShareNothing, RanksAreTyped, StreaksAreTyped, AwardsInvariantHolds, BoardsAreTyped, PTL

-------------------------------------------------------------------------------
(* Scoring: difficulties and guesses, for every answer                     *)

\* What counts towards a question's difficulty.
Countable(given) == {a \in given : a.result # "none" /\ ~a.late /\ a.mode # "live"}

\* Whoever has answered a question does not move its difficulty by answering it again, whoever else did and
\* however often (xp.py: recalibrate).
THEOREM NobodyMovesDifficulty ==
    ASSUME NEW given, NEW again, \A a \in given \union {again} : a.at \in Int
    PROVE  S!NobodyDrags(given, again)
<1> SUFFICES ASSUME NEW a \in S!FirstAnswers(given), a.by = again.by, a.at < again.at
             PROVE  S!FirstAnswers(given \union {again}) = S!FirstAnswers(given)
  BY DEF S!NobodyDrags
<1>1. \A all, x : x \in S!FirstAnswers(all) <=>
          x \in Countable(all) /\ \A b \in Countable(all) : b.by = x.by => x.at <= b.at
  BY DEF S!FirstAnswers, Countable
<1>2. a \in Countable(given) /\ \A b \in Countable(given) : b.by = a.by => a.at <= b.at
  BY <1>1
<1>3. /\ Countable(given) \subseteq Countable(given \union {again})
      /\ \A x \in Countable(given \union {again}) : x \in Countable(given) \/ x = again
  BY DEF Countable
<1>4. PICK first, later \in Int : first = a.at /\ later = again.at /\ first < later
  BY DEF S!FirstAnswers
<1>5. ASSUME NEW x \in S!FirstAnswers(given) PROVE x \in S!FirstAnswers(given \union {again})
  <2>1. x \in Countable(given) /\ \A b \in Countable(given) : b.by = x.by => x.at <= b.at
    BY <1>1
  <2>2. PICK mine \in Int : mine = x.at
    BY <2>1 DEF Countable
  <2>3. again.by = x.by => mine <= first
    BY <1>2, <1>4, <2>1, <2>2
  <2>4. again.by = x.by => x.at <= again.at
    BY <1>4, <2>2, <2>3
  <2>5. \A b \in Countable(given \union {again}) : b.by = x.by => x.at <= b.at
    BY <1>3, <2>1, <2>4
  <2> QED
    BY <1>1, <1>3, <2>1, <2>5
<1>6. ASSUME NEW x \in S!FirstAnswers(given \union {again}) PROVE x \in S!FirstAnswers(given)
  <2>1. /\ x \in Countable(given \union {again})
        /\ \A b \in Countable(given \union {again}) : b.by = x.by => x.at <= b.at
    BY <1>1
  <2>2. CASE x = again
    <3>1. later <= first
      BY <1>2, <1>3, <1>4, <2>1, <2>2
    <3> QED
      BY <1>4, <3>1
  <2>3. CASE x \in Countable(given)
    BY <1>1, <1>3, <2>1, <2>3
  <2> QED
    BY <1>3, <2>1, <2>2, <2>3
<1> QED
  BY <1>5, <1>6

LEMMA LargerProducts ==
    /\ \A a, b, c \in Nat : b <= c => a * b <= a * c
    /\ \A a, b \in Int : a * b \in Int /\ a * b = b * a
    /\ \A a, b \in Nat : a * b \in Nat
    /\ \A a, b, c \in Int : a * (b * c) = (a * b) * c /\ a * (b + c) = a * b + a * c /\ a * (b - c) = a * b - a * c
  OBVIOUS

LEMMA Extremes ==
    ASSUME NEW x \in Int, NEW y \in Int
    PROVE  /\ S!Max({x, y}) \in {x, y} /\ S!Max({x, y}) >= x /\ S!Max({x, y}) >= y
           /\ S!Min({x, y}) \in {x, y} /\ S!Min({x, y}) <= x /\ S!Min({x, y}) <= y
<1>1. (\E m \in {x, y} : \A z \in {x, y} : m >= z) /\ (\E m \in {x, y} : \A z \in {x, y} : m <= z)
  <2>1. CASE x >= y
    BY <2>1
  <2>2. CASE ~ x >= y
    BY <2>2
  <2> QED
    BY <2>1, <2>2
<1> QED
  BY <1>1 DEF S!Max, S!Min

\* What a bad run may take off the losses of as many guesses as land once, and add to the gain.
Movable(gain, loss, guess) == IF guess = 0 THEN loss ELSE gain + (guess - 1) * loss

\* A bad run moves a gain and a loss by at most the whole, and by no more than what a guess still loses.
LEMMA BadRunsAreBounded ==
    ASSUME NEW gain, NEW loss, NEW guess, S!Blind(gain, loss, guess) \in Nat, Movable(gain, loss, guess) \in Int
    PROVE  /\ S!BadRun(gain, loss, guess) \in 0 .. 100
           /\ S!BadRun(gain, loss, guess) * Movable(gain, loss, guess) <= 100 * S!Blind(gain, loss, guess)
<1> PICK blind \in Nat : blind = S!Blind(gain, loss, guess)
  OBVIOUS
<1> PICK moved \in Int : moved = Movable(gain, loss, guess)
  OBVIOUS
<1>1. CASE moved <= 0
  <2>1. S!BadRun(gain, loss, guess) = 0
    BY <1>1 DEF S!BadRun, Movable
  <2> QED
    BY <2>1
<1>2. CASE moved > 0
  <2>1. PICK q \in Nat : q = (100 * blind) \div moved /\ q * moved <= 100 * blind
    <3>1. PICK whole \in Nat : whole = 100 * blind
      OBVIOUS
    <3>2. whole \div moved \in Nat /\ moved * (whole \div moved) <= whole
      BY <1>2
    <3>3. PICK q \in Nat : q = whole \div moved
      BY <3>2
    <3> QED
      BY <3>1, <3>2, <3>3, LargerProducts
  <2>2. PICK low \in Int : low = S!Min({100, q}) /\ low \in {100, q} /\ low <= 100 /\ low <= q
    <3>1. PICK hundred \in Int : hundred = 100
      OBVIOUS
    <3>2. q \in Int
      OBVIOUS
    <3>3. S!Min({hundred, q}) \in {hundred, q} /\ S!Min({hundred, q}) <= hundred /\ S!Min({hundred, q}) <= q
      BY <3>2, Extremes
    <3> QED
      BY <3>1, <3>2, <3>3
  <2>3. S!Max({0, low}) = low
    <3>1. PICK zero \in Int : zero = 0
      OBVIOUS
    <3>2. low >= 0
      BY <2>1, <2>2
    <3>3. S!Max({zero, low}) \in {zero, low} /\ S!Max({zero, low}) >= low
      BY <3>1, Extremes
    <3> QED
      BY <3>1, <3>2, <3>3
  <2>4. S!BadRun(gain, loss, guess) = low
    BY <1>2, <2>1, <2>2, <2>3 DEF S!BadRun, Movable
  <2>5. low \in Nat /\ moved \in Nat /\ low <= q
    BY <1>2, <2>1, <2>2
  <2>6. moved * low <= moved * q /\ moved * low = low * moved /\ moved * q = q * moved
    BY <2>5, LargerProducts
  <2>7. low * moved \in Int /\ q * moved \in Int
    BY <2>5, LargerProducts
  <2>8. low * moved <= 100 * blind
    BY <2>1, <2>6, <2>7
  <2> QED
    BY <2>2, <2>4, <2>5, <2>8
<1> QED
  BY <1>1, <1>2

\* With k more options than one, a guess loses on average k hundredths of what is at stake, or more.
LEMMA GuessesLose ==
    ASSUME NEW k \in Nat, NEW skill \in 3 .. 19, NEW stakes \in Nat, stakes >= 80, NEW part_ \in {50, 100}
    PROVE  \E e, loss, gain, lost \in Nat :
              /\ e = 20 + k * skill /\ loss = e * stakes /\ gain = (20 * (k + 1) - e) * part_
              /\ lost = k * loss /\ lost - gain >= 100 * k /\ loss >= 1600
<1>1. PICK p \in Nat : p = k * skill /\ 3 * k <= p /\ p <= 19 * k
  <2>1. k * skill \in Nat
    OBVIOUS
  <2>2. PICK p \in Nat : p = k * skill
    BY <2>1
  <2>3. \/ skill = 3 \/ skill = 4 \/ skill = 5 \/ skill = 6 \/ skill = 7 \/ skill = 8 \/ skill = 9 \/ skill = 10
        \/ skill = 11 \/ skill = 12 \/ skill = 13 \/ skill = 14 \/ skill = 15 \/ skill = 16 \/ skill = 17
        \/ skill = 18 \/ skill = 19
    OBVIOUS
  <2> QED
    BY <2>2, <2>3
<1>2. PICK e \in Nat : e = 20 + p
  OBVIOUS
<1>3. PICK gain \in Nat : gain = (20 * (k + 1) - e) * part_ /\ gain <= 1700 * k
  <2>1. PICK rest \in Nat : rest = 20 * (k + 1) - e /\ rest <= 17 * k
    BY <1>1, <1>2
  <2>2. PICK gain \in Nat : gain = rest * part_ /\ gain <= 100 * rest
    OBVIOUS
  <2> QED
    BY <2>1, <2>2
<1>4. PICK loss \in Nat : loss = e * stakes /\ loss >= 80 * e
  <2>1. e * 80 <= e * stakes /\ e * stakes \in Nat
    BY LargerProducts
  <2> QED
    BY <2>1
<1>5. PICK lost \in Nat : lost = k * loss /\ lost >= 1800 * k
  <2>1. k * loss \in Nat
    BY LargerProducts
  <2>2. CASE k = 0
    BY <2>1, <2>2
  <2>3. CASE k # 0
    <3>1. PICK most \in Nat : most = 1800
      OBVIOUS
    <3>2. most <= loss
      BY <1>1, <1>2, <1>4, <2>3, <3>1
    <3>3. k * most <= k * loss
      BY <3>2, LargerProducts
    <3> QED
      BY <2>1, <3>1, <3>3
  <2> QED
    BY <2>2, <2>3
<1> QED
  BY <1>1, <1>2, <1>3, <1>4, <1>5

\* The LP of an answer in time: what is gained when it is right and lost when it is wrong, and of "I'm not sure".
Pays(guess, skill, stakes, hint, misses, gain, loss) ==
    /\ S!LpAward(TRUE, FALSE, FALSE, FALSE, guess, skill, stakes, hint, misses) = gain
    /\ S!LpAward(FALSE, FALSE, FALSE, FALSE, guess, skill, stakes, hint, misses) = -loss
    /\ S!LpAward(FALSE, FALSE, TRUE, FALSE, guess, skill, stakes, hint, misses)
          = -S!Min({loss \div 2, S!Max({0, S!Blind(gain, loss, guess)}) \div S!Odds(guess)})

\* The same, of a gain and a loss that a bad run may have moved.
PaysInRuns(guess, skill, stakes, hint, misses, g, l) ==
    \E down \in 0 .. 100 : \E gain, loss \in Nat :
        /\ down * Movable(g, l, guess) <= 100 * S!Blind(g, l, guess)
        /\ gain = g * (200 + down) /\ loss = l * (200 - down)
        /\ Pays(guess, skill, stakes, hint, misses, gain, loss)

LEMMA LpOfAnAnswer ==
    ASSUME NEW guess, NEW skill, NEW stakes, NEW hint, NEW misses \in Nat,
           NEW g \in Nat, g = S!Gain(guess, skill, hint), NEW l \in Nat, l = S!Loss(guess, skill, stakes),
           S!Blind(g, l, guess) \in Nat, Movable(g, l, guess) \in Int
    PROVE  PaysInRuns(guess, skill, stakes, hint, misses, g, l)
<1>1. PICK down \in 0 .. 100 : /\ down = (IF misses >= 3 THEN S!BadRun(g, l, guess) ELSE 0)
                               /\ down * Movable(g, l, guess) <= 100 * S!Blind(g, l, guess)
  <2>1. /\ S!BadRun(g, l, guess) \in 0 .. 100
        /\ S!BadRun(g, l, guess) * Movable(g, l, guess) <= 100 * S!Blind(g, l, guess)
    BY BadRunsAreBounded
  <2>2. CASE misses >= 3
    BY <2>1, <2>2
  <2>3. CASE ~ misses >= 3
    <3>1. 0 * Movable(g, l, guess) = 0
      OBVIOUS
    <3> QED
      BY <2>3, <3>1
  <2> QED
    BY <2>2, <2>3
<1>2. PICK gain, loss \in Nat : gain = g * (200 + down) /\ loss = l * (200 - down)
  <2>1. PICK up, rest \in Nat : up = 200 + down /\ rest = 200 - down
    OBVIOUS
  <2>2. g * up \in Nat /\ l * rest \in Nat
    BY LargerProducts
  <2> QED
    BY <2>1, <2>2
<1>3. Pays(guess, skill, stakes, hint, misses, gain, loss)
  BY <1>1, <1>2 DEF S!LpAward, Pays
<1> QED
  BY <1>1, <1>2, <1>3, ZenonT(40) DEF PaysInRuns

LEMMA WhatNeverPays ==
    ASSUME NEW guess, NEW skill, NEW stakes, NEW hint, NEW misses, NEW won, NEW missed, NEW passed,
           won = S!LpAward(TRUE, FALSE, FALSE, FALSE, guess, skill, stakes, hint, misses),
           missed = S!LpAward(FALSE, FALSE, FALSE, FALSE, guess, skill, stakes, hint, misses),
           passed = S!LpAward(FALSE, FALSE, TRUE, FALSE, guess, skill, stakes, hint, misses),
           guess # 0 => won + (guess - 1) * missed <= 0, guess # 1 => passed < 0,
           missed <= passed, passed <= 0, won >= 0
    PROVE  S!GuessingNeverPays(guess, skill, stakes, hint, misses)
  BY DEF S!GuessingNeverPays

\* Guessing blindly never pays on average, and owning up costs something but no more than being wrong: between
\* any number of options, at any rank and difficulty, with a hint or in a bad run (rank.py: "a blind guess never
\* pays").
THEOREM GuessesNeverPay ==
    \A guess \in Nat, skill \in S!LeastSkill .. S!Sure - 1, division \in S!Divisions, hint \in BOOLEAN, misses \in Nat :
        S!GuessingNeverPays(guess, skill, S!Stakes(division), hint, misses)
<1> SUFFICES ASSUME NEW guess \in Nat, NEW skill \in S!LeastSkill .. S!Sure - 1, NEW division \in S!Divisions,
                    NEW hint \in BOOLEAN, NEW misses \in Nat
             PROVE  S!GuessingNeverPays(guess, skill, S!Stakes(division), hint, misses)
  OBVIOUS
<1>1. skill \in 3 .. 19
  BY DEF S!LeastSkill, S!Sure
<1>2. PICK stakes \in Nat : stakes = S!Stakes(division) /\ stakes >= 80
  BY DEF S!Divisions, S!Stakes
<1>3. PICK share \in {50, 100} : share = IF hint THEN 50 ELSE 100
  OBVIOUS
<1>4. CASE guess = 0
  <2>1. PICK g, l \in Nat : g = (20 - skill) * share /\ l = skill * stakes /\ l >= 240
    <3>1. (20 - skill) * share \in Nat
      BY <1>1
    <3>2. skill * 80 <= skill * stakes /\ skill * stakes \in Nat
      BY <1>1, <1>2, LargerProducts
    <3> QED
      BY <1>1, <3>1, <3>2
  <2>2. g = S!Gain(guess, skill, hint) /\ l = S!Loss(guess, skill, stakes)
    BY <1>1, <1>3, <1>4, <2>1 DEF S!Gain, S!Loss, S!Expected, S!Odds, S!Sure
  <2>3. l = S!Blind(g, l, guess) /\ S!Odds(guess) = 1
    BY <1>4 DEF S!Blind, S!Odds
  <2>4. PICK down \in 0 .. 100 : \E gain, loss \in Nat :
              /\ down * Movable(g, l, guess) <= 100 * S!Blind(g, l, guess)
              /\ gain = g * (200 + down) /\ loss = l * (200 - down)
              /\ Pays(guess, skill, stakes, hint, misses, gain, loss)
    <3>1. Movable(g, l, guess) \in Int /\ S!Blind(g, l, guess) \in Nat
      BY <1>4, <2>3 DEF Movable
    <3>2. PaysInRuns(guess, skill, stakes, hint, misses, g, l)
      BY <2>2, <3>1, LpOfAnAnswer
    <3> QED
      BY <3>2 DEF PaysInRuns
  <2>5. PICK gain, loss \in Nat :
              /\ gain = g * (200 + down) /\ loss = l * (200 - down)
              /\ Pays(guess, skill, stakes, hint, misses, gain, loss)
    BY <2>4
  <2>6. loss >= 100
    <3>1. PICK rest \in Nat : rest = 200 - down /\ rest >= 100
      OBVIOUS
    <3>2. l * 1 <= l * rest
      BY <3>1, LargerProducts
    <3>3. loss = l * rest
      BY <2>5, <3>1
    <3> QED
      BY <2>1, <3>2, <3>3
  <2>7. S!Blind(gain, loss, guess) = loss
    BY <1>4 DEF S!Blind
  <2>8. PICK pass \in Nat : pass = S!Min({loss \div 2, S!Max({0, S!Blind(gain, loss, guess)}) \div S!Odds(guess)})
                            /\ pass >= 1 /\ pass <= loss
    <3>1. PICK zero \in Int : zero = 0
      OBVIOUS
    <3>2. S!Max({zero, loss}) = loss
      <4>1. loss \in Int
        OBVIOUS
      <4>2. S!Max({zero, loss}) \in {zero, loss} /\ S!Max({zero, loss}) >= loss
        BY <4>1, Extremes
      <4> QED
        BY <2>6, <3>1, <4>2
    <3>3. PICK half \in Int : half = loss \div 2 /\ half >= 1 /\ half <= loss
      BY <2>6
    <3>4. PICK whole \in Int : whole = loss \div 1 /\ whole = loss
      OBVIOUS
    <3>5. S!Min({half, whole}) \in {half, whole}
      BY Extremes
    <3> QED
      BY <2>3, <2>6, <2>7, <3>1, <3>2, <3>3, <3>4, <3>5
  <2>9. /\ S!LpAward(TRUE, FALSE, FALSE, FALSE, guess, skill, S!Stakes(division), hint, misses) = gain
        /\ S!LpAward(FALSE, FALSE, FALSE, FALSE, guess, skill, S!Stakes(division), hint, misses) = -loss
        /\ S!LpAward(FALSE, FALSE, TRUE, FALSE, guess, skill, S!Stakes(division), hint, misses) = -pass
    BY <1>2, <2>5, <2>8 DEF Pays
  <2>10. PICK won, missed, passed \in Int : won = gain /\ missed = -loss /\ passed = -pass
    OBVIOUS
  <2>11. passed < 0 /\ missed <= passed /\ passed <= 0 /\ won >= 0
    BY <2>8, <2>10
  <2> QED
    BY <1>4, <2>9, <2>10, <2>11, WhatNeverPays
<1>5. CASE guess # 0
  <2>1. PICK k \in Nat : k = guess - 1
    BY <1>5
  <2>2. PICK e, l, g, lost \in Nat :
              /\ e = 20 + k * skill /\ l = e * stakes /\ g = (20 * (k + 1) - e) * share
              /\ lost = k * l /\ lost - g >= 100 * k /\ l >= 1600
    BY <1>1, <1>2, GuessesLose
  <2>3. g = S!Gain(guess, skill, hint) /\ l = S!Loss(guess, skill, stakes)
    <3>1. S!Odds(guess) = k + 1 /\ S!Expected(guess, skill) = e
      BY <1>5, <2>1, <2>2 DEF S!Odds, S!Expected, S!Sure
    <3>2. S!Loss(guess, skill, stakes) = l
      BY <2>2, <3>1 DEF S!Loss
    <3>3. S!Gain(guess, skill, hint) = ((k + 1) * 20 - e) * share
      BY <1>3, <3>1 DEF S!Gain, S!Sure
    <3>4. (k + 1) * 20 - e = 20 * (k + 1) - e
      OBVIOUS
    <3> QED
      BY <2>2, <3>2, <3>3, <3>4
  <2>4. PICK blind \in Nat : blind = lost - g
    BY <2>2
  <2>5. blind = S!Blind(g, l, guess)
    BY <1>5, <2>1, <2>2, <2>4 DEF S!Blind
  <2>6. PICK moved \in Int : moved = g + lost /\ moved = Movable(g, l, guess)
    BY <1>5, <2>1, <2>2 DEF Movable
  <2>7. PICK down \in 0 .. 100 : \E gain, loss \in Nat :
              /\ down * Movable(g, l, guess) <= 100 * S!Blind(g, l, guess)
              /\ gain = g * (200 + down) /\ loss = l * (200 - down)
              /\ Pays(guess, skill, stakes, hint, misses, gain, loss)
    <3>1. Movable(g, l, guess) \in Int /\ S!Blind(g, l, guess) \in Nat
      BY <2>5, <2>6
    <3>2. PaysInRuns(guess, skill, stakes, hint, misses, g, l)
      BY <2>3, <3>1, LpOfAnAnswer
    <3> QED
      BY <3>2 DEF PaysInRuns
  <2>8. PICK gain, loss \in Nat :
              /\ down * Movable(g, l, guess) <= 100 * S!Blind(g, l, guess)
              /\ gain = g * (200 + down) /\ loss = l * (200 - down)
              /\ Pays(guess, skill, stakes, hint, misses, gain, loss)
    BY <2>7
  <2>9. PICK taken \in Nat : taken = k * loss
    BY LargerProducts
  <2>10. taken - gain >= 100 * blind
    <3>1. PICK gd, ld, md \in Nat : gd = g * down /\ ld = lost * down /\ md = down * moved
      <4>1. g * down \in Nat /\ lost * down \in Nat /\ moved \in Nat
        BY <2>6, LargerProducts
      <4>2. down * moved \in Nat
        BY <4>1, LargerProducts
      <4> QED
        BY <4>1, <4>2
    <3>2. md = gd + ld
      BY <2>6, <3>1, LargerProducts
    <3>3. gain = 200 * g + gd
      BY <2>8, <3>1
    <3>4. PICK rest \in Nat : rest = 200 - down
      OBVIOUS
    <3>5. taken = lost * rest
      BY <2>2, <2>8, <2>9, <3>4, LargerProducts
    <3>6. lost * rest = 200 * lost - ld
      BY <3>1, <3>4
    <3>7. down * moved <= 100 * blind
      BY <2>5, <2>6, <2>8
    <3> QED
      BY <2>4, <3>1, <3>2, <3>3, <3>5, <3>6, <3>7
  <2>11. PICK still \in Nat : still = taken - gain /\ still = S!Blind(gain, loss, guess)
    BY <1>5, <2>1, <2>9, <2>10 DEF S!Blind
  <2>12. loss >= 1600
    <3>1. PICK rest \in Nat : rest = 200 - down /\ rest >= 100
      OBVIOUS
    <3>2. l * 1 <= l * rest
      BY <3>1, LargerProducts
    <3>3. loss = l * rest
      BY <2>8, <3>1
    <3> QED
      BY <2>2, <3>2, <3>3
  <2>13. S!Max({0, still}) = still
    <3>1. PICK zero \in Int : zero = 0
      OBVIOUS
    <3>2. still \in Int
      OBVIOUS
    <3>3. S!Max({zero, still}) \in {zero, still} /\ S!Max({zero, still}) >= still
      BY <3>2, Extremes
    <3> QED
      BY <3>1, <3>3
  <2>14. PICK each \in Nat : each = still \div guess /\ (k >= 1 => each >= 1)
    <3>1. k >= 1 => still >= guess
      BY <2>1, <2>2, <2>4, <2>10, <2>11
    <3>2. still \div guess \in Nat /\ (still >= guess => still \div guess >= 1)
      BY <1>5
    <3> QED
      BY <3>1, <3>2
  <2>15. PICK pass \in Nat : pass = S!Min({loss \div 2, S!Max({0, S!Blind(gain, loss, guess)}) \div S!Odds(guess)})
                             /\ (k >= 1 => pass >= 1) /\ pass <= loss
    <3>1. PICK half \in Int : half = loss \div 2 /\ half >= 1 /\ half <= loss
      BY <2>12
    <3>2. S!Odds(guess) = guess
      BY <1>5 DEF S!Odds
    <3>3. each \in Int
      OBVIOUS
    <3>4. S!Min({half, each}) \in {half, each} /\ S!Min({half, each}) <= half
      BY <3>3, Extremes
    <3>5. S!Max({0, S!Blind(gain, loss, guess)}) \div S!Odds(guess) = each
      BY <2>11, <2>13, <2>14, <3>2
    <3>6. PICK pass \in Int : pass = S!Min({half, each})
      BY <3>4
    <3> QED
      BY <2>14, <3>1, <3>4, <3>5, <3>6
  <2>16. gain + (guess - 1) * (-loss) <= 0
    <3>1. (guess - 1) * (-loss) = -taken
      BY <2>1, <2>9
    <3> QED
      BY <2>4, <2>10, <3>1
  <2>17. /\ S!LpAward(TRUE, FALSE, FALSE, FALSE, guess, skill, S!Stakes(division), hint, misses) = gain
        /\ S!LpAward(FALSE, FALSE, FALSE, FALSE, guess, skill, S!Stakes(division), hint, misses) = -loss
        /\ S!LpAward(FALSE, FALSE, TRUE, FALSE, guess, skill, S!Stakes(division), hint, misses) = -pass
    BY <1>2, <2>8, <2>15 DEF Pays
  <2>18. PICK won, missed, passed \in Int : won = gain /\ missed = -loss /\ passed = -pass
    OBVIOUS
  <2>19. missed <= passed /\ passed <= 0 /\ won >= 0 /\ (guess # 1 => passed < 0)
    BY <1>5, <2>1, <2>15, <2>18
  <2>20. guess # 0 => won + (guess - 1) * missed <= 0
    BY <2>16, <2>18
  <2> QED
    <3>1. /\ won = S!LpAward(TRUE, FALSE, FALSE, FALSE, guess, skill, S!Stakes(division), hint, misses)
          /\ missed = S!LpAward(FALSE, FALSE, FALSE, FALSE, guess, skill, S!Stakes(division), hint, misses)
          /\ passed = S!LpAward(FALSE, FALSE, TRUE, FALSE, guess, skill, S!Stakes(division), hint, misses)
      BY <2>17, <2>18
    <3> QED
      BY <2>19, <2>20, <3>1 DEF S!GuessingNeverPays
<1> QED
  BY <1>4, <1>5
===============================================================================
