-------------------------------- MODULE Routing --------------------------------
(***************************************************************************)
(* The rules of a live quiz that keep no state (domain/live.py, and what   *)
(* services/live.py feeds them): who sits where, which questions are       *)
(* picked, which table answers each, how likely a table is to get one, and *)
(* the points of a quick answer.                                           *)
(*                                                                         *)
(* A table is a record [id, topics]; a line-up is a sequence of topics.    *)
(* LiveSession takes any line-up of captained tables for granted; what     *)
(* Route makes of the topics is checked here for every small input.        *)
(***************************************************************************)
EXTENDS Integers, Sequences, FiniteSets
LOCAL INSTANCE SequencesExt
LOCAL INSTANCE Functions
LOCAL INSTANCE FiniteSetsExt

CONSTANT Unowned    \* no catch-all, no topic, no sub-department

Ids(tables) == {tables[i].id : i \in DOMAIN tables}

\* seat_by_subdepartment: a player sits with the first of their sub-departments that is still known, and
\* whoever has none sits at one table more.
Known(codes, departments) == SelectSeq(codes, LAMBDA c : c \in departments)
TableOf(codes, departments) ==
    IF Known(codes, departments) = <<>> THEN Unowned ELSE Head(Known(codes, departments))
SeatBySubdepartment(codesOf, departments) ==
    LET at(p) == TableOf(codesOf[p], departments)
    IN {[code |-> c, members |-> {p \in DOMAIN codesOf : at(p) = c}] : c \in {at(p) : p \in DOMAIN codesOf}}

\* _pool and _pick: a quiz's playable, graded questions in its order, or any `count` of those in the chosen
\* areas or topics (all of them when none is chosen).
Pool(questions, areas, topics) ==
    {q \in questions : areas \union topics # {} => q.area \in areas \/ q.topic \in topics}
Picks(pool, count) ==
    {s \in SeqOf(pool, count) : IsInjective(s) /\ (Len(s) = count \/ Len(s) = Cardinality(pool))}

\* _routing: the tables with a captain answer; the catch-all is the one chosen, or else the biggest, the
\* earlier one when two are level.
CatchAll(tables, chosen, size) ==
    LET answering == {i \in DOMAIN tables : tables[i].captained}
        marked == {i \in answering : tables[i].id \in chosen}
        biggest == {i \in answering : \A j \in answering : size[tables[j].id] <= size[tables[i].id]}
        first(S) == CHOOSE i \in S : \A j \in S : i <= j
    IN IF answering = {} THEN Unowned ELSE tables[first(IF marked # {} THEN marked ELSE biggest)].id

\* min(owners): the owner with the fewest questions so far, the earlier table on a tie.
Least(owners, load) ==
    owners[CHOOSE i \in DOMAIN owners :
             \A j \in DOMAIN owners : load[owners[i]] < load[owners[j]] \/ (load[owners[i]] = load[owners[j]] /\ i <= j)]

\* route.
Owners(topic, tables) ==
    LET owning == SelectSeq(tables, LAMBDA t : topic # Unowned /\ topic \in t.topics)
    IN [i \in DOMAIN owning |-> owning[i].id]
Routed(before, topic, tables, catchAll) ==
    LET owners == Owners(topic, tables)
        t == IF owners # <<>> THEN Least(owners, before.load) ELSE catchAll
    IN [load |-> IF t \in DOMAIN before.load THEN [before.load EXCEPT ![t] = @ + 1] ELSE before.load,
        out |-> Append(before.out, t)]
Route(topics, tables, catchAll) ==
    FoldLeft(LAMBDA before, topic : Routed(before, topic, tables, catchAll),
             [load |-> [t \in Ids(tables) |-> 0], out |-> <<>>], topics).out

\* reach: of the draws of `count` topics from a pool, how many give a table a question.  (The code takes a
\* hundred draws at random, and the one whole run when the pool is no bigger than that.)
Draws(pool, count) ==
    IF count >= Len(pool) THEN {pool}
    ELSE {[i \in 1 .. count |-> pool[pick[i]]] : pick \in {f \in [1 .. count -> DOMAIN pool] : IsInjective(f)}}
Reach(pool, count, tables, catchAll) ==
    [t \in Ids(tables) |-> {d \in Draws(pool, count) : \E i \in DOMAIN d : Route(d, tables, catchAll)[i] = t}]

\* speed_points, rounded half to even as Python does.
RoundHalfEven(n, d) ==
    LET q == n \div d  r == 2 * (n % d)
    IN IF r > d \/ (r = d /\ q % 2 = 1) THEN q + 1 ELSE q
SpeedPoints(correct, elapsed, budget) ==
    IF ~correct THEN 0
    ELSE IF budget = 0 THEN 1000
    ELSE LET spent == IF elapsed < 0 THEN 0 ELSE IF elapsed > budget THEN budget ELSE elapsed
         IN RoundHalfEven(1000 * (2 * budget - spent), 2 * budget)

\* _budget: none, a number of seconds for all, or the question's own (none when it has none).
Budget(timing, seconds, own) == CASE timing = "real" -> own [] timing = "fixed" -> seconds [] OTHER -> 0

\* _build and _score, once results show: over the closed questions, each with the table it went to (or none) and
\* the tables' answers, a table's right answers; and the room's, its owners' or those of the best table.
Revealed(state, feedback) == state = "finished" \/ (state = "closed" /\ feedback = "each")
Closed(state, position, last) == {p \in 0 .. last : p < position \/ (p = position /\ state # "open")}
RightOf(asked, closed, t) == {p \in closed : t \in DOMAIN asked[p].sent /\ asked[p].sent[t]}
RoomRight(asked, closed, tables, specialists) ==
    IF specialists
      THEN Cardinality({p \in closed : asked[p].owner \in DOMAIN asked[p].sent /\ asked[p].sent[asked[p].owner]})
      ELSE Max({0} \union {Cardinality(RightOf(asked, closed, t)) : t \in tables})

-------------------------------------------------------------------------------
(* What the rules promise, for the inputs given                            *)

Count(out, t) == Cardinality({i \in DOMAIN out : out[i] = t})

\* A question with owners goes to one of them and any other to the catch-all; and of two tables with the same
\* topics, neither of them the catch-all, neither gets two questions more ("every owner gets its share").
RoutesFairly(topics, tables, catchAll) ==
    LET out == Route(topics, tables, catchAll)
    IN /\ Len(out) = Len(topics)
       /\ \A i \in DOMAIN out :
             IF Owners(topics[i], tables) = <<>> THEN out[i] = catchAll
             ELSE \E t \in {tables[j] : j \in DOMAIN tables} : t.id = out[i] /\ topics[i] \in t.topics
       /\ \A i, j \in DOMAIN tables :
             tables[i].topics = tables[j].topics /\ catchAll \notin {tables[i].id, tables[j].id} =>
                Count(out, tables[i].id) - Count(out, tables[j].id) \in -1 .. 1

\* The lobby's warning is right about the extremes: a table that the draws never reach owns no topic of the
\* pool and is not the catch-all, unless others share its topics; a quiz asked whole warns of exactly what happens.
WarnsRightly(pool, count, tables, catchAll) ==
    LET reach == Reach(pool, count, tables, catchAll)
    IN \A i \in DOMAIN tables :
          LET mine == {j \in DOMAIN pool : pool[j] \in tables[i].topics \ {Unowned}}
              alone == \A j \in DOMAIN tables \ {i} : tables[j].topics \intersect tables[i].topics = {}
          IN /\ reach[tables[i].id] = {} /\ alone => mine = {}
             /\ mine = {} /\ catchAll # tables[i].id => reach[tables[i].id] = {}
             /\ count >= Len(pool) => Cardinality(reach[tables[i].id]) \in {0, 1}

\* Everyone sits at one table, at one of a sub-department they name.
SeatsEveryone(codesOf, departments) ==
    LET tables == SeatBySubdepartment(codesOf, departments)
    IN \A p \in DOMAIN codesOf :
          /\ Cardinality({t \in tables : p \in t.members}) = 1
          /\ \A t \in tables : p \in t.members =>
                IF t.code = Unowned THEN \A i \in DOMAIN codesOf[p] : codesOf[p][i] \notin departments
                ELSE \E i \in DOMAIN codesOf[p] : codesOf[p][i] = t.code

\* The room's tally is never below any table's when all answer, is all of theirs when each question has its table,
\* and tells nothing of a question that still runs.
TalliesTheRoom(asked, position, tables, specialists) ==
    \A state \in {"open", "closed", "finished"} :
        LET closed == Closed(state, position, Max(DOMAIN asked))
            room == RoomRight(asked, closed, tables, specialists)
            each(t) == Cardinality(RightOf(asked, closed, t))
        IN /\ room <= Cardinality(closed)
           /\ IF specialists THEN room = MapThenSumSet(each, tables) ELSE \A t \in tables : each(t) <= room
           /\ state = "open" => position \notin closed
           /\ Revealed(state, "end") => state = "finished"

\* A right answer is worth 500 to 1000, never more for being later, and a wrong one nothing.
PaysForSpeed(budget) ==
    \A s, t \in -1 .. budget + 1 :
        /\ SpeedPoints(TRUE, s, budget) \in 500 .. 1000 /\ SpeedPoints(FALSE, s, budget) = 0
        /\ s <= t => SpeedPoints(TRUE, t, budget) <= SpeedPoints(TRUE, s, budget)
===============================================================================
