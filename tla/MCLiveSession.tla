---------------------------- MODULE MCLiveSession ----------------------------
(***************************************************************************)
(* A small session for TLC: a host (1) and two or three players, the later *)
(* ids with the higher rank, two tables and two questions.  And the rules  *)
(* of Routing on every small input.                                        *)
(***************************************************************************)
EXTENDS LiveSession, FiniteSets
LOCAL INSTANCE Sequences
S == INSTANCE SequencesExt

MCRankPoints == [u \in Users |-> u \div 3]
MCDepartment == [u \in Users |-> IF u = 2 THEN 1 ELSE 2]
MCConfigs == {[routing |-> "all", timed |-> TRUE, feedback |-> "each"],
              [routing |-> "owners", timed |-> FALSE, feedback |-> "end"]}

-------------------------------------------------------------------------------
(* Routing                                                                    *)

None == 0   \* no topic, no catch-all, no sub-department
R == INSTANCE Routing WITH Unowned <- None

\* Three tables that own any of two topics each, line-ups of up to five questions, a catch-all or none.
Topics == {1, 2}
Rooms == {<<[id |-> 11, topics |-> x], [id |-> 12, topics |-> y], [id |-> 13, topics |-> z]>> :
            x, y, z \in SUBSET Topics}

ASSUME RoutingIsFair ==
    \A room \in Rooms, topics \in S!SeqOf(Topics \union {None}, 5), catchAll \in {None, 11, 13} :
        R!RoutesFairly(topics, room, catchAll)

ASSUME LobbyWarnsRightly ==
    \A room \in Rooms, pool \in S!SeqOf(Topics \union {None}, 3) \ {<<>>}, count \in 1 .. 3, catchAll \in {11, 13} :
        R!WarnsRightly(pool, count, room, catchAll)

\* Three players who name up to two sub-departments, of which one is still known or two.
ASSUME SeatingIsWhole ==
    \A codesOf \in [1 .. 3 -> S!SeqOf({1, 2, 3}, 2)], departments \in {{1}, {1, 2}} :
        R!SeatsEveryone(codesOf, departments)

\* The catch-all answers; without a choice nobody's table is bigger.
ASSUME CatchAllAnswers ==
    \A captained \in [1 .. 3 -> BOOLEAN], size \in [1 .. 3 -> 0 .. 2], chosen \in {{}, {2}} :
        LET room == [i \in 1 .. 3 |-> [id |-> i, captained |-> captained[i]]]
            t == R!CatchAll(room, chosen, size)
        IN IF \A i \in 1 .. 3 : ~captained[i] THEN t = None
           ELSE /\ captained[t]
                /\ t \in chosen \/ \A i \in 1 .. 3 : captained[i] => size[i] <= size[t]

\* What is picked is of the pool, once each, and as many as asked for or as there are.
ASSUME PicksFit ==
    LET questions == [area : {8, 9}, topic : Topics]
    IN \A areas \in SUBSET {8}, topics \in SUBSET Topics, count \in 1 .. 2 :
          LET pool == R!Pool(questions, areas, topics)
          IN \A picked \in R!Picks(pool, count) :
                Len(picked) = (IF Cardinality(pool) < count THEN Cardinality(pool) ELSE count)

\* Two tables and two questions: each of both tables, or of one that alone may answer it.
Asked(specialists) ==
    IF specialists
      THEN {[owner |-> t, sent |-> sent] : t \in {11, 12}, sent \in {<<>>}}
             \union {[owner |-> t, sent |-> [x \in {t} |-> right]] : t \in {11, 12}, right \in BOOLEAN}
      ELSE {[owner |-> None, sent |-> sent] : sent \in UNION {[T -> BOOLEAN] : T \in SUBSET {11, 12}}}

ASSUME RoomsTally ==
    \A specialists \in BOOLEAN : \A q, r \in Asked(specialists), at \in 0 .. 1 :
        R!TalliesTheRoom([p \in 0 .. 1 |-> IF p = 0 THEN q ELSE r], at, {11, 12}, specialists)

ASSUME SpeedPays ==
    \A budget \in 0 .. 70 : R!PaysForSpeed(R!Budget("fixed", budget, 30))
===============================================================================
