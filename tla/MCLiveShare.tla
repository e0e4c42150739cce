----------------------------- MODULE MCLiveShare -----------------------------
(***************************************************************************)
(* A session whose last question has just opened, for TLC: host 1, players *)
(* 2 and 3.  With two tables they captain tables 2 and 1 (so that a player *)
(* may answer first at the table with the higher id); with one table they  *)
(* share it and 2 is the captain.  LiveSession reaches this state: the     *)
(* host creates the session, the two join, the host seats them and presses *)
(* start; table 1 answers each question before the last, the host's screen *)
(* shows its result, and the host opens the next.                          *)
(***************************************************************************)
EXTENDS LiveShare

MCRankPoints == [u \in Users |-> 0]
MCDepartment == [u \in Users |-> 1]
MCConfigs == {[routing |-> "all", timed |-> FALSE, feedback |-> f] : f \in {"each", "end"}}

Last == NumQuestions - 1
AskedBefore == {k \in Answers : k[1] < Last /\ k[2] = 1}

Started ==
    /\ accounts = Users
    /\ state = "open" /\ position = Last /\ version = 4 + 2 * Last /\ clock = "off"
    /\ host = Host
    /\ config \in Configs
    /\ player = [u \in Users |-> IF u = Host THEN "out" ELSE "in"]
    /\ seat = [u \in Users |-> IF u = Host THEN NoTable ELSE IF u \in Tables THEN u ELSE 1]
    /\ tables = Tables
    /\ captain = [t \in Tables |-> IF t = 1 /\ 2 \in Tables THEN 3 ELSE 2]
    /\ proposals = [t \in Tables |-> 0]
    /\ lineup = [q \in Questions |-> NoTable]
    /\ answered = [q \in Questions |-> IF q < Last THEN {1} ELSE {}]
    /\ screen = 2 * Last
    /\ noticed = FALSE /\ leaving = FALSE
    /\ owed = {} /\ lost = FALSE
    /\ members = [k \in Answers |-> IF k \in AskedBefore THEN {u \in Users : seat[u] = 1} ELSE {}]
    /\ sent = [i \in 1 .. Last |-> <<i - 1, 1>>]
    /\ granted = {} /\ attempts = {}
    /\ NobodyShares
    /\ NobodyIsDeleted

\* Bound: the host ends the quiz or leaves it, and people only change tables.  What is left out
\* tells a sharer nothing new, and is in LiveSession's own run.
PeopleOnlyChangeTables ==
    /\ host = Host /\ screen = 2 * Last /\ ~lost
    /\ \A u \in Users \ {Host} : seat[u] # NoTable <=> u \in accounts

\* For the property that tells answers apart by the order they were sent in.
viewWithOrder == <<shareView, sent>>

StartedSpec == Started /\ [][LiveNext]_allVars
FairStartedSpec == StartedSpec /\ Fairness
===============================================================================
