-------------------------------- MODULE MCPlay --------------------------------
(* Bounds and symmetry for checking Play with TLC.                            *)
EXTENDS Play, TLC

\* Every request can do what any other can.
Symmetric == Permutations(Requests)

\* Bound: at most three attempts, and either a reviewer and both questions on one day with one run,
\* or one question over all days and runs.
OneQuestion ==
    /\ reviews = 0
    /\ \A d \in Days : drawn[d] \in {1, NoQuestion}
    /\ \A a \in Ids : attempts[a].question = 1
    /\ \A p \in Requests : IsAt(p, "practice") => request[p].question = 1

OneDay == day = 0 /\ Len(runs) <= 1

Bounded == Len(attempts) <= 3 /\ (OneQuestion \/ OneDay)
===============================================================================
