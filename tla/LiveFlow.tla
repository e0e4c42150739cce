------------------------------- MODULE LiveFlow -------------------------------
(***************************************************************************)
(* What a live quiz promises the room, whatever its host, its captains and *)
(* the clock do: the questions are asked in order, one at a time; each is  *)
(* closed, so that its result is shown, before the next one opens; answers *)
(* are collected only while their question is open, one per table; and a   *)
(* finished quiz stays as it is.  This is the state diagram of             *)
(* docs/architecture.md ("Live quiz at the system level") with the answers *)
(* added.  LiveSession implements it.                                      *)
(***************************************************************************)
EXTENDS Integers

CONSTANTS
    Tables,         \* the tables that may send answers
    NumQuestions    \* how many questions the quiz asks

VARIABLES
    state,          \* "lobby", "open", "closed" or "finished"
    position,       \* the current question, -1 in the lobby
    answered        \* for each question, the tables whose answer is in

vars == <<state, position, answered>>

Questions == 0 .. NumQuestions - 1

Init ==
    /\ state = "lobby"
    /\ position = -1
    /\ answered = [q \in Questions |-> {}]

Start ==
    /\ state = "lobby"
    /\ state' = "open"
    /\ position' = 0
    /\ UNCHANGED answered

\* An answer comes in; it may be the one that closes the question.
Collect(t) ==
    /\ state = "open"
    /\ t \notin answered[position]
    /\ answered' = [answered EXCEPT ![position] = @ \union {t}]
    /\ state' \in {"open", "closed"}
    /\ UNCHANGED position

Close ==
    /\ state = "open"
    /\ state' = "closed"
    /\ UNCHANGED <<position, answered>>

OpenNext ==
    /\ state = "closed"
    /\ position + 1 \in Questions
    /\ state' = "open"
    /\ position' = position + 1
    /\ UNCHANGED answered

Finish ==
    /\ state # "finished"
    /\ state' = "finished"
    /\ UNCHANGED <<position, answered>>

Next ==
    \/ Start
    \/ \E t \in Tables : Collect(t)
    \/ Close
    \/ OpenNext
    \/ Finish

Spec == Init /\ [][Next]_vars
===============================================================================
