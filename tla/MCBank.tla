-------------------------------- MODULE MCBank --------------------------------
(* What FS-Quiz publishes of the question when Bank is checked with TLC, the  *)
(* reports that reviewers handle beside it (the two share no variable, so a   *)
(* behaviour moves one of them), and the rules of Grading on every small      *)
(* input.                                                                     *)
EXTENDS Bank, Reports, TLC
LOCAL INSTANCE Integers
LOCAL INSTANCE Sequences

Content(options, correct, wording, rest) ==
    [options |-> options, correct |-> correct, wording |-> wording, rest |-> rest]

First == Content({1, 2}, {1}, 0, 0)

\* The first content, and with a new wording, a new solution, another answer, another option, a
\* single option, and no answer.
Some == {First, Content({1, 2}, {1}, 1, 0), Content({1, 2}, {1}, 0, 1), Content({1, 2}, {2}, 0, 0),
         Content({1, 3}, {1}, 0, 0), Content({1}, {1}, 0, 0), Content({1, 2}, {}, 0, 0)}

NotRead == {Content({1, 2}, {2}, 0, 0)}

VARIABLE part

MCInit == Init /\ ReportsInit /\ part \in {"bank", "reports"}
MCNext ==
    \/ part = "bank" /\ Next /\ UNCHANGED <<reportVars, part>>
    \/ part = "reports" /\ ReportsNext /\ UNCHANGED <<vars, part>>
MCSpec == MCInit /\ [][MCNext]_<<vars, reportVars, part>>

Symmetric ==
    Permutations(Players) \union Permutations(Reported) \union Permutations(Posts) \union Permutations(Reviewers)

\* The types of both.
ReviewTypeOK == BankTypeOK /\ ReportsTypeOK

\* Whatever waits for a reviewer stays in the queue that lists it: a question whose correction a push dropped,
\* and what a player reported.
QueuesKeepWhatWaits == DroppedCorrectionsAreFlagged /\ ReportsWait

-------------------------------------------------------------------------------
(* Grading                                                                    *)

G == INSTANCE Grading

\* -1, 0, 0.01, 0.23, 0.5, 1, 1.5, 10, 82.9, 1000: around zero and one, small enough that a hint's range is wide,
\* and far enough out that 0.1 % counts; each with the decimals it can be written with.
Kept == {n \in {G!Num(v, d) : v \in {-200, 0, 2, 46, 100, 200, 300, 2000, 16580, 200000}, d \in 0 .. 2} :
            n.v % (G!Unit \div G!Pow(n.d)) = 0}
Near(n) == {n.v + x : x \in -101 .. 101}

ASSUME NumbersRound == \A n \in Kept : \A given \in Near(n) : G!MarksWhatRounds(n, given)

Lists == {<<G!Num(200, 0), G!Num(400, 0)>>, <<G!Num(400, 0), G!Num(200, 0)>>,
          <<G!Num(200, 0), G!Num(200, 0)>>, <<G!Num(200, 0), G!Num(400, 0), G!Num(600, 0)>>}
Keys ==
    {[kind |-> "number", accept |-> <<n>>] : n \in Kept}
        \union {[kind |-> "numbers", accept |-> <<[values |-> l, ordered |-> o]>>] : l \in Lists, o \in BOOLEAN}
        \union {[kind |-> "numbers", accept |-> <<[values |-> l, ordered |-> TRUE], [values |-> m, ordered |-> TRUE]>>] :
                    l, m \in Lists}
        \union {[kind |-> "range", accept |-> <<[lo |-> 200, hi |-> hi]>>] : hi \in {200, 300}}
        \union {[kind |-> "text", accept |-> <<"T 4.5">>]}
Texts ==
    {G!NoText, G!Word("T 4.5"), G!Word("x")} \union {G!Typed(<<n>>) : n \in Kept}
        \union {G!Typed(l) : l \in Lists} \union {G!Typed(<<[G!Num(200, 0) EXCEPT !.ambiguous = TRUE]>>)}

\* What is refused would not have been right, so refusing it costs nothing but the time to type it again.
ASSUME RefusalsCostNothing == \A k \in Keys, t \in Texts : G!RefusesNothingRight(k, t)

\* A reviewer's correction is kept when it reads as an answer of one kind and means one number.
Twofold == [G!Num(200, 2) EXCEPT !.ambiguous = TRUE]
Alternatives ==
    {G!Word("x"), G!NoText, G!Ends(G!Num(400, 0), G!Num(200, 0)), G!Ends(G!Num(200, 0), Twofold),
     G!Typed(<<Twofold>>), G!Typed(<<G!Num(400, 0)>>), G!Typed(<<G!Num(200, 0), Twofold>>)}
        \union {G!Typed(l) : l \in Lists}

ASSUME CorrectionsReadBack ==
    \A qtype \in {"input", "input-range"}, a, b \in Alternatives, comma \in BOOLEAN :
        G!KeepsCorrections(qtype, <<a, b>>, comma) /\ G!KeepsCorrections(qtype, <<a>>, comma)

\* "I'm not sure" is never right, an ungraded question never marked, and an option that was removed refused.
ASSUME ChecksInOrder ==
    \A k \in {[kind |-> "choice", mode |-> m, options |-> {1}] : m \in {"one", "all"}},
       graded, unsure \in BOOLEAN, chosen \in SUBSET {1, 2, 3} :
        LET result == G!Check(k, graded, {1, 2}, chosen, G!NoText, unsure, FALSE)
        IN /\ result = "refused" <=> 3 \in chosen
           /\ result = "right" <=> graded /\ ~unsure /\ chosen = {1}
           /\ result = "ungraded" <=> ~graded /\ 3 \notin chosen
           /\ G!Explain(k, result).correct = result

ASSUME HintsKeepTheAnswer ==
    /\ \A n \in Kept, draw \in G!Draw : G!WindowKeepsTheSecret(n, draw)
    /\ \A lo \in {-200, 0, 100}, w \in {0, 10, 400}, draw \in G!Draw : G!AroundKeepsTheSecret([lo |-> lo, hi |-> lo + w], draw)
    /\ \A options \in SUBSET (1 .. 4), draw \in {CHOOSE d \in G!Draw : TRUE} : \A right \in SUBSET options :
          G!HintLeavesTwo([kind |-> "choice", mode |-> "one", options |-> right], options, draw)
===============================================================================
