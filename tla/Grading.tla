-------------------------------- MODULE Grading --------------------------------
(***************************************************************************)
(* Keys, answers and hints (domain/grading.py, hints.py and keys.py,       *)
(* services/questions.py): what an answer is marked, when it is refused    *)
(* instead, and what a hint leaves to guess.                               *)
(*                                                                         *)
(* A text stands for what it reads as: a sequence of numbers, each with    *)
(* its decimals and whether "59,988" could mean two of them; or a word.    *)
(* Numbers are integers in units of 1/Unit, so that half a unit in the     *)
(* second decimal is one.                                                  *)
(***************************************************************************)
EXTENDS Integers, Sequences, FiniteSets, FiniteSetsExt

Unit == 200
Pow(d) == IF d = 0 THEN 1 ELSE IF d = 1 THEN 10 ELSE 100    \* bound: two decimals
Abs(x) == IF x < 0 THEN -x ELSE x

\* A number as typed or kept: its value, its decimals, and whether it is ambiguous as a player types it.
Num(v, d) == [v |-> v, d |-> d, ambiguous |-> FALSE]
NoText == [reads |-> "nothing"]
Word(w) == [reads |-> "word", word |-> w]
Typed(values) == [reads |-> "numbers", values |-> values]
Ends(a, b) == [reads |-> "range", ends |-> <<a, b>>]

-------------------------------------------------------------------------------
(* Keys                                                                    *)

\* A choice of one or all of some options, alternatives of numbers, lists, ranges or words, or "self", which
\* is shown and not graded.
NoKey == [kind |-> "none"]
SelfKey == [kind |-> "self"]

\* _alternative: what one accepted answer is read as, or nothing; three or more whole numbers that ascend
\* are a set.
Unordered(values) ==
    /\ Len(values) >= 3 /\ \A i \in DOMAIN values : values[i].d = 0
    /\ \A i \in 1 .. Len(values) - 1 : values[i].v < values[i + 1].v
Alternative(qtype, text) ==
    CASE text.reads = "range" ->
           {[kind |-> "range", accept |-> [lo |-> Min({text.ends[1].v, text.ends[2].v}),
                                           hi |-> Max({text.ends[1].v, text.ends[2].v})]]}
      [] qtype = "input" /\ text.reads = "numbers" ->
           {IF Len(text.values) = 1 THEN [kind |-> "number", accept |-> text.values[1]]
            ELSE [kind |-> "numbers", accept |-> [values |-> text.values, ordered |-> ~Unordered(text.values)]]}
      [] qtype = "input" /\ text.reads = "word" -> {[kind |-> "text", accept |-> text.word]}
      [] OTHER -> {}

\* build_key, of a typed question: alternatives of one kind.
BuildKey(qtype, texts) ==
    LET read == UNION {Alternative(qtype, texts[i]) : i \in DOMAIN texts}
    IN IF texts = <<>> THEN NoKey
       ELSE IF (\E i \in DOMAIN texts : Alternative(qtype, texts[i]) = {}) \/ Cardinality({a.kind : a \in read}) # 1
         THEN SelfKey
       ELSE [kind |-> (CHOOSE a \in read : TRUE).kind,
             accept |-> [i \in DOMAIN texts |-> (CHOOSE a \in Alternative(qtype, texts[i]) : TRUE).accept]]

-------------------------------------------------------------------------------
(* Grading                                                                 *)

\* tolerance, in thousandths of a unit: half a unit in the last decimal, or 0.1 % of the value if that is
\* larger; only what rounds to it for a whole number, nothing around zero.
Tolerance(n) ==
    LET half == 1000 * (Unit \div (2 * Pow(n.d)))
    IN IF n.v = 0 THEN 0 ELSE IF n.d = 0 THEN half ELSE Max({half, Abs(n.v)})

\* _close.
Close(given, expected) == 1000 * Abs(given - expected.v) <= Tolerance(expected)

\* _numbers: in order, or sorted on both sides.
SortedValues(values) ==
    CHOOSE s \in [DOMAIN values -> {values[i] : i \in DOMAIN values}] :
        /\ \A i, j \in DOMAIN s : i < j => s[i].v <= s[j].v
        /\ \A x \in {values[i] : i \in DOMAIN values} :
              Cardinality({i \in DOMAIN s : s[i] = x}) = Cardinality({i \in DOMAIN values : values[i] = x})
NumbersRight(given, alternative) ==
    LET InOrder(s) == IF alternative.ordered THEN s ELSE SortedValues(s)
    IN /\ Len(given) = Len(alternative.values)
       /\ \A i \in DOMAIN given : Close(InOrder(given)[i].v, InOrder(alternative.values)[i])

\* grade.
ChoiceRight(key, options) ==
    IF key.mode = "one" THEN Cardinality(options) = 1 /\ options \subseteq key.options ELSE options = key.options
Accepted(key) == {key.accept[i] : i \in DOMAIN key.accept}
One(text) == text.reads = "numbers" /\ Len(text.values) = 1
Right(key, text) ==
    CASE key.kind = "number"  -> One(text) /\ \E a \in Accepted(key) : Close(text.values[1].v, a)
      [] key.kind = "numbers" -> /\ text.reads = "numbers" /\ Len(text.values) >= 2
                                 /\ \E a \in Accepted(key) : NumbersRight(text.values, a)
      [] key.kind = "range"   -> One(text) /\ \E a \in Accepted(key) : text.values[1].v \in a.lo .. a.hi
      [] key.kind = "text"    -> text.reads = "word" /\ text.word \in Accepted(key)
Grade(key, options, text) ==
    IF key.kind \in {"none", "self"} THEN "ungraded"
    ELSE IF (IF key.kind = "choice" THEN ChoiceRight(key, options) ELSE Right(key, text))
           THEN "right" ELSE "wrong"

\* unreadable: a typed answer the player should fix.  The number of values is only told when every
\* alternative has as many.
Counts(key) == {Len(a.values) : a \in Accepted(key)}
Unreadable(key, text, decimalComma) ==
    /\ key.kind \in {"number", "numbers", "range"} /\ text.reads # "nothing"
    /\ \/ text.reads \in {"word", "range"}
       \/ /\ text.reads = "numbers"
          /\ \/ key.kind # "numbers" /\ Len(text.values) # 1
             \/ key.kind = "numbers" /\ Len(text.values) < 2
             \/ key.kind = "numbers" /\ Cardinality(Counts(key)) = 1 /\ Len(text.values) \notin Counts(key)
             \/ ~decimalComma /\ \E i \in DOMAIN text.values : text.values[i].ambiguous

\* check: refused, or marked.  "I'm not sure" is not right on a graded question.
Check(key, graded, offered, options, text, unsure, decimalComma) ==
    LET passed == unsure /\ graded
    IN IF ~ options \subseteq offered THEN "refused"
       ELSE IF graded /\ ~passed /\ Unreadable(key, text, decimalComma) THEN "refused"
       ELSE IF ~graded THEN "ungraded"
       ELSE IF passed THEN "wrong" ELSE Grade(key, options, text)

\* explain: what is shown with a result, never the result of grading again.
Explain(key, correct) ==
    [correct |-> correct, options |-> IF key.kind = "choice" THEN key.options ELSE {}]

\* correction: a reviewer's alternatives as a key, unless one that it accepts, typed back (a range's ends),
\* is refused or wrong.
TypedBack(text) == IF text.reads = "range" THEN {Typed(<<text.ends[1]>>), Typed(<<text.ends[2]>>)} ELSE {text}
Correction(qtype, texts, decimalComma) ==
    LET key == BuildKey(qtype, texts)
    IN IF key.kind \in {"none", "self"} THEN NoKey
       ELSE IF \A i \in DOMAIN texts : \A t \in TypedBack(texts[i]) :
                  ~Unreadable(key, t, decimalComma) /\ Right(key, t)
         THEN key ELSE NoKey

-------------------------------------------------------------------------------
(* Hints                                                                   *)

\* _window: a range around a number, its answer a tenth to four tenths in from one end.  Draws of tenths.
Draw == [width : {3, 5, 7}, inside : {1, 2, 3, 4}, near : {1, 2}, far : {1, 3}, flip : BOOLEAN]
Width(n, draw) ==
    LET spread == Max({Abs(n.v), Unit})
    IN Max({spread * draw.width, (120 * Tolerance(n)) \div 1000})      \* in tenths of a unit
NoWindow(n, draw) == n.v = 0 \/ 2 * Width(n, draw) > 30 * Max({Abs(n.v), Unit})
Window(n, draw) ==                                                      \* in hundredths of a unit
    LET inside == IF draw.flip THEN 10 - draw.inside ELSE draw.inside
    IN [lo |-> 100 * n.v - inside * Width(n, draw), hi |-> 100 * n.v + (10 - inside) * Width(n, draw)]

\* _around_range: more room on one side than the range is wide.
Around(range, draw) ==
    LET spread == Max({Abs(range.lo), Abs(range.hi), Unit})
        near == spread * draw.near
        far == near + 10 * (range.hi - range.lo) + spread * draw.far
    IN IF draw.flip THEN [lo |-> 10 * range.lo - far, hi |-> 10 * range.hi + near]
       ELSE [lo |-> 10 * range.lo - near, hi |-> 10 * range.hi + far]        \* in tenths of a unit

\* hint: none when it would help too much or not at all.
HintOf(key, options, draw) ==
    LET wrong == options \ key.options
    IN CASE key.kind \in {"none", "self"} -> {}
         [] key.kind = "choice" /\ key.mode = "all" -> {[says |-> Cardinality(key.options)]}
         [] key.kind = "choice" /\ key.mode = "one" ->
              IF Cardinality(key.options) # 1 \/ Cardinality(wrong) < 2 THEN {}
              ELSE {[removed |-> gone] : gone \in kSubset(Cardinality(options) - 2, wrong)}
         [] key.kind = "number" ->
              IF NoWindow(key.accept[1], draw) THEN {} ELSE {[window |-> Window(key.accept[1], draw)]}
         [] key.kind = "numbers" ->
              LET values == key.accept[1].values
              IN IF NoWindow(values[1], draw) THEN {}
                 ELSE {[values |-> Len(values), window |-> Window(values[1], draw)]}
         [] key.kind = "range" -> {[window |-> Around(key.accept[1], draw)]}
         [] key.kind = "text" ->     \* its length and its first letter
              IF Len(key.accept[1]) <= 2 THEN {} ELSE {[length |-> Len(key.accept[1])]}

-------------------------------------------------------------------------------
(* What the rules promise, for the inputs given                            *)

\* A number is right when it rounds to the key, wrong beyond 0.1 % and half a unit, and only zero is zero.
MarksWhatRounds(n, given) ==
    LET step == Unit \div Pow(n.d)
        rounds == 2 * Abs(given - n.v) <= step
    IN /\ n.v # 0 /\ rounds => Close(given, n)
       /\ n.v = 0 => (Close(given, n) <=> given = 0)
       /\ Close(given, n) /\ ~rounds => n.d > 0 /\ 1000 * Abs(given - n.v) <= Abs(n.v)

\* Nothing is both refused and right, unless it was refused for meaning two numbers.
RefusesNothingRight(key, text) == Unreadable(key, text, TRUE) => ~Right(key, text)

\* A correction that reads as a key is kept, unless it could be taken for two numbers.
KeepsCorrections(qtype, texts, decimalComma) ==
    LET Twice(n) == n.ambiguous /\ ~decimalComma
        Doubtful(t) == \/ t.reads = "range" /\ (Twice(t.ends[1]) \/ Twice(t.ends[2]))
                       \/ t.reads = "numbers" /\ \E i \in DOMAIN t.values : Twice(t.values[i])
        kept == Correction(qtype, texts, decimalComma)
    IN kept = (IF BuildKey(qtype, texts).kind = "self" \/ \E i \in DOMAIN texts : Doubtful(texts[i])
                 THEN NoKey ELSE BuildKey(qtype, texts))

\* A number's hint holds the answer, and neither its ends nor its middle are right.
WindowKeepsTheSecret(n, draw) ==
    ~NoWindow(n, draw) =>
        LET w == Window(n, draw)
            Wrong(x) == 10 * Abs(x - 100 * n.v) > Tolerance(n)   \* x in hundredths
        IN /\ w.lo < 100 * n.v /\ 100 * n.v < w.hi
           /\ Wrong(w.lo) /\ Wrong(w.hi) /\ Wrong((w.lo + w.hi) \div 2)

\* A range's hint holds it, with its middle outside.
AroundKeepsTheSecret(range, draw) ==
    LET w == Around(range, draw)  middle == (w.lo + w.hi) \div 2
    IN /\ w.lo < 10 * range.lo /\ 10 * range.hi < w.hi
       /\ middle < 10 * range.lo \/ middle > 10 * range.hi

\* A single choice's hint leaves the right option and one more.
HintLeavesTwo(key, options, draw) ==
    \A h \in HintOf(key, options, draw) :
        /\ key.options \intersect h.removed = {}
        /\ Cardinality(options \ h.removed) = 2
===============================================================================
