------------------------------ MODULE ReviewProofs ------------------------------
(***************************************************************************)
(* Proofs about a question between FS-Quiz and the reviewers, for whatever *)
(* FS-Quiz publishes and in whatever order, and about players' reports,    *)
(* for any number of players, requests and reviewers.                      *)
(*                                                                         *)
(* A row fits together when what is served follows from its key, its       *)
(* correction, its images and what hides it: each operator a push is made  *)
(* of keeps that.  A report's texts are its own, so what is replaced or    *)
(* handled is no other report's.                                           *)
(***************************************************************************)
EXTENDS MCBank, Sequences, FiniteSetTheorems, TLAPS

\* What a row says of itself, apart from what a push flags or hides.
KeyFits(q) == q.key \subseteq q.content.options \union {Self} /\ q.correction \subseteq q.content.options
Fits(q) ==
    /\ q.playable <=> Playable(q)
    /\ q.graded <=> Effective(q) \notin {{}, {Self}}
    /\ KeyFits(q)

RowFits == row # None => Fits(row)

\* The row is what the last push that was not held back brought.
AppliedIsThere ==
    \A c \in Contents \union {None}, removed \in BOOLEAN :
        row # None /\ applied = <<c, removed>> =>
            IF c = None THEN row.note = "gone"
            ELSE row.content = c /\ row.note = IF removed THEN "removed" ELSE "none"

\* A correction that was dropped is flagged as nothing else.
DroppedAsAnswer == unchecked => row.change = "answer"

BInv == BankTypeOK /\ RowFits /\ AppliedIsThere /\ DroppedAsAnswer

-------------------------------------------------------------------------------
(* What a push does to a row                                               *)

\* build_key: the right options, or the key of what is not graded.
LEMMA KeysFit ==
    ASSUME NEW c \in Contents, NEW rel \in {0, 1}
    PROVE  Key(c, rel) \subseteq c.options \union {Self} /\ Key(c, rel) \subseteq Options \union {Self}
BY BankAssumption DEF Key

\* _rekey and _serve_key: what is graded follows from the key, and nothing else changes.
LEMMA RekeyedFits ==
    ASSUME NEW q \in Row, NEW rel \in {0, 1},
           NEW w, w = Rekeyed(q, rel)
    PROVE  /\ w \in Row
           /\ w.content = q.content /\ w.correction = q.correction /\ w.missing = q.missing
           /\ w.hidden = q.hidden /\ w.change = q.change /\ w.note = q.note /\ w.playable = q.playable
           /\ w.key \subseteq q.content.options \union {Self}
           /\ w.graded <=> Effective(w) \notin {{}, {Self}}
<1> DEFINE p == [q EXCEPT !.key = Key(q.content, rel)]
<1>1. q.content \in Contents
  BY DEF Row
<1>2. Key(q.content, rel) \in SUBSET (Options \union {Self}) /\ Key(q.content, rel) \subseteq q.content.options \union {Self}
  BY <1>1, KeysFit
<1>3. /\ p \in Row /\ p.key = Key(q.content, rel)
      /\ p.content = q.content /\ p.correction = q.correction /\ p.missing = q.missing
      /\ p.hidden = q.hidden /\ p.change = q.change /\ p.note = q.note /\ p.playable = q.playable
  BY <1>2 DEF Row
<1> HIDE DEF p
<1> DEFINE g == Effective(p) \notin {{}, {Self}}
<1>4. g \in BOOLEAN
  OBVIOUS
<1>5. w = [p EXCEPT !.graded = g]
  BY DEF Rekeyed, Served, p
<1> HIDE DEF g
<1>6. /\ w \in Row /\ w.graded = g /\ w.key = p.key
      /\ w.content = p.content /\ w.correction = p.correction /\ w.missing = p.missing
      /\ w.hidden = p.hidden /\ w.change = p.change /\ w.note = p.note /\ w.playable = p.playable
  BY <1>3, <1>4, <1>5 DEF Row
<1>7. Effective(w) = Effective(p)
  BY <1>6 DEF Effective
<1>8. w.graded <=> Effective(w) \notin {{}, {Self}}
  BY <1>6, <1>7 DEF g
<1> QED
  BY <1>2, <1>3, <1>6, <1>8

\* The images: what is playable follows from them.
LEMMA ImagesFit ==
    ASSUME NEW q \in Row, NEW found \in BOOLEAN,
           NEW w, w = WithImages(q, found)
    PROVE  /\ w \in Row
           /\ w.playable <=> Playable(w)
           /\ w.content = q.content /\ w.correction = q.correction /\ w.key = q.key
           /\ w.graded = q.graded /\ w.hidden = q.hidden /\ w.change = q.change /\ w.note = q.note
<1> DEFINE p == [q EXCEPT !.missing = ~ found]
           b == Playable(p)
<1>1. p \in Row
  BY DEF Row
<1>2. b \in BOOLEAN /\ w = [p EXCEPT !.playable = b]
  BY DEF WithImages, Playable
<1>3. /\ p.content = q.content /\ p.correction = q.correction /\ p.key = q.key /\ p.graded = q.graded
      /\ p.hidden = q.hidden /\ p.change = q.change /\ p.note = q.note
  BY DEF Row
<1>4. b <=> ~ p.missing /\ p.hidden = "no"
  BY DEF Playable
<1> HIDE DEF p, b
<1>5. /\ w \in Row /\ w.playable = b
      /\ w.content = p.content /\ w.correction = p.correction /\ w.key = p.key /\ w.graded = p.graded
      /\ w.hidden = p.hidden /\ w.change = p.change /\ w.note = p.note /\ w.missing = p.missing
  BY <1>1, <1>2 DEF Row
<1>6. w.playable <=> Playable(w)
  BY <1>4, <1>5 DEF Playable
<1> QED
  BY <1>3, <1>5, <1>6

\* _flag: a reason, and nothing else.
LEMMA FlagsOnly ==
    ASSUME NEW q \in Row, NEW why \in Changes,
           NEW w, w = Flagged(q, why)
    PROVE  /\ w \in Row /\ (Fits(q) => Fits(w))
           /\ w.content = q.content /\ w.correction = q.correction /\ w.key = q.key
           /\ w.playable = q.playable /\ w.missing = q.missing
           /\ w.graded = q.graded /\ w.hidden = q.hidden /\ w.note = q.note
           /\ w.change = IF why \in {"wording", "content"} /\ q.change = "answer" THEN "answer" ELSE why
<1> DEFINE c == IF why \in {"wording", "content"} /\ q.change = "answer" THEN "answer" ELSE why
<1>1. c \in Changes /\ w = [q EXCEPT !.change = c]
  BY DEF Flagged, Changes, Row
<1> HIDE DEF c
<1>2. /\ w \in Row /\ w.change = c
      /\ w.content = q.content /\ w.correction = q.correction /\ w.key = q.key
      /\ w.playable = q.playable /\ w.missing = q.missing
      /\ w.graded = q.graded /\ w.hidden = q.hidden /\ w.note = q.note
  BY <1>1 DEF Row
<1>3. Fits(q) => Fits(w)
  BY <1>2 DEF Fits, KeyFits, Playable, Effective
<1> QED
  BY <1>2, <1>3 DEF c

\* _restore, _hide_removed and _retire touch what is hidden, flagged and noted, and what is playable as
\* they must.
LEMMA HidingFits ==
    ASSUME NEW q \in Row, Fits(q), NEW removed \in BOOLEAN,
           NEW w \in {Restored(q), HiddenIfRemoved(q, removed), Retired(q)}
    PROVE  /\ w \in Row /\ Fits(w) /\ w.content = q.content /\ w.correction = q.correction
           /\ w.change \in {q.change, "removed", "back"}
<1> DEFINE Made(p, n, h, b) == [p EXCEPT !.note = n, !.hidden = h, !.playable = b]
<1>1. ASSUME NEW n \in {"none", "removed", "gone"}, NEW h \in {"no", "team", "removed", "gone"},
             NEW b \in BOOLEAN, b <=> ~ q.missing /\ h = "no"
      PROVE  LET m == Made(q, n, h, b)
             IN  m \in Row /\ Fits(m) /\ m.content = q.content /\ m.correction = q.correction /\ m.change = q.change
  <2> DEFINE m == Made(q, n, h, b)
  <2>1. /\ m \in Row /\ m.content = q.content /\ m.correction = q.correction /\ m.change = q.change
        /\ m.key = q.key /\ m.graded = q.graded /\ m.missing = q.missing /\ m.hidden = h /\ m.playable = b
    BY DEF Row
  <2>2. Fits(m)
    BY <1>1, <2>1 DEF Fits, KeyFits, Playable, Effective
  <2> QED
    BY <2>1, <2>2
<1>2. ASSUME NEW n \in {"none", "removed", "gone"}
      PROVE  LET m == [q EXCEPT !.note = n]
             IN  m \in Row /\ Fits(m) /\ m.content = q.content /\ m.correction = q.correction /\ m.change = q.change
                 /\ m.hidden = q.hidden /\ m.missing = q.missing
  <2> DEFINE m == [q EXCEPT !.note = n]
  <2>1. /\ m \in Row /\ m.content = q.content /\ m.correction = q.correction /\ m.change = q.change
        /\ m.key = q.key /\ m.graded = q.graded /\ m.missing = q.missing /\ m.hidden = q.hidden
        /\ m.playable = q.playable
    BY DEF Row
  <2>2. Fits(m)
    BY <2>1 DEF Fits, KeyFits, Playable, Effective
  <2> QED
    BY <2>1, <2>2
<1>3. CASE w = q
  BY <1>3
<1>4. CASE \E n \in {"none", "removed", "gone"} : w = [q EXCEPT !.note = n]
  BY <1>2, <1>4
<1>5. CASE w = Flagged(Made(q, "none", "no", ~ q.missing), "back")
  <2>1. (~ q.missing) \in BOOLEAN
    OBVIOUS
  <2> DEFINE m == Made(q, "none", "no", ~ q.missing)
  <2>2. m \in Row /\ Fits(m) /\ m.content = q.content /\ m.correction = q.correction
    BY <1>1, <2>1
  <2>3. "back" \in Changes
    BY DEF Changes
  <2> HIDE DEF m
  <2>4. w = Flagged(m, "back")
    BY <1>5 DEF m
  <2> QED
    BY <2>2, <2>3, <2>4, FlagsOnly
<1>6. CASE w = Flagged(Made(q, "gone", "gone", FALSE), "removed")
  <2> DEFINE m == Made(q, "gone", "gone", FALSE)
  <2>2. m \in Row /\ Fits(m) /\ m.content = q.content /\ m.correction = q.correction
    BY <1>1
  <2>3. "removed" \in Changes
    BY DEF Changes
  <2> HIDE DEF m
  <2>4. w = Flagged(m, "removed")
    BY <1>6 DEF m
  <2> QED
    BY <2>2, <2>3, <2>4, FlagsOnly
<1>7. CASE w = [[q EXCEPT !.note = "removed"] EXCEPT !.hidden = "removed", !.playable = FALSE]
  <2> DEFINE m == Made(q, "removed", "removed", FALSE)
  <2>1. m \in Row /\ Fits(m) /\ m.content = q.content /\ m.correction = q.correction /\ m.change = q.change
    BY <1>1
  <2>2. w = m
    BY <1>7
  <2> QED
    BY <2>1, <2>2
<1>8. w = Restored(q) => <1>3!1 \/ <1>4!1 \/ <1>5!1
  BY DEF Restored
<1>9. w = HiddenIfRemoved(q, removed) => <1>4!1 \/ <1>7!1
  BY DEF HiddenIfRemoved
<1>10. w = Retired(q) => <1>3!1 \/ <1>4!1 \/ <1>6!1
  BY DEF Retired
<1> QED
  BY <1>3, <1>4, <1>5, <1>6, <1>7, <1>8, <1>9, <1>10

-------------------------------------------------------------------------------
(* A push                                                                  *)

\* _write_question: the row fits; a correction goes only with an answer that changed, which is flagged;
\* and what was already there is only keyed again.
LEMMA WrittenFits ==
    ASSUME NEW q \in Row, Fits(q), NEW c \in Contents, NEW found \in BOOLEAN, NEW rel \in {0, 1},
           NEW w, w = Written(q, c, found, rel)
    PROVE  /\ w \in Row /\ Fits(w) /\ w.content = c /\ w.hidden = q.hidden /\ w.note = q.note
           /\ q.content = c => w.correction = q.correction /\ w.change = q.change
           /\ w.correction # q.correction => AnswerChanged(q, c) /\ w.change = "answer"
           /\ q.change = "answer" => w.change = "answer"
<1> DEFINE p == WithImages(q, found)
           x == [p EXCEPT !.content = c, !.correction = IF AnswerChanged(q, c) THEN {} ELSE @]
           y == Rekeyed(x, rel)
<1>1. /\ p \in Row
      /\ p.playable <=> Playable(p)
      /\ p.content = q.content /\ p.correction = q.correction /\ p.key = q.key
      /\ p.hidden = q.hidden /\ p.change = q.change /\ p.note = q.note
  BY ImagesFit
<1>2. p.correction \subseteq p.content.options
  BY <1>1 DEF Fits, KeyFits
<1>3. CASE q.content = c
  <2>1. w = Rekeyed(p, rel)
    BY <1>3 DEF Written
  <2> HIDE DEF p
  <2>2. /\ w \in Row /\ w.content = p.content /\ w.correction = p.correction /\ w.missing = p.missing
        /\ w.hidden = p.hidden /\ w.change = p.change /\ w.note = p.note /\ w.playable = p.playable
        /\ w.key \subseteq p.content.options \union {Self}
        /\ w.graded <=> Effective(w) \notin {{}, {Self}}
    BY <1>1, <2>1, RekeyedFits
  <2>3. Fits(w)
    BY <1>1, <1>2, <2>2 DEF Fits, KeyFits, Playable
  <2> QED
    BY <1>1, <1>3, <2>2, <2>3
<1>4. CASE q.content # c
  <2> HIDE DEF p
  <2>1. /\ x \in Row /\ x.content = c
        /\ x.correction = IF AnswerChanged(q, c) THEN {} ELSE p.correction
        /\ x.hidden = p.hidden /\ x.change = p.change /\ x.note = p.note /\ x.playable = p.playable
        /\ x.missing = p.missing
    BY <1>1 DEF Row
  <2>2. x.correction \subseteq c.options
    BY <1>1, <1>2, <2>1 DEF AnswerChanged, Graded
  <2> HIDE DEF x
  <2>3. /\ y \in Row /\ y.content = x.content /\ y.correction = x.correction /\ y.missing = x.missing
        /\ y.hidden = x.hidden /\ y.change = x.change /\ y.note = x.note /\ y.playable = x.playable
        /\ y.key \subseteq x.content.options \union {Self}
        /\ y.graded <=> Effective(y) \notin {{}, {Self}}
    BY <2>1, RekeyedFits
  <2> HIDE DEF y
  <2>4. Fits(y)
    BY <1>1, <2>1, <2>2, <2>3 DEF Fits, KeyFits, Playable
  <2>5. Why(q, c) \in Changes
    BY DEF Why, Changes
  <2>6. w = IF Why(q, c) = "none" THEN y ELSE Flagged(y, Why(q, c))
    BY <1>4 DEF Written, p, x, y
  <2>7. CASE Why(q, c) = "none"
    BY <1>1, <1>4, <2>1, <2>3, <2>4, <2>6, <2>7 DEF Why
  <2>8. CASE Why(q, c) # "none"
    <3>1. /\ w \in Row /\ Fits(w)
          /\ w.content = y.content /\ w.correction = y.correction /\ w.hidden = y.hidden /\ w.note = y.note
          /\ w.change = IF Why(q, c) \in {"wording", "content"} /\ y.change = "answer" THEN "answer" ELSE Why(q, c)
      BY <2>3, <2>4, <2>5, <2>6, <2>8, FlagsOnly
    <3>2. Why(q, c) = "answer" <=> AnswerChanged(q, c)
      BY DEF Why
    <3>3. Why(q, c) \in {"answer", "wording", "content"}
      BY <2>8 DEF Why
    <3> QED
      BY <1>1, <1>4, <2>1, <2>3, <2>8, <3>1, <3>2, <3>3
  <2> QED
    BY <2>7, <2>8
<1> QED
  BY <1>3, <1>4

\* What the mirror lists of a row, and that a push that is held back drops no correction.
ListedAs(q, c, hold, w) ==
    /\ w \in Row /\ Fits(w) /\ w.hidden = q.hidden /\ w.note = q.note
    /\ ~ hold => w.content = c
    /\ q.content = c => w.correction = q.correction /\ w.change = q.change
    /\ w.correction # q.correction => ~ hold /\ AnswerChanged(q, c) /\ w.change = "answer"
    /\ q.change = "answer" => w.change = "answer"

LEMMA ListedFits ==
    ASSUME NEW q \in Row, Fits(q), NEW c \in Contents, NEW images \in {"off", "absent", "there"},
           NEW hold \in BOOLEAN, release \in {0, 1},
           NEW w, w = Listed(q, c, images, hold)
    PROVE  ListedAs(q, c, hold, w)
<1> USE DEF ListedAs
<1>1. CASE hold /\ AnswerChanged(q, c)
  BY <1>1 DEF Listed, AnswerChanged
<1>2. CASE ~ (hold /\ AnswerChanged(q, c)) /\ q.content = c /\ (~ q.missing \/ images = "off") /\ ~ lostMedia
  <2>0. w = Rekeyed(q, release)
    BY <1>2 DEF Listed
  <2>1. /\ w \in Row /\ w.content = q.content /\ w.correction = q.correction /\ w.missing = q.missing
        /\ w.hidden = q.hidden /\ w.change = q.change /\ w.note = q.note /\ w.playable = q.playable
        /\ w.key \subseteq q.content.options \union {Self}
        /\ w.graded <=> Effective(w) \notin {{}, {Self}}
    BY <2>0, RekeyedFits
  <2>2. Fits(w)
    BY <2>1 DEF Fits, KeyFits, Playable
  <2> QED
    BY <1>2, <2>1, <2>2
<1>3. CASE ~ (hold /\ AnswerChanged(q, c)) /\ ~ (q.content = c /\ (~ q.missing \/ images = "off") /\ ~ lostMedia)
  <2>1. w = Written(q, c, images = "there", release)
    BY <1>3 DEF Listed
  <2>2. PICK found \in BOOLEAN : w = Written(q, c, found, release)
    <3>1. (images = "there") = TRUE \/ (images = "there") = FALSE
      OBVIOUS
    <3> QED
      BY <2>1, <3>1
  <2>3. /\ w \in Row /\ Fits(w) /\ w.content = c /\ w.hidden = q.hidden /\ w.note = q.note
        /\ q.content = c => w.correction = q.correction /\ w.change = q.change
        /\ w.correction # q.correction => AnswerChanged(q, c) /\ w.change = "answer"
        /\ q.change = "answer" => w.change = "answer"
    BY <2>2, WrittenFits
  <2> QED
    BY <1>3, <2>3
<1> QED
  BY <1>1, <1>2, <1>3

\* The notes: what FS-Quiz said last; and what it says again hides nothing.
LEMMA NotesFollow ==
    ASSUME NEW q \in Row, NEW removed \in BOOLEAN, NEW w, w = HiddenIfRemoved(q, removed)
    PROVE  /\ w.note = IF removed THEN "removed" ELSE "none"
           /\ w.change = q.change
           /\ (removed => q.note = "removed") => w.hidden = q.hidden
<1> DEFINE n == IF removed THEN "removed" ELSE "none"
           p == [q EXCEPT !.note = n]
<1>1. p \in Row /\ p.note = n /\ p.change = q.change /\ p.hidden = q.hidden
  BY DEF Row
<1>2. w = IF removed /\ q.note # "removed" /\ q.hidden = "no"
            THEN [p EXCEPT !.hidden = "removed", !.playable = FALSE] ELSE p
  BY DEF HiddenIfRemoved
<1> HIDE DEF p
<1> QED
  BY <1>1, <1>2 DEF Row

LEMMA RetiringNotes ==
    ASSUME NEW q \in Row, Fits(q), NEW w, w = Retired(q)
    PROVE  w.note = "gone"
<1>1. CASE q.note = "gone"
  BY <1>1 DEF Retired
<1>2. CASE q.note # "gone" /\ q.hidden # "no"
  BY <1>2 DEF Retired, Row
<1>3. CASE q.note # "gone" /\ q.hidden = "no"
  <2> DEFINE p == [q EXCEPT !.note = "gone", !.hidden = "gone", !.playable = FALSE]
  <2>1. p \in Row /\ p.note = "gone" /\ w = Flagged(p, "removed") /\ "removed" \in Changes
    BY <1>3 DEF Retired, Row, Changes
  <2> HIDE DEF p
  <2> QED
    BY <2>1, FlagsOnly
<1> QED
  BY <1>1, <1>2, <1>3

\* A push: how it makes the new row of the old one.
Imported(c, removed, hold, new) ==
    /\ new \in Row /\ Fits(new)
    /\ ~ hold => new.content = c
    /\ new.note = IF removed THEN "removed" ELSE "none"
    /\ row # None =>
         /\ new.correction # row.correction =>
              ~ hold /\ AnswerChanged(row, c) /\ new.change \in {"answer", "removed", "back"}
         /\ row.change = "answer" => new.change \in {"answer", "removed", "back"}

LEMMA PushesFit ==
    ASSUME BInv, NEW c \in Contents, NEW removed \in BOOLEAN, NEW images \in {"off", "absent", "there"},
           NEW others \in Nat, NEW unlinks \in BOOLEAN, NEW allow \in BOOLEAN,
           Import(c, removed, images, others, unlinks, allow)
    PROVE  Imported(c, removed, Hold(c, others, unlinks, allow), row')
<1>0. PICK hold \in BOOLEAN : hold = Hold(c, others, unlinks, allow)
  BY DEF Hold
<1> DEFINE old == IF row = None THEN Rekeyed(WithImages(Fresh(c), images = "there"), release)
                  ELSE Listed(row, c, images, hold)
           mid == Restored(old)
<1>a. /\ row \in Row \union {None} /\ release \in {0, 1} /\ (row # None => Fits(row)) /\ c # None
  BY BankAssumption DEF BInv, BankTypeOK, RowFits
<1>b. row' = HiddenIfRemoved(mid, removed)
  BY <1>0, <1>a DEF Import
<1>1. /\ old \in Row /\ Fits(old) /\ (~ hold => old.content = c)
      /\ row # None =>
           /\ old.correction # row.correction => ~ hold /\ AnswerChanged(row, c) /\ old.change = "answer"
           /\ row.change = "answer" => old.change = "answer"
  <2>1. CASE row = None
    <3> DEFINE f == Fresh(c)
    <3>1. f \in Row /\ f.content = c /\ f.correction = {}
      BY DEF Fresh, Row, Changes
    <3>2. PICK found \in BOOLEAN : old = Rekeyed(WithImages(f, found), release)
      <4>1. (images = "there") = TRUE \/ (images = "there") = FALSE
        OBVIOUS
      <4> QED
        BY <2>1, <4>1
    <3> HIDE DEF f
    <3> DEFINE p == WithImages(f, found)
    <3>3. p \in Row /\ (p.playable <=> Playable(p)) /\ p.content = c /\ p.correction = {}
      BY <3>1, ImagesFit
    <3> HIDE DEF p, old
    <3>4. old = Rekeyed(p, release)
      BY <3>2 DEF p
    <3>5. /\ old \in Row
          /\ old.content = p.content /\ old.correction = p.correction /\ old.missing = p.missing
          /\ old.hidden = p.hidden /\ old.playable = p.playable
          /\ old.key \subseteq p.content.options \union {Self}
          /\ old.graded <=> Effective(old) \notin {{}, {Self}}
      BY <1>a, <3>3, <3>4, RekeyedFits
    <3>6. Fits(old)
      BY <3>3, <3>5 DEF Fits, KeyFits, Playable
    <3> QED
      BY <2>1, <3>3, <3>5, <3>6
  <2>2. CASE row # None
    <3>1. row \in Row /\ Fits(row) /\ release \in {0, 1} /\ old = Listed(row, c, images, hold)
      BY <1>a, <2>2
    <3> HIDE DEF old
    <3>2. ListedAs(row, c, hold, old)
      BY <3>1, ListedFits
    <3> QED
      BY <3>2 DEF ListedAs
  <2> QED
    BY <2>1, <2>2
<1> HIDE DEF old
<1>2. /\ mid \in Row /\ Fits(mid) /\ mid.content = old.content /\ mid.correction = old.correction
      /\ mid.change \in {old.change, "removed", "back"}
  BY <1>1, HidingFits
<1> HIDE DEF mid
<1>3. /\ row' \in Row /\ Fits(row') /\ row'.content = mid.content /\ row'.correction = mid.correction
  BY <1>2, <1>b, HidingFits
<1>4. row'.note = (IF removed THEN "removed" ELSE "none") /\ row'.change = mid.change
  BY <1>2, <1>b, NotesFollow
<1> QED
  BY <1>0, <1>1, <1>2, <1>3, <1>4 DEF Imported

\* A question that is not listed: retired, or left alone.
LEMMA RetiringFits ==
    ASSUME BInv, NEW removed \in BOOLEAN, NEW images \in {"off", "absent", "there"},
           NEW others \in Nat, NEW unlinks \in BOOLEAN, NEW allow \in BOOLEAN,
           Import(None, removed, images, others, unlinks, allow)
    PROVE  /\ row' \in Row \union {None} /\ (row' # None => Fits(row'))
           /\ row = None => row' = None
           /\ row # None => row'.correction = row.correction /\ row'.change \in {row.change, "removed", "back"}
           /\ row # None /\ ~ Hold(None, others, unlinks, allow) => row'.note = "gone"
<1>a. row \in Row \union {None} /\ (row # None => Fits(row))
  BY DEF BInv, BankTypeOK, RowFits
<1>b. row' = IF row = None \/ Hold(None, others, unlinks, allow) THEN row ELSE Retired(row)
  BY DEF Import
<1>1. CASE row' = row
  BY <1>a, <1>b, <1>1, RetiringNotes
<1>2. CASE row # None /\ row' = Retired(row)
  BY <1>a, <1>b, <1>2, HidingFits, RetiringNotes
<1> QED
  BY <1>b, <1>1, <1>2

\* A correction that a push drops was of an answer that changed.
DropsWhatChanged ==
    row # None /\ row'.correction = {} /\ row.correction # {} /\ applied' # applied =>
        applied' # Unsure /\ Graded(row'.content) # Graded(row.content)

LEMMA ImportKeepsIt ==
    ASSUME BInv, NEW c \in Contents \union {None}, NEW removed \in BOOLEAN,
           NEW images \in {"off", "absent", "there"},
           NEW others \in Nat, NEW unlinks \in BOOLEAN, NEW allow \in BOOLEAN,
           Import(c, removed, images, others, unlinks, allow)
    PROVE  BInv' /\ DropsWhatChanged
<1>0. PICK hold \in BOOLEAN : hold = Hold(c, others, unlinks, allow)
  BY DEF Hold
<1>a. /\ row \in Row \union {None} /\ lostMedia \in BOOLEAN /\ release \in {0, 1} /\ unchecked \in BOOLEAN
      /\ row # None => Fits(row)
      /\ unchecked => row.change = "answer"
  BY DEF BInv, BankTypeOK, RowFits, DroppedAsAnswer
<1>b. /\ lostMedia' \in BOOLEAN /\ unchecked' \in BOOLEAN /\ release' = release
      /\ applied' = IF hold THEN Unsure ELSE <<c, removed>>
      /\ unchecked' <=> ~ (row = None \/ row'.change \in {"removed", "back"})
                          /\ (unchecked \/ row'.correction # row.correction)
  BY <1>0, <1>a DEF Import
<1>c. \A d \in Contents \union {None}, x \in BOOLEAN :
         applied' = <<d, x>> => ~ hold /\ c = d /\ removed = x
  BY <1>b, BankAssumption
<1>d. /\ applied' \in ((Contents \union {None}) \X BOOLEAN) \union {None, Unsure}
      /\ ~ hold => applied' # Unsure
  BY <1>b, BankAssumption
<1>1. CASE c = None
  <2>1. /\ row' \in Row \union {None} /\ (row' # None => Fits(row'))
        /\ row = None => row' = None
        /\ row # None => row'.correction = row.correction /\ row'.change \in {row.change, "removed", "back"}
        /\ row # None /\ ~ hold => row'.note = "gone"
    BY <1>0, <1>1, RetiringFits
  <2>2. BankTypeOK'
    BY <1>a, <1>b, <1>d, <2>1 DEF BankTypeOK
  <2>3. RowFits' /\ DropsWhatChanged
    BY <2>1 DEF RowFits, DropsWhatChanged
  <2>4. AppliedIsThere'
    BY <1>1, <1>c, <2>1 DEF AppliedIsThere
  <2>5. DroppedAsAnswer'
    BY <1>a, <1>b, <2>1 DEF DroppedAsAnswer
  <2> QED
    BY <2>2, <2>3, <2>4, <2>5 DEF BInv
<1>2. CASE c \in Contents /\ c # None
  <2>1. Imported(c, removed, hold, row')
    BY <1>0, <1>2, PushesFit
  <2>2. BankTypeOK'
    BY <1>a, <1>b, <1>d, <2>1 DEF BankTypeOK, Imported
  <2>3. RowFits'
    BY <2>1 DEF RowFits, Imported
  <2>4. AppliedIsThere'
    BY <1>2, <1>c, <2>1 DEF AppliedIsThere, Imported
  <2>5. DroppedAsAnswer'
    BY <1>a, <1>b, <2>1 DEF DroppedAsAnswer, Imported
  <2>6. DropsWhatChanged
    BY <1>d, <2>1 DEF DropsWhatChanged, Imported, AnswerChanged
  <2> QED
    BY <2>2, <2>3, <2>4, <2>5, <2>6 DEF BInv
<1> QED
  BY <1>1, <1>2, BankAssumption

\* A push of what the last one brought overrules nobody.
LEMMA RepeatsOverruleNobody ==
    ASSUME BInv, row # None, NEW c \in Contents \union {None}, NEW removed \in BOOLEAN,
           NEW images \in {"off", "absent", "there"}, applied = <<c, removed>>,
           Import(c, removed, images, 0, FALSE, FALSE)
    PROVE  row'.hidden = row.hidden /\ row'.change = row.change /\ row'.correction = row.correction
<1>a. row \in Row /\ Fits(row) /\ release \in {0, 1}
      /\ IF c = None THEN row.note = "gone"
         ELSE row.content = c /\ row.note = IF removed THEN "removed" ELSE "none"
  BY DEF BInv, BankTypeOK, RowFits, AppliedIsThere
<1>1. ~ Hold(c, 0, FALSE, FALSE)
  <2>1. Counts(c) = 0
    BY <1>a DEF Counts, AnswerChanged
  <2>2. Here \in Nat
    BY BankAssumption DEF Here
  <2> QED
    BY <2>1, <2>2 DEF Hold
<1>2. CASE c = None
  BY <1>a, <1>1, <1>2 DEF Import, Retired
<1>3. CASE c # None
  <2> DEFINE q == Listed(row, c, images, FALSE)
  <2>1. ListedAs(row, c, FALSE, q)
    BY <1>a, <1>3, ListedFits
  <2> HIDE DEF q
  <2>2. /\ q \in Row /\ Fits(q) /\ q.hidden = row.hidden /\ q.note = row.note
        /\ q.correction = row.correction /\ q.change = row.change
    BY <1>a, <1>3, <2>1 DEF ListedAs
  <2>3. Restored(q) = q
    BY <1>a, <1>3, <2>2 DEF Restored
  <2>4. row' = HiddenIfRemoved(q, removed)
    <3>1. Hold(c, 0, FALSE, FALSE) = FALSE
      BY <1>1 DEF Hold
    <3> QED
      BY <1>3, <2>3, <3>1 DEF Import, q
  <2>5. row'.change = q.change /\ ((removed => q.note = "removed") => row'.hidden = q.hidden)
    BY <2>2, <2>4, NotesFollow
  <2>6. row'.correction = q.correction
    BY <2>2, <2>4, HidingFits
  <2> QED
    BY <1>a, <1>3, <2>2, <2>5, <2>6
<1> QED
  BY <1>2, <1>3

-------------------------------------------------------------------------------
(* The question's invariant                                                *)

\* What reviewers do, but for what is hidden.
LEMMA ReviewsFit ==
    ASSUME BInv, Acknowledge \/ ClearCorrection \/ \E S \in SUBSET Options : Correct(S)
    PROVE  BInv' /\ DropsWhatChanged
<1>a. /\ row # None /\ row \in Row /\ Fits(row) /\ AppliedIsThere /\ BankTypeOK /\ DroppedAsAnswer
      /\ UNCHANGED <<lostMedia, release, applied>>
  BY DEF BInv, BankTypeOK, RowFits, Acknowledge, ClearCorrection, Correct
<1>1. ASSUME row' \in Row, Fits(row'), row'.content = row.content, row'.note = row.note,
             unchecked' \in BOOLEAN, unchecked' => row'.change = "answer"
      PROVE  BInv' /\ DropsWhatChanged
  BY <1>1, <1>a DEF BInv, BankTypeOK, RowFits, AppliedIsThere, DroppedAsAnswer, DropsWhatChanged
<1>2. CASE Acknowledge
  <2>1. /\ row' \in Row /\ row'.content = row.content /\ row'.note = row.note
        /\ row'.key = row.key /\ row'.correction = row.correction /\ row'.graded = row.graded
        /\ row'.playable = row.playable /\ row'.missing = row.missing /\ row'.hidden = row.hidden
    BY <1>2, <1>a DEF Acknowledge, Row, Changes
  <2>2. Fits(row')
    BY <1>a, <2>1 DEF Fits, KeyFits, Playable, Effective
  <2>3. unchecked' = FALSE
    BY <1>2 DEF Acknowledge
  <2> QED
    BY <1>1, <2>1, <2>2, <2>3
<1>3. ASSUME NEW S \in SUBSET Options, NEW g \in BOOLEAN,
             row' = [row EXCEPT !.correction = S, !.graded = g], S \subseteq row.content.options,
             g <=> (IF S = {} THEN row.key ELSE S) \notin {{}, {Self}}, UNCHANGED unchecked
      PROVE  BInv' /\ DropsWhatChanged
  <2>1. /\ row' \in Row /\ row'.content = row.content /\ row'.note = row.note
        /\ row'.key = row.key /\ row'.correction = S /\ row'.graded = g /\ row'.change = row.change
        /\ row'.playable = row.playable /\ row'.missing = row.missing /\ row'.hidden = row.hidden
    BY <1>3, <1>a DEF Row
  <2>2. Fits(row')
    BY <1>a, <1>3, <2>1 DEF Fits, KeyFits, Playable, Effective
  <2>3. unchecked' \in BOOLEAN /\ (unchecked' => row'.change = "answer")
    BY <1>a, <1>3, <2>1 DEF BankTypeOK, DroppedAsAnswer
  <2> QED
    BY <1>1, <2>1, <2>2, <2>3
<1>4. ASSUME NEW S \in SUBSET Options, Correct(S) PROVE BInv' /\ DropsWhatChanged
  <2>1. /\ row' = [row EXCEPT !.correction = S, !.graded = TRUE] /\ S # {} /\ S \subseteq row.content.options
        /\ UNCHANGED unchecked
    BY <1>4 DEF Correct
  <2>2. S # {Self}
    BY BankAssumption
  <2> QED
    BY <1>3, <2>1, <2>2
<1>5. CASE ClearCorrection
  <2> DEFINE g == row.key \notin {{}, {Self}}
  <2>1. g \in BOOLEAN /\ row' = [row EXCEPT !.correction = {}, !.graded = g] /\ UNCHANGED unchecked
    BY <1>5 DEF ClearCorrection
  <2>2. g <=> (IF {} = {} THEN row.key ELSE {}) \notin {{}, {Self}}
    OBVIOUS
  <2>3. {} \in SUBSET Options /\ {} \subseteq row.content.options
    OBVIOUS
  <2> HIDE DEF g
  <2> QED
    BY <1>3, <2>1, <2>2, <2>3
<1> QED
  BY <1>2, <1>4, <1>5

\* A reviewer hides the question or shows it again.
LEMMA ExcludingFits ==
    ASSUME BInv, NEW hidden \in {"no", "team"}, Exclude(hidden)
    PROVE  BInv' /\ DropsWhatChanged
<1>a. /\ row # None /\ row \in Row /\ Fits(row) /\ AppliedIsThere /\ BankTypeOK /\ DroppedAsAnswer
      /\ UNCHANGED <<lostMedia, release, applied, unchecked>>
  BY DEF BInv, BankTypeOK, RowFits, Exclude
<1> DEFINE p == [row EXCEPT !.hidden = hidden]
           b == Playable(p)
<1>1. /\ p \in Row /\ p.hidden = hidden /\ p.content = row.content /\ p.note = row.note /\ p.key = row.key
      /\ p.correction = row.correction /\ p.graded = row.graded /\ p.change = row.change
  BY <1>a DEF Row
<1>2. b \in BOOLEAN /\ row' = [p EXCEPT !.playable = b] /\ (b <=> ~ p.missing /\ p.hidden = "no")
  BY DEF Exclude, Playable
<1> HIDE DEF p, b
<1>3. /\ row' \in Row /\ row'.playable = b /\ row'.missing = p.missing /\ row'.hidden = p.hidden
      /\ row'.content = p.content /\ row'.note = p.note /\ row'.key = p.key
      /\ row'.correction = p.correction /\ row'.graded = p.graded /\ row'.change = p.change
  BY <1>1, <1>2 DEF Row
<1>4. Fits(row')
  BY <1>a, <1>1, <1>2, <1>3 DEF Fits, KeyFits, Playable, Effective
<1> QED
  BY <1>a, <1>1, <1>3, <1>4 DEF BInv, BankTypeOK, RowFits, AppliedIsThere, DroppedAsAnswer, DropsWhatChanged

LEMMA BankInitHolds == Init => BInv
BY BankAssumption DEF Init, BInv, BankTypeOK, RowFits, AppliedIsThere, DroppedAsAnswer

LEMMA BankStepKeepsIt == BInv /\ [Next]_vars => BInv' /\ DropsWhatChanged
<1> SUFFICES ASSUME BInv, [Next]_vars PROVE BInv' /\ DropsWhatChanged
  OBVIOUS
<1>1. ASSUME NEW c \in Contents \union {None}, NEW images \in {"off", "absent", "there"},
             NEW others \in {0, Others}, NEW removed \in BOOLEAN, NEW unlinks \in BOOLEAN, NEW allow \in BOOLEAN,
             Import(c, removed, images, others, unlinks, allow)
      PROVE  BInv' /\ DropsWhatChanged
  BY <1>1, ImportKeepsIt, BankAssumption
<1>2. ASSUME Exclude("no") \/ Exclude("team") PROVE BInv' /\ DropsWhatChanged
  BY <1>2, ExcludingFits
<1>3. ASSUME Acknowledge \/ ClearCorrection \/ \E S \in SUBSET Options : Correct(S)
      PROVE  BInv' /\ DropsWhatChanged
  BY <1>3, ReviewsFit
<1>4. CASE Deploy \/ LoseMedia \/ UNCHANGED vars
  <2>1. /\ row' = row /\ applied' = applied /\ unchecked' = unchecked
        /\ lostMedia' \in BOOLEAN /\ release' \in {0, 1}
    BY <1>4 DEF BInv, BankTypeOK, Deploy, LoseMedia, vars
  <2> QED
    BY <2>1 DEF BInv, BankTypeOK, RowFits, AppliedIsThere, DroppedAsAnswer, DropsWhatChanged
<1> QED
  BY <1>1, <1>2, <1>3, <1>4 DEF Next

\* The inductive invariant of the question holds.
THEOREM BankInvariantHolds == Spec => []BInv
BY BankInitHolds, BankStepKeepsIt, PTL DEF Spec

\* What FS-Quiz pushes and what reviewers did, in whatever order: a correction goes only with an answer that
\* changed, and a push of what is there already overrules nothing.
THEOREM ReviewersAreHeard == Spec => ReviewersWorkSurvives
<1>1. ASSUME BInv, [Next]_vars, NEW c \in Contents \union {None}, NEW removed \in BOOLEAN,
             NEW images \in {"off", "absent", "there"}, row # None, applied = <<c, removed>>,
             Import(c, removed, images, 0, FALSE, FALSE)
      PROVE  row'.hidden = row.hidden /\ row'.change = row.change /\ row'.correction = row.correction
  BY <1>1, RepeatsOverruleNobody
<1>2. BInv /\ [Next]_vars =>
        /\ row # None /\ row'.correction = {} /\ row.correction # {} /\ applied' # applied =>
             applied' # Unsure /\ Graded(row'.content) # Graded(row.content)
        /\ \A c \in Contents \union {None}, removed \in BOOLEAN, images \in {"off", "absent", "there"} :
             row # None /\ applied = <<c, removed>> /\ Import(c, removed, images, 0, FALSE, FALSE) =>
                /\ row'.hidden = row.hidden /\ row'.change = row.change
                /\ row'.correction = row.correction
  BY <1>1, BankStepKeepsIt DEF DropsWhatChanged
<1> QED
  BY <1>2, BankInvariantHolds, PTL DEF Spec, ReviewersWorkSurvives

-------------------------------------------------------------------------------
(* Reports                                                                 *)

\* Texts are numbered as they are written, so no two reports have one, and a report is known by its first.
TextsAreTheirOwn ==
    /\ \A r \in reports : r.text <= last /\ r.id <= last
    /\ \A r, s \in reports : r.text = s.text => r = s

\* A player has one open report of a question.
OneEach == \A p \in Players : \A r, s \in OpenOf(p) : r.on = s.on => r = s

UnderWay(p) == {x \in Posts : post[x].by = p}

\* A player's open reports and their requests to write one stay within the limit and the requests there can be.
FewAreOpen ==
    \A p \in Players :
        Cardinality(OpenOf(p)) + Cardinality(UnderWay(p)) < MaxOpenReports + Cardinality(Posts)

WaitingIsOpen ==
    /\ waiting = {r.text : r \in OpenReports}
    /\ audited = {<<r.id, r.text>> : r \in reports \ OpenReports}

RInv ==
    /\ ReportsTypeOK /\ IsFiniteSet(reports)
    /\ TextsAreTheirOwn /\ OneEach /\ FewAreOpen /\ WaitingIsOpen

\* What is open of a player's is finite, and so are the requests under way.
LEMMA FiniteParts ==
    ASSUME RInv, NEW p \in Players
    PROVE  /\ IsFiniteSet(OpenOf(p)) /\ Cardinality(OpenOf(p)) \in Nat
           /\ IsFiniteSet(UnderWay(p)) /\ Cardinality(UnderWay(p)) \in Nat
           /\ Cardinality(UnderWay(p)) <= Cardinality(Posts) /\ Cardinality(Posts) \in Nat
<1>1. IsFiniteSet(reports) /\ OpenOf(p) \subseteq reports
  BY DEF RInv, OpenOf, OpenReports
<1>2. IsFiniteSet(Posts) /\ UnderWay(p) \subseteq Posts
  BY ReportsAssumption DEF UnderWay
<1> QED
  BY <1>1, <1>2, FS_Subset, FS_CardinalityType

\* What a request under way has in hand.
LEMMA PostsCarry ==
    ASSUME RInv, NEW x \in Posts, post[x] # NoPost
    PROVE  post[x].by \in Players /\ post[x].on \in Reported
BY DEF RInv, ReportsTypeOK

\* Nothing but the page or the attempts changed.
LEMMA ReportsUntouched ==
    ASSUME RInv, UNCHANGED <<reports, post, last, waiting, audited>>, ReportsTypeOK'
    PROVE  RInv'
<1>1. reports' = reports /\ \A p : OpenOf(p)' = OpenOf(p) /\ UnderWay(p)' = UnderWay(p)
  BY DEF OpenOf, OpenReports, UnderWay
<1>2. OneEach' /\ FewAreOpen'
  BY <1>1 DEF RInv, OneEach, FewAreOpen
<1> QED
  BY <1>1, <1>2 DEF RInv, TextsAreTheirOwn, WaitingIsOpen, OpenReports

LEMMA AskKeepsIt ==
    ASSUME RInv, NEW x \in Posts, NEW p \in Players, NEW q \in Reported, AskReport(x, p, q)
    PROVE  RInv'
<1>1. ReportsTypeOK'
  BY DEF RInv, ReportsTypeOK, AskReport
<1>2. \A o \in Players : OpenOf(o)' = OpenOf(o)
  BY DEF AskReport, OpenOf, OpenReports
<1>3. \A o \in Players : o # p => UnderWay(o)' = UnderWay(o)
  BY ReportsAssumption DEF RInv, ReportsTypeOK, AskReport, UnderWay, NoPost
<1>4. Cardinality(UnderWay(p)') <= Cardinality(Posts)
  <2>1. UnderWay(p)' \subseteq Posts
    BY DEF UnderWay
  <2> QED
    BY <2>1, ReportsAssumption, FS_Subset
<1>5. Cardinality(UnderWay(p)') \in Nat
  BY ReportsAssumption, FS_Subset, FS_CardinalityType DEF UnderWay
<1>6. FewAreOpen'
  <2> SUFFICES ASSUME NEW o \in Players
               PROVE  Cardinality(OpenOf(o)') + Cardinality(UnderWay(o)') < MaxOpenReports + Cardinality(Posts)
    BY DEF FewAreOpen
  <2>1. CASE o = p
    BY <1>2, <1>4, <1>5, <2>1, FiniteParts, ReportsAssumption DEF AskReport
  <2>2. CASE o # p
    BY <1>2, <1>3, <2>2 DEF RInv, FewAreOpen
  <2> QED
    BY <2>1, <2>2
<1>7. OneEach'
  BY <1>2 DEF RInv, OneEach
<1> QED
  BY <1>1, <1>6, <1>7 DEF RInv, AskReport, TextsAreTheirOwn, WaitingIsOpen, OpenReports

\* A report is written: a new row, or a new text of the open one.
LEMMA WriteKeepsIt ==
    ASSUME RInv, NEW x \in Posts, WriteReport(x)
    PROVE  RInv'
<1>0. PICK p \in Players : p = post[x].by
  BY PostsCarry DEF WriteReport
<1> DEFINE text == last + 1
           fresh == [id |-> text, by |-> p, on |-> post[x].on, text |-> text, open |-> TRUE]
<1>a. /\ p # Former /\ post[x].on \in Reported
      /\ last \in Nat /\ text \in 1 .. LastText /\ text > last /\ last' = text
      /\ reports \subseteq Report /\ waiting \subseteq 1 .. LastText
  BY PostsCarry, ReportsAssumption DEF RInv, ReportsTypeOK, WriteReport
<1>b. fresh \in Report /\ fresh.text = text /\ fresh.id = text /\ fresh.by = p /\ fresh.on = post[x].on
      /\ fresh.open = TRUE
  BY <1>a DEF Report
<1>c. \A r \in reports : r.text <= last /\ r.id <= last /\ r.text # text
  BY <1>a DEF RInv, TextsAreTheirOwn, Report
<1>d. UnderWay(p)' = UnderWay(p) \ {x} /\ x \in UnderWay(p)
      /\ \A o \in Players : o # p => UnderWay(o)' = UnderWay(o)
  BY <1>0, <1>a, ReportsAssumption DEF RInv, ReportsTypeOK, WriteReport, UnderWay, NoPost
<1>e. /\ Cardinality(UnderWay(p)') = Cardinality(UnderWay(p)) - 1
      /\ Cardinality(UnderWay(p)) \in Nat /\ Cardinality(OpenOf(p)) \in Nat
  BY <1>a, <1>d, FiniteParts, FS_RemoveElement
<1>f. PICK gone, new : /\ gone \subseteq OpenOf(p) /\ new \in Report /\ new.text = text /\ new.id <= text
                       /\ new.by = p /\ new.on = post[x].on /\ new.open = TRUE
                       /\ \A r \in OpenOf(p) : r \in gone <=> r.on = post[x].on
                       /\ gone = {} \/ \E r \in OpenOf(p) : gone = {r}
                       /\ reports' = (reports \ gone) \union {new}
                       /\ waiting' = (waiting \ {r.text : r \in gone}) \union {text}
  <2> DEFINE old == Conflicts(x)
  <2>1. old = {r \in OpenOf(p) : r.on = post[x].on}
    BY <1>0 DEF Conflicts
  <2>2. CASE old = {}
    <3>1. reports' = (reports \ old) \union {fresh} /\ waiting' = (waiting \ {r.text : r \in old}) \union {text}
      BY <1>0, <2>2 DEF WriteReport
    <3> HIDE DEF old, fresh
    <3> QED
      BY <1>a, <1>b, <2>1, <2>2, <3>1
  <2>3. CASE old # {}
    <3>1. PICK r \in OpenOf(p) : r.on = post[x].on
      BY <2>1, <2>3
    <3>2. old = {r}
      BY <1>a, <2>1, <3>1 DEF RInv, OneEach
    <3> DEFINE new == [r EXCEPT !.text = text]
    <3>3. r \in Report /\ r \in reports /\ r.by = p /\ r.open = TRUE
      BY <1>a, <3>1 DEF OpenOf, OpenReports, Report
    <3>4. /\ new \in Report /\ new.text = text /\ new.id = r.id /\ new.by = p /\ new.on = r.on
          /\ new.open = TRUE
      BY <1>a, <3>3 DEF Report
    <3>5. {[o EXCEPT !.text = text] : o \in old} = {new}
      BY <3>2
    <3>6. reports' = (reports \ old) \union {new} /\ waiting' = (waiting \ {o.text : o \in old}) \union {text}
      BY <2>3, <3>5 DEF WriteReport
    <3>7. new.id <= text
      BY <1>a, <1>c, <3>3, <3>4 DEF Report
    <3> HIDE DEF old, new
    <3> QED
      BY <1>a, <2>1, <3>1, <3>2, <3>4, <3>6, <3>7
  <2> QED
    BY <2>2, <2>3
<1> HIDE DEF fresh, text
<1>g. /\ gone \subseteq reports /\ \A r \in gone : r.open
      /\ new \notin reports
      /\ OpenReports' = (OpenReports \ gone) \union {new}
      /\ OpenOf(p)' = (OpenOf(p) \ gone) \union {new}
      /\ \A o \in Players : o # p => OpenOf(o)' = OpenOf(o)
  BY <1>c, <1>f DEF OpenOf, OpenReports
<1>1. ReportsTypeOK' /\ IsFiniteSet(reports')
  <2>1. IsFiniteSet(reports \ gone)
    BY FS_Subset DEF RInv
  <2>2. IsFiniteSet(reports')
    BY <1>f, <2>1, FS_AddElement
  <2>3. last' \in 0 .. LastText /\ waiting' \subseteq 1 .. LastText /\ reports' \subseteq Report
    <3>1. last' \in 0 .. LastText
      BY <1>a, ReportsAssumption
    <3>2. waiting' \subseteq waiting \union {text} /\ reports' \subseteq reports \union {new}
      BY <1>f
    <3> QED
      BY <1>a, <1>f, <3>1, <3>2
  <2>4. post' \in [Posts -> {NoPost} \union [by : Players, on : Reported]] /\ UNCHANGED <<attempted, page>>
    BY DEF RInv, ReportsTypeOK, WriteReport
  <2> QED
    BY <2>2, <2>3, <2>4 DEF RInv, ReportsTypeOK
<1>2. TextsAreTheirOwn'
  <2>1. \A r \in reports' : r.text <= last' /\ r.id <= last'
    <3>1. \A r \in reports : r.text <= last' /\ r.id <= last'
      BY <1>a, <1>c DEF Report
    <3>2. new.text <= last' /\ new.id <= last'
      BY <1>a, <1>f
    <3> QED
      BY <1>f, <3>1, <3>2
  <2>2. \A r, s \in reports' : r.text = s.text => r = s
    BY <1>c, <1>f DEF RInv, TextsAreTheirOwn
  <2> QED
    BY <2>1, <2>2 DEF TextsAreTheirOwn
<1>3. OneEach'
  BY <1>f, <1>g DEF RInv, OneEach
<1>4. FewAreOpen'
  <2>1. Cardinality(OpenOf(p)') <= Cardinality(OpenOf(p)) + 1
    <3>1. IsFiniteSet(OpenOf(p) \ gone) /\ Cardinality(OpenOf(p) \ gone) <= Cardinality(OpenOf(p))
          /\ Cardinality(OpenOf(p) \ gone) \in Nat
      BY <1>a, FiniteParts, FS_Subset, FS_CardinalityType
    <3> DEFINE rest == OpenOf(p) \ gone
    <3>2. Cardinality(rest \union {new}) = IF new \in rest THEN Cardinality(rest) ELSE Cardinality(rest) + 1
      BY <3>1, FS_AddElement
    <3>3. OpenOf(p)' = rest \union {new}
      BY <1>g
    <3> HIDE DEF rest
    <3>4. Cardinality(rest) \in Nat /\ Cardinality(rest) <= Cardinality(OpenOf(p))
      BY <3>1 DEF rest
    <3> QED
      BY <1>e, <3>2, <3>3, <3>4
  <2>2. Cardinality(OpenOf(p)') \in Nat
    <3>1. IsFiniteSet(OpenOf(p)')
      BY <1>1, FS_Subset DEF OpenOf, OpenReports
    <3> QED
      BY <3>1, FS_CardinalityType
  <2>3. Cardinality(OpenOf(p)) + Cardinality(UnderWay(p)) < MaxOpenReports + Cardinality(Posts)
    BY <1>a DEF RInv, FewAreOpen
  <2>4. Cardinality(Posts) \in Nat /\ MaxOpenReports \in Nat
    BY ReportsAssumption, FS_CardinalityType
  <2>5. Cardinality(OpenOf(p)') + Cardinality(UnderWay(p)') < MaxOpenReports + Cardinality(Posts)
    BY <1>e, <2>1, <2>2, <2>3, <2>4
  <2> QED
    BY <1>d, <1>g, <2>5 DEF RInv, FewAreOpen
<1>5. WaitingIsOpen'
  <2>1. waiting' = {r.text : r \in OpenReports'}
    <3>1. waiting = {r.text : r \in OpenReports}
      BY DEF RInv, WaitingIsOpen
    <3>2. \A r \in OpenReports, s \in gone : r.text = s.text => r = s
      BY <1>g DEF RInv, TextsAreTheirOwn, OpenReports
    <3>3. {r.text : r \in OpenReports'} = {r.text : r \in OpenReports \ gone} \union {text}
      BY <1>f, <1>g
    <3>4. {r.text : r \in OpenReports \ gone} = {r.text : r \in OpenReports} \ {r.text : r \in gone}
      BY <3>2
    <3> QED
      BY <1>f, <3>1, <3>3, <3>4
  <2>2. reports' \ OpenReports' = reports \ OpenReports /\ audited' = audited
    BY <1>f, <1>g DEF OpenReports, WriteReport
  <2> QED
    BY <2>1, <2>2 DEF RInv, WaitingIsOpen
<1> QED
  BY <1>1, <1>2, <1>3, <1>4, <1>5 DEF RInv

\* A reviewer handles a report: it is open no more.
LEMMA ResolveKeepsIt ==
    ASSUME RInv, NEW v \in Reviewers, NEW r \in reports, Resolve(v, r)
    PROVE  RInv'
<1> DEFINE c == [r EXCEPT !.open = FALSE]
<1>a. /\ r \in Report /\ r.open = TRUE /\ reports \subseteq Report /\ IsFiniteSet(reports)
      /\ \A s \in reports : s.text = r.text => s = r
  BY DEF RInv, ReportsTypeOK, TextsAreTheirOwn, Resolve, Report
<1>b. /\ c \in Report /\ c.id = r.id /\ c.text = r.text /\ c.by = r.by /\ c.on = r.on /\ c.open = FALSE
  BY <1>a DEF Report
<1>c. reports' = (reports \ {r}) \union {c}
  BY DEF Resolve
<1> HIDE DEF c
<1>d. c \notin reports
  BY <1>a, <1>b
<1>e. /\ OpenReports' = OpenReports \ {r} /\ reports' \ OpenReports' = (reports \ OpenReports) \union {c}
      /\ r \in OpenReports
  BY <1>a, <1>b, <1>c, <1>d DEF OpenReports
<1>f. \A p \in Players : OpenOf(p)' \subseteq OpenOf(p) /\ UnderWay(p)' = UnderWay(p)
  BY <1>e DEF OpenOf, UnderWay, Resolve
<1>1. ReportsTypeOK'
  BY <1>a, <1>b, <1>c DEF RInv, ReportsTypeOK, Resolve
<1>2. IsFiniteSet(reports')
  <2>1. IsFiniteSet(reports \ {r})
    BY <1>a, FS_RemoveElement
  <2> QED
    BY <1>c, <2>1, FS_AddElement
<1>3. TextsAreTheirOwn'
  BY <1>a, <1>b, <1>c DEF RInv, TextsAreTheirOwn, Resolve
<1>4. OneEach'
  BY <1>f DEF RInv, OneEach
<1>5. FewAreOpen'
  <2> SUFFICES ASSUME NEW p \in Players
               PROVE  Cardinality(OpenOf(p)') + Cardinality(UnderWay(p)') < MaxOpenReports + Cardinality(Posts)
    BY DEF FewAreOpen
  <2>1. /\ Cardinality(OpenOf(p)') <= Cardinality(OpenOf(p)) /\ Cardinality(OpenOf(p)') \in Nat
    BY <1>f, FiniteParts, FS_Subset, FS_CardinalityType
  <2>2. Cardinality(OpenOf(p)) + Cardinality(UnderWay(p)) < MaxOpenReports + Cardinality(Posts)
    BY DEF RInv, FewAreOpen
  <2> QED
    BY <1>f, <2>1, <2>2, FiniteParts, ReportsAssumption
<1>6. WaitingIsOpen'
  <2>1. waiting' = {s.text : s \in OpenReports \ {r}}
    BY <1>a DEF RInv, WaitingIsOpen, Resolve, OpenReports
  <2>2. audited' = {<<s.id, s.text>> : s \in (reports \ OpenReports) \union {c}}
    BY <1>b DEF RInv, WaitingIsOpen, Resolve
  <2> QED
    BY <1>e, <2>1, <2>2 DEF WaitingIsOpen
<1> QED
  BY <1>1, <1>2, <1>3, <1>4, <1>5, <1>6 DEF RInv

\* An account that goes leaves its reports without a name.
LEMMA AuthorsGo ==
    ASSUME RInv, NEW p \in Players, DeleteAuthor(p)
    PROVE  RInv'
<1> DEFINE Unnamed(r) == IF r.by = p THEN [r EXCEPT !.by = Former] ELSE r
<1>a. /\ reports \subseteq Report /\ IsFiniteSet(reports) /\ p # Former
      /\ \A r, s \in reports : r.text = s.text => r = s
  BY ReportsAssumption DEF RInv, ReportsTypeOK, TextsAreTheirOwn
<1>b. \A r \in reports : /\ Unnamed(r) \in Report /\ Unnamed(r).id = r.id /\ Unnamed(r).text = r.text
                         /\ Unnamed(r).on = r.on /\ Unnamed(r).open = r.open
                         /\ Unnamed(r).by = IF r.by = p THEN Former ELSE r.by
  BY <1>a DEF Report
<1>c. reports' = {Unnamed(r) : r \in reports}
  BY DEF DeleteAuthor
<1>d. \A r \in reports : r.by # p => Unnamed(r) = r
  OBVIOUS
<1> HIDE DEF Unnamed
<1>e. /\ OpenReports' = {Unnamed(r) : r \in OpenReports}
      /\ reports' \ OpenReports' = {Unnamed(r) : r \in reports \ OpenReports}
  BY <1>b, <1>c DEF OpenReports
<1>f. /\ OpenOf(p)' = {} /\ UnderWay(p)' = {}
      /\ \A q \in Players : q # p => OpenOf(q)' \subseteq OpenOf(q) /\ UnderWay(q)' = UnderWay(q)
  <2>1. OpenOf(p)' = {} /\ \A q \in Players : q # p => OpenOf(q)' \subseteq OpenOf(q)
    BY <1>a, <1>b, <1>d, <1>e, ReportsAssumption DEF OpenOf, OpenReports
  <2>2. UnderWay(p)' = {} /\ \A q \in Players : q # p => UnderWay(q)' = UnderWay(q)
    BY <1>a, ReportsAssumption DEF DeleteAuthor, UnderWay, NoPost
  <2> QED
    BY <2>1, <2>2
<1>1. ReportsTypeOK'
  BY <1>b, <1>c DEF RInv, ReportsTypeOK, DeleteAuthor
<1>2. IsFiniteSet(reports')
  <2> DEFINE f == [r \in reports |-> Unnamed(r)]
  <2>1. f \in Surjection(reports, reports')
    BY <1>c DEF Surjection
  <2> QED
    BY <1>a, <2>1, FS_Surjection
<1>3. TextsAreTheirOwn'
  BY <1>a, <1>b, <1>c DEF RInv, TextsAreTheirOwn, DeleteAuthor
<1>4. OneEach'
  BY <1>f DEF RInv, OneEach
<1>5. FewAreOpen'
  <2> SUFFICES ASSUME NEW q \in Players
               PROVE  Cardinality(OpenOf(q)') + Cardinality(UnderWay(q)') < MaxOpenReports + Cardinality(Posts)
    BY DEF FewAreOpen
  <2>1. CASE q = p
    <3>1. Cardinality(OpenOf(q)') = 0 /\ Cardinality(UnderWay(q)') = 0
      BY <1>f, <2>1, FS_EmptySet
    <3> QED
      BY <3>1, FiniteParts, ReportsAssumption
  <2>2. CASE q # p
    <3>1. /\ Cardinality(OpenOf(q)') <= Cardinality(OpenOf(q)) /\ Cardinality(OpenOf(q)') \in Nat
      BY <1>f, <2>2, FiniteParts, FS_Subset, FS_CardinalityType
    <3>2. Cardinality(OpenOf(q)) + Cardinality(UnderWay(q)) < MaxOpenReports + Cardinality(Posts)
      BY DEF RInv, FewAreOpen
    <3> QED
      BY <1>f, <2>2, <3>1, <3>2, FiniteParts, ReportsAssumption
  <2> QED
    BY <2>1, <2>2
<1>6. WaitingIsOpen'
  <2>1. OpenReports \subseteq reports
    BY DEF OpenReports
  <2>2. waiting' = {r.text : r \in OpenReports'}
    BY <1>b, <1>e, <2>1 DEF RInv, WaitingIsOpen, DeleteAuthor
  <2>3. audited' = {<<r.id, r.text>> : r \in reports' \ OpenReports'}
    BY <1>b, <1>e, <2>1 DEF RInv, WaitingIsOpen, DeleteAuthor
  <2> QED
    BY <2>2, <2>3 DEF WaitingIsOpen
<1> QED
  BY <1>1, <1>2, <1>3, <1>4, <1>5, <1>6 DEF RInv

LEMMA ReportsInitHolds == ReportsInit => RInv
<1> SUFFICES ASSUME ReportsInit PROVE RInv
  OBVIOUS
<1>1. ReportsTypeOK /\ IsFiniteSet(reports) /\ TextsAreTheirOwn
  <2>1. ReportsTypeOK
    BY ReportsAssumption DEF ReportsInit, ReportsTypeOK
  <2>2. IsFiniteSet(reports)
    BY FS_EmptySet DEF ReportsInit
  <2> QED
    BY <2>1, <2>2 DEF ReportsInit, TextsAreTheirOwn
<1>2. OneEach /\ WaitingIsOpen
  BY DEF ReportsInit, OneEach, WaitingIsOpen, OpenOf, OpenReports
<1>3. \A p \in Players : OpenOf(p) = {} /\ UnderWay(p) = {}
  BY ReportsAssumption DEF ReportsInit, OpenOf, OpenReports, UnderWay, NoPost
<1>4. FewAreOpen
  <2>1. \A p \in Players : Cardinality(OpenOf(p)) = 0 /\ Cardinality(UnderWay(p)) = 0
    BY <1>3, FS_EmptySet
  <2>2. Cardinality(Posts) \in Nat /\ MaxOpenReports \in Nat \ {0}
    BY ReportsAssumption, FS_CardinalityType
  <2> QED
    BY <2>1, <2>2 DEF FewAreOpen
<1> QED
  BY <1>1, <1>2, <1>4 DEF RInv

LEMMA ReportsStepKeepsIt == RInv /\ [ReportsNext]_reportVars => RInv'
<1> SUFFICES ASSUME RInv, [ReportsNext]_reportVars PROVE RInv'
  OBVIOUS
<1>1. ASSUME NEW x \in Posts, WriteReport(x) PROVE RInv'
  BY <1>1, WriteKeepsIt
<1>2. ASSUME NEW x \in Posts, NEW p \in Players, NEW q \in Reported, AskReport(x, p, q) PROVE RInv'
  BY <1>2, AskKeepsIt
<1>3. ASSUME NEW v \in Reviewers, NEW q \in Reported, OpenPage(v, q) PROVE RInv'
  <2>1. {r.id : r \in {o \in OpenReports : o.on = q}} \subseteq 1 .. LastText
    BY DEF RInv, ReportsTypeOK, Report, OpenReports
  <2>2. ReportsTypeOK'
    BY <1>3, <2>1 DEF OpenPage, RInv, ReportsTypeOK
  <2> QED
    BY <1>3, <2>2, ReportsUntouched DEF OpenPage
<1>4. ASSUME NEW v \in Reviewers, NEW r \in reports, Resolve(v, r) PROVE RInv'
  BY <1>4, ResolveKeepsIt
<1>5. ASSUME NEW p \in Players, DeleteAuthor(p) PROVE RInv'
  BY <1>5, AuthorsGo
<1>6. ASSUME NEW p \in Players, NEW q \in Reported, Attempts(p, q) PROVE RInv'
  <2>1. ReportsTypeOK'
    BY <1>6 DEF Attempts, RInv, ReportsTypeOK
  <2> QED
    BY <1>6, <2>1, ReportsUntouched DEF Attempts
<1>7. CASE UNCHANGED reportVars
  <2>1. ReportsTypeOK'
    BY <1>7 DEF reportVars, RInv, ReportsTypeOK
  <2> QED
    BY <1>7, <2>1, ReportsUntouched DEF reportVars
<1> QED
  BY <1>1, <1>2, <1>3, <1>4, <1>5, <1>6, <1>7 DEF ReportsNext

\* The inductive invariant of the reports holds.
THEOREM ReportsInvariantHolds == ReportsSpec => []RInv
BY ReportsInitHolds, ReportsStepKeepsIt, PTL DEF ReportsSpec

-------------------------------------------------------------------------------
(* Together                                                                *)

\* The composition implements each of its parts.
THEOREM BothAreImplemented == MCSpec => Spec /\ ReportsSpec
<1>1. MCInit => Init /\ ReportsInit
  BY DEF MCInit
<1>2. [MCNext]_<<vars, reportVars, part>> => [Next]_vars /\ [ReportsNext]_reportVars
  BY DEF MCNext
<1> QED
  BY <1>1, <1>2, PTL DEF MCSpec, Spec, ReportsSpec

\* Every variable keeps its type.
THEOREM TypesHold == MCSpec => []ReviewTypeOK
<1>1. BInv /\ RInv => ReviewTypeOK
  BY DEF BInv, RInv, ReviewTypeOK
<1> QED
  BY <1>1, BothAreImplemented, BankInvariantHolds, ReportsInvariantHolds, PTL

\* What players are served fits its key, its correction, its images and what hides it.
THEOREM WhatIsServedFits == Spec => []ServedAsKept
<1>1. BInv => ServedAsKept
  <2>1. Fits(row) => Effective(row) \subseteq row.content.options \union {Self}
    BY DEF Fits, KeyFits, Effective
  <2> QED
    BY <2>1 DEF BInv, RowFits, Fits, ServedAsKept
<1> QED
  BY <1>1, BankInvariantHolds, PTL

\* A dropped correction and a player's report stay in the reviewers' queue until somebody sees to them, and
\* a player has one open report of a question and few in all.
THEOREM NothingIsMissed == MCSpec => []QueuesKeepWhatWaits
<1>1. BInv => DroppedCorrectionsAreFlagged
  BY DEF BInv, DroppedAsAnswer, DroppedCorrectionsAreFlagged
<1>2. RInv => ReportsWait
  <2> SUFFICES ASSUME RInv PROVE ReportsWait
    OBVIOUS
  <2>1. ASSUME NEW p \in Players PROVE Cardinality(OpenOf(p)) < MaxOpenReports + Cardinality(Posts)
    BY FiniteParts, ReportsAssumption DEF RInv, FewAreOpen
  <2> QED
    BY <2>1 DEF RInv, WaitingIsOpen, OneEach, ReportsWait
<1>3. BInv /\ RInv => QueuesKeepWhatWaits
  BY <1>1, <1>2 DEF QueuesKeepWhatWaits
<1> QED
  BY <1>3, BothAreImplemented, BankInvariantHolds, ReportsInvariantHolds, PTL

-------------------------------------------------------------------------------
(* Grading: for every key, text and draw                                   *)

\* What a text may read as, and a number of it.
Numeral == [v : Int, d : 0 .. 2, ambiguous : BOOLEAN]

LEMMA LargerOfTwo ==
    ASSUME NEW a \in Int, NEW b \in Int
    PROVE  G!Max({a, b}) \in {a, b} /\ G!Max({a, b}) >= a /\ G!Max({a, b}) >= b
<1>1. \E x \in {a, b} : \A y \in {a, b} : x >= y
  OBVIOUS
<1> QED
  BY <1>1 DEF G!Max

LEMMA Distances ==
    \A x \in Int : G!Abs(x) \in Nat /\ G!Abs(x) \in {x, -x} /\ G!Abs(x) >= x /\ G!Abs(x) >= -x
BY DEF G!Abs

\* The tolerance of a number: none around zero, else half a unit in the last decimal, or 0.1 % with decimals.
LEMMA Tolerances ==
    ASSUME NEW n \in Numeral
    PROVE  /\ n.v = 0 => G!Tolerance(n) = 0
           /\ n.v # 0 /\ n.d = 0 => G!Tolerance(n) = 100000
           /\ n.v # 0 /\ n.d = 1 => G!Tolerance(n) = G!Max({10000, G!Abs(n.v)})
           /\ n.v # 0 /\ n.d = 2 => G!Tolerance(n) = G!Max({1000, G!Abs(n.v)})
           /\ G!Tolerance(n) \in Nat /\ n.d \in {0, 1, 2} /\ n.v \in Int
<1>1. n.d \in {0, 1, 2} /\ n.v \in Int /\ G!Abs(n.v) \in Nat
  BY Distances DEF Numeral
<1>2. /\ n.d = 0 => 1000 * (G!Unit \div (2 * G!Pow(n.d))) = 100000
      /\ n.d = 1 => 1000 * (G!Unit \div (2 * G!Pow(n.d))) = 10000
      /\ n.d = 2 => 1000 * (G!Unit \div (2 * G!Pow(n.d))) = 1000
  BY DEF G!Unit, G!Pow
<1>3. /\ n.v = 0 => G!Tolerance(n) = 0
      /\ n.v # 0 /\ n.d = 0 => G!Tolerance(n) = 100000
      /\ n.v # 0 /\ n.d = 1 => G!Tolerance(n) = G!Max({10000, G!Abs(n.v)})
      /\ n.v # 0 /\ n.d = 2 => G!Tolerance(n) = G!Max({1000, G!Abs(n.v)})
  BY <1>1, <1>2 DEF G!Tolerance
<1>4. PICK size \in Int : size = G!Abs(n.v)
  BY <1>1
<1>5. G!Max({10000, size}) \in {10000, size} /\ G!Max({1000, size}) \in {1000, size}
  <2>1. 10000 \in Int /\ 1000 \in Int
    OBVIOUS
  <2> QED
    BY <2>1, LargerOfTwo
<1>6. G!Tolerance(n) \in Nat
  BY <1>1, <1>3, <1>4, <1>5
<1> QED
  BY <1>1, <1>3, <1>6

\* A number is right whenever it rounds to the key, and beyond that only within 0.1 % of a key with decimals;
\* around zero nothing but zero is (grading.py: tolerance, _close).
THEOREM WhatRoundsIsRight == \A n \in Numeral, given \in Int : G!MarksWhatRounds(n, given)
<1> SUFFICES ASSUME NEW n \in Numeral, NEW given \in Int PROVE G!MarksWhatRounds(n, given)
  OBVIOUS
<1>1. n.d \in {0, 1, 2} /\ n.v \in Int
  BY DEF Numeral
<1>2. PICK apart \in Int : apart = given - n.v
  BY <1>1
<1>3. PICK off \in Nat : off = G!Abs(apart) /\ (off = 0 <=> apart = 0)
  BY Distances
<1>4. PICK size \in Nat : size = G!Abs(n.v) /\ (size = 0 <=> n.v = 0)
  BY <1>1, Distances
<1>5. PICK steps \in {200, 20, 2} :
           /\ steps = G!Unit \div G!Pow(n.d)
           /\ (n.d = 0 /\ steps = 200) \/ (n.d = 1 /\ steps = 20) \/ (n.d = 2 /\ steps = 2)
  BY <1>1 DEF G!Unit, G!Pow
<1>6. PICK within \in Nat :
           /\ within = G!Tolerance(n)
           /\ size = 0 => within = 0
           /\ size # 0 /\ n.d = 0 => within = 100000
           /\ size # 0 /\ n.d = 1 => within \in {10000, size} /\ within >= 10000
           /\ size # 0 /\ n.d = 2 => within \in {1000, size} /\ within >= 1000
  <2>1. 10000 \in Int /\ 1000 \in Int /\ size \in Int
    OBVIOUS
  <2>2. G!Max({10000, size}) \in {10000, size} /\ G!Max({10000, size}) >= 10000
    BY <2>1, LargerOfTwo
  <2>3. G!Max({1000, size}) \in {1000, size} /\ G!Max({1000, size}) >= 1000
    <3>1. PICK half \in Int : half = 1000
      OBVIOUS
    <3>2. G!Max({half, size}) \in {half, size} /\ G!Max({half, size}) >= half
      BY <2>1, LargerOfTwo
    <3> QED
      BY <3>1, <3>2
  <2>4. /\ n.v = 0 => G!Tolerance(n) = 0
        /\ n.v # 0 /\ n.d = 0 => G!Tolerance(n) = 100000
        /\ n.v # 0 /\ n.d = 1 => G!Tolerance(n) = G!Max({10000, G!Abs(n.v)})
        /\ n.v # 0 /\ n.d = 2 => G!Tolerance(n) = G!Max({1000, G!Abs(n.v)})
        /\ G!Tolerance(n) \in Nat
    BY Tolerances
  <2>5. PICK t \in Nat : t = G!Tolerance(n)
    BY <2>4
  <2>6. /\ size = 0 => t = 0
        /\ size # 0 /\ n.d = 0 => t = 100000
        /\ size # 0 /\ n.d = 1 => t \in {10000, size} /\ t >= 10000
        /\ size # 0 /\ n.d = 2 => t \in {1000, size} /\ t >= 1000
    BY <1>4, <2>2, <2>3, <2>4, <2>5
  <2> QED
    BY <2>5, <2>6
<1>7. G!Close(given, n) <=> 1000 * off <= within
  BY <1>2, <1>3, <1>6 DEF G!Close
<1>8. n.v # 0 /\ 2 * off <= steps => G!Close(given, n)
  BY <1>4, <1>5, <1>6, <1>7
<1>9. n.v = 0 => (G!Close(given, n) <=> given = 0)
  BY <1>2, <1>3, <1>4, <1>6, <1>7
<1>10. G!Close(given, n) /\ ~(2 * off <= steps) => n.d > 0 /\ 1000 * off <= size
  BY <1>4, <1>5, <1>6, <1>7
<1> QED
  BY <1>2, <1>3, <1>4, <1>5, <1>8, <1>9, <1>10 DEF G!MarksWhatRounds

\* What is refused would not have been right: nobody loses an answer to a question about its form
\* (questions.py: check; grading.py: unreadable).
THEOREM RefusedIsNotRight == \A key, text : (text.reads = "numbers" => Len(text.values) \in Nat) => G!RefusesNothingRight(key, text)
<1> SUFFICES ASSUME NEW key, NEW text, text.reads = "numbers" => Len(text.values) \in Nat,
                    G!Unreadable(key, text, TRUE), G!Right(key, text)
             PROVE  FALSE
  BY DEF G!RefusesNothingRight
<1>1. key.kind \in {"number", "numbers", "range"}
  BY DEF G!Unreadable
<1>2. CASE key.kind \in {"number", "range"}
  <2>1. text.reads = "numbers" /\ Len(text.values) = 1
    BY <1>2 DEF G!Right, G!One
  <2> QED
    BY <1>2, <2>1 DEF G!Unreadable
<1>3. CASE key.kind = "numbers"
  <2>1. /\ text.reads = "numbers" /\ Len(text.values) >= 2
        /\ \E a \in G!Accepted(key) : G!NumbersRight(text.values, a)
    BY <1>3 DEF G!Right
  <2>2. Len(text.values) \in G!Counts(key)
    BY <2>1 DEF G!NumbersRight, G!Counts
  <2> QED
    BY <1>3, <2>1, <2>2 DEF G!Unreadable
<1> QED
  BY <1>1, <1>2, <1>3

\* A number's hint holds the number, and whoever answers one of its ends, or its middle, is wrong
\* (hints.py: _window).
THEOREM WindowsHoldTheAnswer == \A n \in Numeral, draw \in G!Draw : G!WindowKeepsTheSecret(n, draw)
<1> SUFFICES ASSUME NEW n \in Numeral, NEW draw \in G!Draw, ~G!NoWindow(n, draw)
             PROVE  LET w == G!Window(n, draw)
                        Wrong(x) == 10 * G!Abs(x - 100 * n.v) > G!Tolerance(n)
                    IN /\ w.lo < 100 * n.v /\ 100 * n.v < w.hi
                       /\ Wrong(w.lo) /\ Wrong(w.hi) /\ Wrong((w.lo + w.hi) \div 2)
  BY DEF G!WindowKeepsTheSecret
<1>1. n.d \in {0, 1, 2} /\ n.v \in Int /\ n.v # 0
  BY DEF Numeral, G!NoWindow
<1>2. PICK size \in Nat : size = G!Abs(n.v)
  BY <1>1, Distances
<1>3. PICK within \in Nat : within = G!Tolerance(n) /\ within >= 1000
  <2>1. PICK half \in Int : half = 1000
    OBVIOUS
  <2>2. PICK tenth \in Int : tenth = 10000
    OBVIOUS
  <2>0. size \in Int
    OBVIOUS
  <2>3. /\ G!Max({half, size}) \in {half, size} /\ G!Max({half, size}) >= half
        /\ G!Max({tenth, size}) \in {tenth, size} /\ G!Max({tenth, size}) >= tenth
    <3>1. G!Max({half, size}) \in {half, size} /\ G!Max({half, size}) >= half
      BY <2>0, LargerOfTwo
    <3>2. G!Max({tenth, size}) \in {tenth, size} /\ G!Max({tenth, size}) >= tenth
      BY <2>0, LargerOfTwo
    <3> QED
      BY <3>1, <3>2
  <2>4. /\ n.d = 0 => G!Tolerance(n) = 100000
        /\ n.d = 1 => G!Tolerance(n) = G!Max({tenth, size})
        /\ n.d = 2 => G!Tolerance(n) = G!Max({half, size})
    BY <1>1, <1>2, <2>1, <2>2, Tolerances
  <2>5. PICK t : t = G!Tolerance(n)
    OBVIOUS
  <2> QED
    BY <1>1, <2>1, <2>2, <2>3, <2>4, <2>5
<1>4. PICK width \in Nat : width = G!Width(n, draw) /\ 1000 * width > 120 * within - 1000
  <2>1. PICK spread \in Int : spread = G!Max({size, G!Unit})
    <3>1. PICK unit \in Int : unit = G!Unit
      BY DEF G!Unit
    <3>2. size \in Int
      OBVIOUS
    <3>3. G!Max({size, unit}) \in {size, unit}
      BY <3>2, LargerOfTwo
    <3> QED
      BY <3>1, <3>2, <3>3
  <2>2. draw.width \in {3, 5, 7}
    BY DEF G!Draw
  <2>3. PICK a \in Int : a = spread * draw.width
    BY <2>2
  <2>4. PICK b \in Nat : b = (120 * within) \div 1000 /\ 1000 * b > 120 * within - 1000
    OBVIOUS
  <2>5. G!Max({a, b}) \in {a, b} /\ G!Max({a, b}) >= b
    BY LargerOfTwo
  <2>6. G!Width(n, draw) = G!Max({a, b})
    BY <1>2, <1>3, <2>1, <2>3, <2>4 DEF G!Width
  <2> QED
    BY <2>4, <2>5, <2>6
<1>5. PICK inside \in {1, 2, 3, 4, 6, 7, 8, 9} : inside = (IF draw.flip THEN 10 - draw.inside ELSE draw.inside)
  BY DEF G!Draw
<1>6. PICK below \in Int : /\ below = inside * width
                           /\ below >= width /\ 10 * width - below >= width
                           /\ below - 5 * width >= width \/ 5 * width - below >= width
  <2>1. inside * width \in Int
    BY <1>5
  <2>2. PICK below \in Int : below = inside * width
    BY <2>1
  <2>3. \/ below = width \/ below = 2 * width \/ below = 3 * width \/ below = 4 * width
        \/ below = 6 * width \/ below = 7 * width \/ below = 8 * width \/ below = 9 * width
    BY <1>5, <2>2
  <2> QED
    BY <2>2, <2>3
<1>7. (10 - inside) * width = 10 * width - below
  BY <1>5, <1>6
<1>8. PICK v, lo, hi \in Int : v = n.v /\ lo = 100 * v - below /\ hi = 100 * v + (10 * width - below)
  <2>1. 100 * n.v - below \in Int /\ 100 * n.v + (10 * width - below) \in Int
    BY <1>1
  <2> QED
    BY <1>1, <2>1
<1>9. G!Window(n, draw) = [lo |-> lo, hi |-> hi]
  BY <1>4, <1>5, <1>6, <1>7, <1>8 DEF G!Window
<1>10. 10 * width > within /\ width > 0
  BY <1>3, <1>4
<1>11. lo < 100 * v /\ 100 * v < hi
  BY <1>6, <1>8, <1>10
<1>12. 10 * G!Abs(lo - 100 * v) > within
  <2>1. PICK apart \in Int : apart = lo - 100 * v
    OBVIOUS
  <2>2. -apart >= width
    BY <1>6, <1>8, <2>1
  <2> QED
    BY <1>10, <2>1, <2>2, Distances
<1>13. 10 * G!Abs(hi - 100 * v) > within
  <2>1. PICK apart \in Int : apart = hi - 100 * v
    OBVIOUS
  <2>2. apart >= width
    BY <1>6, <1>8, <2>1
  <2> QED
    BY <1>10, <2>1, <2>2, Distances
<1>14. 10 * G!Abs((lo + hi) \div 2 - 100 * v) > within
  <2>1. PICK apart \in Int : apart = (lo + hi) \div 2 - 100 * v
    OBVIOUS
  <2>2. apart = 5 * width - below
    <3>1. PICK middle \in Int : middle = 100 * v + 5 * width - below
      OBVIOUS
    <3>2. lo + hi = 2 * middle
      BY <1>8, <3>1
    <3>3. (2 * middle) \div 2 = middle
      OBVIOUS
    <3> QED
      BY <2>1, <3>1, <3>2, <3>3
  <2>3. apart >= width \/ -apart >= width
    BY <1>6, <2>2
  <2> QED
    BY <1>10, <2>1, <2>3, Distances
<1>15. G!Window(n, draw).lo = lo /\ G!Window(n, draw).hi = hi
  BY <1>9
<1> QED
  BY <1>3, <1>8, <1>11, <1>12, <1>13, <1>14, <1>15

\* A range's hint holds the range, with the middle of the hint outside of it (hints.py: _around_range).
THEOREM RangesAreWithinTheirHint ==
    \A lo, hi \in Int, draw \in G!Draw : lo <= hi => G!AroundKeepsTheSecret([lo |-> lo, hi |-> hi], draw)
<1> SUFFICES ASSUME NEW lo \in Int, NEW hi \in Int, NEW draw \in G!Draw, lo <= hi
             PROVE  G!AroundKeepsTheSecret([lo |-> lo, hi |-> hi], draw)
  OBVIOUS
<1>1. PICK range : range = [lo |-> lo, hi |-> hi]
  OBVIOUS
<1>2. range.lo = lo /\ range.hi = hi
  BY <1>1
<1>3. PICK spread \in Int : spread = G!Max({G!Abs(lo), G!Abs(hi), G!Unit}) /\ spread >= 200
  <2>1. PICK a, b, c \in Int : a = G!Abs(lo) /\ b = G!Abs(hi) /\ c = G!Unit /\ c = 200
    BY Distances DEF G!Unit
  <2>2. \E x \in {a, b, c} : \A y \in {a, b, c} : x >= y
    OBVIOUS
  <2>3. G!Max({a, b, c}) \in {a, b, c} /\ G!Max({a, b, c}) >= c
    BY <2>2 DEF G!Max
  <2> QED
    BY <2>1, <2>3
<1>4. draw.near \in {1, 2} /\ draw.far \in {1, 3}
  BY DEF G!Draw
<1>5. PICK near \in Int : near = spread * draw.near /\ near >= 200
  BY <1>3, <1>4
<1>6. PICK more \in Int : more = spread * draw.far /\ more >= 200
  BY <1>3, <1>4
<1>7. PICK far \in Int : far = near + 10 * (hi - lo) + more
  OBVIOUS
<1>8. G!Around(range, draw) = IF draw.flip THEN [lo |-> 10 * lo - far, hi |-> 10 * hi + near]
                              ELSE [lo |-> 10 * lo - near, hi |-> 10 * hi + far]
  BY <1>2, <1>3, <1>5, <1>6, <1>7 DEF G!Around
<1>9. ASSUME NEW x \in Int, NEW y \in Int, G!Around(range, draw) = [lo |-> x, hi |-> y],
             x < 10 * lo, 10 * hi < y, x + y < 20 * lo - 1 \/ x + y > 20 * hi + 1
      PROVE  G!AroundKeepsTheSecret(range, draw)
  <2>1. PICK w : w = G!Around(range, draw) /\ w.lo = x /\ w.hi = y
    BY <1>9
  <2>2. PICK middle \in Int : middle = (x + y) \div 2
    OBVIOUS
  <2>3. middle < 10 * lo \/ middle > 10 * hi
    BY <1>9, <2>2
  <2> QED
    BY <1>2, <1>9, <2>1, <2>2, <2>3 DEF G!AroundKeepsTheSecret
<1>10. CASE draw.flip
  <2>0. 10 * lo - far \in Int /\ 10 * hi + near \in Int
    OBVIOUS
  <2>1. PICK x, y \in Int : x = 10 * lo - far /\ y = 10 * hi + near
    BY <2>0
  <2>2. x < 10 * lo /\ 10 * hi < y /\ x + y < 20 * lo - 1
    BY <1>5, <1>6, <1>7, <2>1
  <2> QED
    BY <1>1, <1>8, <1>9, <1>10, <2>1, <2>2
<1>11. CASE ~draw.flip
  <2>0. 10 * lo - near \in Int /\ 10 * hi + far \in Int
    OBVIOUS
  <2>1. PICK x, y \in Int : x = 10 * lo - near /\ y = 10 * hi + far
    BY <2>0
  <2>2. x < 10 * lo /\ 10 * hi < y /\ x + y > 20 * hi + 1
    BY <1>5, <1>6, <1>7, <2>1
  <2> QED
    BY <1>1, <1>8, <1>9, <1>11, <2>1, <2>2
<1> QED
  BY <1>10, <1>11

\* Sets count the same in Grading and here.
LEMMA SizesAgree == \A set : G!Cardinality(set) = Cardinality(set)
  BY DEF G!Cardinality, Cardinality

\* A single choice's hint leaves the right option and one more, of however many (hints.py: hint).
THEOREM HintsLeaveTwo ==
    ASSUME NEW options, IsFiniteSet(options), NEW key, key.kind = "choice", key.mode = "one",
           key.options \subseteq options, NEW draw
    PROVE  G!HintLeavesTwo(key, options, draw)
<1> SUFFICES ASSUME NEW h \in G!HintOf(key, options, draw)
             PROVE  key.options \intersect h.removed = {} /\ Cardinality(options \ h.removed) = 2
  BY SizesAgree, Zenon DEF G!HintLeavesTwo
<1>1. PICK wrong : wrong = options \ key.options
  OBVIOUS
<1>2. PICK size : size = Cardinality(options)
  OBVIOUS
<1>3. h \in {[removed |-> gone] : gone \in G!kSubset(size - 2, wrong)}
  BY <1>1, <1>2, SizesAgree DEF G!HintOf
<1>4. PICK gone \in G!kSubset(size - 2, wrong) : h = [removed |-> gone]
  BY <1>3
<1>5. gone \subseteq wrong /\ Cardinality(gone) = size - 2 /\ h.removed = gone
  BY <1>4, SizesAgree DEF G!kSubset
<1>6. size \in Nat
  BY <1>2, FS_CardinalityType
<1>7. options \intersect gone = gone /\ Cardinality(options \ gone) = size - Cardinality(gone)
  <2>1. options \intersect gone = gone
    BY <1>1, <1>5
  <2>2. Cardinality(options \ gone) = Cardinality(options) - Cardinality(options \intersect gone)
    BY FS_Difference, Zenon
  <2>3. Cardinality(options \ gone) = size - Cardinality(gone)
    BY <1>2, <2>1, <2>2
  <2> QED
    BY <2>1, <2>3
<1>8. Cardinality(options \ gone) = 2
  BY <1>5, <1>6, <1>7
<1>9. key.options \intersect gone = {}
  BY <1>1, <1>5
<1> QED
  BY <1>5, <1>8, <1>9
===============================================================================
