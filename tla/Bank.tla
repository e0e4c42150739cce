--------------------------------- MODULE Bank ---------------------------------
(***************************************************************************)
(* A question of the bank between FS-Quiz, which changes, removes, deletes *)
(* and brings back what it publishes, and the reviewers, who correct its   *)
(* answer, hide it and show it again (services/bank.py, review.py).        *)
(*                                                                         *)
(* A push locks every question of FS-Quiz before it reads keys and         *)
(* options, and a reviewer's change locks the question, so each is one     *)
(* action.  One question is modelled; of the others a push counts how many *)
(* it would retire or change.  The question is a choice question: typed    *)
(* answers differ in how they are read, which `release` stands for.        *)
(***************************************************************************)
EXTENDS Naturals, FiniteSets

CONSTANTS
    Options,        \* FS-Quiz's answer IDs
    Self,           \* the key of an answer that is shown and not graded
    Contents,       \* what FS-Quiz may publish of the question
    Unread,         \* of these, what the first release cannot grade
    None,           \* not published, not in the database
    Unsure,         \* a push that was held back left only a part of what it read
    Others          \* the other questions of the bank

\* A content is its options, the right ones, its wording, and the rest (solutions, time).  What stands for
\* something absent is none of what may be there.
ASSUME BankAssumption ==
    /\ Options \subseteq Nat /\ Self \in Nat \ Options
    /\ Contents \subseteq [options : (SUBSET Options) \ {{}}, correct : SUBSET Options, wording : Nat, rest : Nat]
    /\ \A c \in Contents : c.correct \subseteq c.options
    /\ Unread \subseteq Contents /\ Others \in Nat
    /\ None \notin Contents /\ None # Unsure
    /\ {None, Unsure} \cap ((Contents \union {None}) \X BOOLEAN) = {}

VARIABLES
    row,        \* the question, its key and its options, or None
    lostMedia,  \* a media file of it is missing on the disk
    release,    \* 0, then 1, which reads more answers
    applied,    \* history: the content and the note that the last push brought
    unchecked   \* history: a push dropped a correction, and since then no reviewer has checked it and
                \* FS-Quiz has not deleted the question or brought it back

vars == <<row, lostMedia, release, applied, unchecked>>

Changes == {"none", "answer", "wording", "content", "removed", "back"}

Row == [content : Contents,                 \* what source_hash, text, type and live options are from
        key : SUBSET (Options \union {Self}),
        correction : SUBSET Options,        \* answer_keys.override, {} when there is none
        graded : BOOLEAN, playable : BOOLEAN, missing : BOOLEAN,    \* images_missing
        hidden : {"no", "team", "removed", "gone"},     \* excluded, and exclusion_note
        change : Changes,                   \* key_changed_at and upstream_change
        note : {"none", "removed", "gone"}] \* upstream_note

Init ==
    /\ row = None /\ lostMedia = FALSE /\ release = 0
    /\ applied = None /\ unchecked = FALSE

-------------------------------------------------------------------------------
(* Keys                                                                    *)

\* A slip: places in the list of answers instead of our option IDs.
KeyByPlace(c, rel) == {o - 1 : o \in c.correct}

\* build_key: {} when FS-Quiz marks no answer as right.
Key(c, rel) ==
    IF c.correct = {} THEN {}
    ELSE IF Cardinality(c.options) < 2 \/ (c \in Unread /\ rel = 0) THEN {Self} ELSE c.correct

Effective(q) == IF q.correction # {} THEN q.correction ELSE q.key

\* _serve_key.
Served(q) == [q EXCEPT !.graded = Effective(q) \notin {{}, {Self}}]

\* _serve.
Playable(q) == ~ q.missing /\ q.hidden = "no"

-------------------------------------------------------------------------------
(* A push                                                                  *)

\* graded_hash: whatever decides whether an answer is right.
Graded(c) == <<c.options, c.correct>>

\* A slip: any change counts as one of the answer.
ContentChanged(q, c) == q.content # c

\* _answer_changed.
AnswerChanged(q, c) == Graded(q.content) # Graded(c)

\* A slip: a milder reason takes the place of a dropped correction.
LatestReason(q, why) == [q EXCEPT !.change = why]

\* _flag.
Flagged(q, why) ==
    [q EXCEPT !.change = IF why \in {"wording", "content"} /\ @ = "answer" THEN @ ELSE why]

Fresh(c) ==
    [content |-> c, key |-> {}, correction |-> {}, graded |-> FALSE, playable |-> TRUE,
     missing |-> FALSE, hidden |-> "no", change |-> "none", note |-> "none"]

\* _write_question: the images, which decide what is playable.
WithImages(q, found) ==
    LET p == [q EXCEPT !.missing = ~ found] IN [p EXCEPT !.playable = Playable(p)]

\* _write_question: the reason a reviewer should look.
Why(q, c) ==
    IF AnswerChanged(q, c) THEN "answer"
    ELSE IF q.content.wording # c.wording THEN "wording"
    ELSE IF q.hidden # "no" THEN "content" ELSE "none"

\* _rekey, _sync_options.
Rekeyed(q, rel) == Served([q EXCEPT !.key = Key(q.content, rel)])

\* _write_question.
Written(q, c, found, rel) ==
    LET p == WithImages(q, found)
        w == Rekeyed([p EXCEPT !.content = c,
                               !.correction = IF AnswerChanged(q, c) THEN {} ELSE @], rel)
    IN IF q.content = c THEN Rekeyed(p, rel)
       ELSE IF Why(q, c) = "none" THEN w ELSE Flagged(w, Why(q, c))

\* A slip: it is playable again whether or not its images are there.
RestoredBlindly(q) ==
    IF q.note # "gone" THEN q
    ELSE IF q.hidden # "gone" THEN [q EXCEPT !.note = "none"]
    ELSE Flagged([q EXCEPT !.note = "none", !.hidden = "no", !.playable = TRUE], "back")

\* _restore.
Restored(q) ==
    IF q.note # "gone" THEN q
    ELSE IF q.hidden # "gone" THEN [q EXCEPT !.note = "none"]
    ELSE Flagged([q EXCEPT !.note = "none", !.hidden = "no", !.playable = ~ q.missing], "back")

\* A slip: hidden whenever FS-Quiz says so.
HiddenAsNoted(q, removed) ==
    IF removed THEN [q EXCEPT !.note = "removed", !.hidden = "removed", !.playable = FALSE] ELSE q

\* _hide_removed: hidden the first time FS-Quiz says it was removed from its quiz.
HiddenIfRemoved(q, removed) ==
    LET p == [q EXCEPT !.note = IF removed THEN "removed" ELSE "none"] IN
    IF removed /\ q.note # "removed" /\ q.hidden = "no"
      THEN [p EXCEPT !.hidden = "removed", !.playable = FALSE] ELSE p

\* _retire: hidden the first time it is not listed.
Retired(q) ==
    IF q.note = "gone" THEN q
    ELSE IF q.hidden # "no" THEN [q EXCEPT !.note = "gone"]
    ELSE Flagged([q EXCEPT !.note = "gone", !.hidden = "gone", !.playable = FALSE], "removed")

\* One question more that is retired or whose answer changes, if this one is.
Counts(c) ==
    IF row = None THEN 0
    ELSE IF c = None THEN (IF row.note # "gone" THEN 1 ELSE 0)
    ELSE IF AnswerChanged(row, c) THEN 1 ELSE 0

Here == Others + (IF row # None /\ row.note # "gone" THEN 1 ELSE 0)

\* import_bank holds the mirror back when it retires or changes more than a quarter of the bank, or
\* drops more than a quarter of the links between quizzes and questions.
Hold(c, others, unlinks, allow) == ~ allow /\ (4 * (Counts(c) + others) > Here \/ unlinks)

\* The question as the mirror lists it: `images` is "off" when the push brings none.
Listed(q, c, images, hold) ==
    IF hold /\ AnswerChanged(q, c) THEN q
    ELSE IF q.content = c /\ (~ q.missing \/ images = "off") /\ ~ lostMedia
      THEN Rekeyed(q, release)
      ELSE Written(q, c, images = "there", release)

Import(c, removed, images, others, unlinks, allow) ==
    LET hold == Hold(c, others, unlinks, allow)
        old == IF row = None THEN Rekeyed(WithImages(Fresh(c), images = "there"), release)
               ELSE Listed(row, c, images, hold)
        new == IF c # None THEN HiddenIfRemoved(Restored(old), removed)
               ELSE IF row = None \/ hold THEN row ELSE Retired(row)
        held == hold /\ row # None /\ (c = None \/ AnswerChanged(row, c))
    IN /\ row' = new
       /\ lostMedia' = (lostMedia /\ (c = None \/ held))
       /\ applied' = IF hold THEN Unsure ELSE <<c, removed>>
       /\ unchecked' = IF row = None \/ new.change \in {"removed", "back"} THEN FALSE
                     ELSE unchecked \/ new.correction # row.correction
       /\ UNCHANGED release

-------------------------------------------------------------------------------
(* Reviewers, and the server                                               *)

\* update with `excluded`.
Exclude(hidden) ==
    /\ row # None
    /\ LET p == [row EXCEPT !.hidden = hidden] IN row' = [p EXCEPT !.playable = Playable(p)]
    /\ UNCHANGED <<lostMedia, release, applied, unchecked>>

\* update with `acknowledge_change`.
Acknowledge ==
    /\ row # None /\ row.change # "none"
    /\ row' = [row EXCEPT !.change = "none"]
    /\ unchecked' = FALSE
    /\ UNCHANGED <<lostMedia, release, applied>>

\* set_answer.
Correct(S) ==
    /\ row # None /\ Cardinality(row.content.options) >= 2
    /\ S # {} /\ S \subseteq row.content.options
    /\ row' = [row EXCEPT !.correction = S, !.graded = TRUE]
    /\ UNCHANGED <<lostMedia, release, applied, unchecked>>

ClearCorrection ==
    /\ row # None /\ row.correction # {}
    /\ row' = [row EXCEPT !.correction = {}, !.graded = row.key \notin {{}, {Self}}]
    /\ UNCHANGED <<lostMedia, release, applied, unchecked>>

\* A new release reads more answers.
Deploy ==
    /\ release = 0
    /\ release' = 1
    /\ UNCHANGED <<row, lostMedia, applied, unchecked>>

\* Media are lost apart from the database, as on a restore to a new server.
LoseMedia ==
    /\ row # None /\ ~ row.missing
    /\ lostMedia' = TRUE
    /\ UNCHANGED <<row, release, applied, unchecked>>

Next ==
    \/ \E c \in Contents \union {None}, images \in {"off", "absent", "there"}, others \in {0, Others},
          removed, unlinks, allow \in BOOLEAN :
             /\ c = None => ~ removed /\ images = "off"
             /\ Import(c, removed, images, others, unlinks, allow)
    \/ Exclude("no") \/ Exclude("team") \/ Acknowledge
    \/ \E S \in SUBSET Options : Correct(S)
    \/ ClearCorrection \/ Deploy \/ LoseMedia

Spec == Init /\ [][Next]_vars

-------------------------------------------------------------------------------
(* Properties                                                              *)

\* The types.
BankTypeOK ==
    /\ row \in Row \union {None}
    /\ lostMedia \in BOOLEAN /\ release \in {0, 1} /\ unchecked \in BOOLEAN
    /\ applied \in ((Contents \union {None}) \X BOOLEAN) \union {None, Unsure}

\* What players are served fits together after every order of pushes and reviews: a question they see
\* is not hidden and had its images when a push last wrote it (a file lost since is noticed by the next
\* push); one that is scored has a key or a correction, and both name
\* options that are still offered.
ServedAsKept ==
    row # None =>
        /\ row.playable <=> Playable(row)
        /\ row.graded <=> Effective(row) \notin {{}, {Self}}
        /\ Effective(row) \subseteq row.content.options \union {Self}

\* A correction that a push dropped keeps the question in the reviewers' queue, and not for a milder
\* reason, until a reviewer has checked it or FS-Quiz deleted the question or brought it back.
DroppedCorrectionsAreFlagged == unchecked => row.change \notin {"none", "wording", "content"}

\* What a reviewer did survives the pushes: a push drops a correction only when FS-Quiz changed what is
\* graded, and never when it is held back; and a push of what the last one brought overrules nothing that
\* was shown, hidden, corrected or checked since.
ReviewersWorkSurvives ==
    [][/\ row # None /\ row'.correction = {} /\ row.correction # {} /\ applied' # applied =>
            applied' # Unsure /\ Graded(row'.content) # Graded(row.content)
       /\ \A c \in Contents \union {None}, removed \in BOOLEAN, images \in {"off", "absent", "there"} :
            row # None /\ applied = <<c, removed>> /\ Import(c, removed, images, 0, FALSE, FALSE) =>
               /\ row'.hidden = row.hidden /\ row'.change = row.change
               /\ row'.correction = row.correction]_vars
===============================================================================
