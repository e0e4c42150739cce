-------------------------------- MODULE Reports --------------------------------
(***************************************************************************)
(* The reports of players that something is wrong with a question, and the *)
(* reviewers who handle them (services/review.py).  A player has one open  *)
(* report for each question at most: a new one replaces its text.          *)
(*                                                                         *)
(* A player's request counts their open reports before it writes; a        *)
(* reviewer handles what their page listed, by its id.                     *)
(***************************************************************************)
EXTENDS Naturals, FiniteSets

CONSTANTS
    Players,
    Reported,       \* the questions that may be reported
    Posts,          \* the players' requests at the same time
    Reviewers,
    MaxOpenReports, \* MAX_OPEN_REPORTS
    LastText,       \* bound: the texts that are written
    Former          \* the author of a report whose account was deleted

ASSUME ReportsAssumption ==
    /\ MaxOpenReports \in Nat \ {0} /\ LastText \in Nat /\ Former \notin Players
    /\ IsFiniteSet(Posts)

VARIABLES
    reports,    \* the rows
    attempted,  \* the questions that each player has an attempt at
    post,       \* what each request has checked
    page,       \* the ids of the open reports that each reviewer's page lists
    last,       \* the texts written so far; a row's id is that of its first text
    waiting,    \* history: the texts that neither were replaced by their author nor handled
    audited     \* history: what was handled, as the audit log has it

reportVars == <<reports, attempted, post, page, last, waiting, audited>>

Report ==
    [id : 1 .. LastText, by : Players \union {Former}, on : Reported, text : 1 .. LastText, open : BOOLEAN]
NoPost == [by |-> Former]

ReportsInit ==
    /\ reports = {} /\ attempted = [p \in Players |-> {}]
    /\ post = [x \in Posts |-> NoPost] /\ page = [v \in Reviewers |-> {}]
    /\ last = 0 /\ waiting = {} /\ audited = {}

OpenReports == {r \in reports : r.open}
OpenOf(p) == {r \in OpenReports : r.by = p}

Attempts(p, q) ==
    /\ attempted' = [attempted EXCEPT ![p] = @ \union {q}]
    /\ UNCHANGED <<reports, post, page, last, waiting, audited>>

\* report: of a question the player was shown, while not too many of theirs wait.
AskReport(x, p, q) ==
    /\ post[x] = NoPost
    /\ q \in attempted[p] /\ Cardinality(OpenOf(p)) < MaxOpenReports
    /\ post' = [post EXCEPT ![x] = [by |-> p, on |-> q]]
    /\ UNCHANGED <<reports, attempted, page, last, waiting, audited>>

\* A slip: a report that was handled counts too.
ConflictsEver(x) == {r \in reports : r.by = post[x].by /\ r.on = post[x].on}

\* The open reports are unique by player and question.
Conflicts(x) == {r \in OpenOf(post[x].by) : r.on = post[x].on}

\* ... written, in the place of the text of an open report.
WriteReport(x) ==
    LET text == last + 1
        old == Conflicts(x)
        new == IF old = {} THEN {[id |-> text, by |-> post[x].by, on |-> post[x].on, text |-> text, open |-> TRUE]}
               ELSE {[r EXCEPT !.text = text] : r \in old}
    IN /\ post[x] # NoPost /\ text <= LastText
       /\ reports' = (reports \ old) \union new
       /\ last' = text
       /\ waiting' = (waiting \ {r.text : r \in old}) \union {text}
       /\ post' = [post EXCEPT ![x] = NoPost]
       /\ UNCHANGED <<attempted, page, audited>>

\* detail: a reviewer opens a question.
OpenPage(v, q) ==
    /\ page' = [page EXCEPT ![v] = {r.id : r \in {o \in OpenReports : o.on = q}}]
    /\ UNCHANGED <<reports, attempted, post, last, waiting, audited>>

\* resolve: whatever its text is now, unless another reviewer was first.
Resolve(v, r) ==
    /\ r.id \in page[v] /\ r.open
    /\ reports' = (reports \ {r}) \union {[r EXCEPT !.open = FALSE]}
    /\ waiting' = waiting \ {r.text}
    /\ audited' = audited \union {<<r.id, r.text>>}
    /\ UNCHANGED <<attempted, post, page, last>>

\* An account's deletion takes its attempts along and its name off its reports; a request under way fails.
DeleteAuthor(p) ==
    /\ reports' = {IF r.by = p THEN [r EXCEPT !.by = Former] ELSE r : r \in reports}
    /\ attempted' = [attempted EXCEPT ![p] = {}]
    /\ post' = [x \in Posts |-> IF post[x].by = p THEN NoPost ELSE post[x]]
    /\ UNCHANGED <<page, last, waiting, audited>>

ReportsNext ==
    \/ \E x \in Posts : WriteReport(x) \/ \E p \in Players, q \in Reported : AskReport(x, p, q)
    \/ \E v \in Reviewers : (\E q \in Reported : OpenPage(v, q)) \/ \E r \in reports : Resolve(v, r)
    \/ \E p \in Players : DeleteAuthor(p) \/ \E q \in Reported : Attempts(p, q)

ReportsSpec == ReportsInit /\ [][ReportsNext]_reportVars

-------------------------------------------------------------------------------
(* Properties                                                              *)

ReportsTypeOK ==
    /\ reports \subseteq Report /\ attempted \in [Players -> SUBSET Reported]
    /\ post \in [Posts -> {NoPost} \union [by : Players, on : Reported]]
    /\ page \in [Reviewers -> SUBSET (1 .. LastText)] /\ last \in 0 .. LastText
    /\ waiting \subseteq 1 .. LastText

\* What a player reports stays in the reviewers' queue until one handles it or the player replaces it; what
\* was handled stays as the log has it; and a player has one open report of a question, and no more in all than
\* MAX_OPEN_REPORTS and the requests that were under way (review.py: "One open report per player and question").
ReportsWait ==
    /\ waiting = {r.text : r \in OpenReports}
    /\ audited = {<<r.id, r.text>> : r \in reports \ OpenReports}
    /\ \A p \in Players :
          /\ \A r, s \in OpenOf(p) : r.on = s.on => r = s
          /\ Cardinality(OpenOf(p)) < MaxOpenReports + Cardinality(Posts)
===============================================================================
