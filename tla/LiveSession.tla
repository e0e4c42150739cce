------------------------------ MODULE LiveSession ------------------------------
(***************************************************************************)
(* One live quiz session (services/live.py): the lobby and its seating,    *)
(* the captains, the host's one button, the captains' answers, the clock,  *)
(* and the deletion of accounts that take part.                            *)
(*                                                                         *)
(* Every handler locks the session's row first (_session(lock=True)) and   *)
(* commits once, so a handler is one action.  What runs without that lock  *)
(* is split where another transaction can come between: the expiry that a  *)
(* poll notices and closes later, the deletion of an account and its       *)
(* follow-up, and the deletion of a host and the sessions it looked up.    *)
(*                                                                         *)
(* Texts, names, topics and marks are left out.  Routing by topic is the   *)
(* choice of any line-up of tables with a captain: when every table owns   *)
(* topics of its own, each of those is what domain/live.py's route gives   *)
(* for some questions.  A rank is fixed for the session: live answers      *)
(* never move it.                                                          *)
(***************************************************************************)
EXTENDS Integers, FiniteSets

CONSTANTS
    Users,          \* account ids
    Host,           \* the account that creates the session
    Tables,         \* table ids
    NumQuestions,   \* how many questions _pick finds for the settings
    RankPoints,     \* each account's rank points
    Department,     \* the table of each account's first sub-department
    Configs,        \* the settings a host may choose
    NoUser,         \* a table without a captain, a session without a host
    NoTable         \* nobody's seat; a question that every table answers

Config == [routing : {"all", "owners"}, timed : BOOLEAN, feedback : {"each", "end"}]

Questions == 0 .. NumQuestions - 1

\* rules.captain compares (rank points, -id).
AtLeast(u, v) ==
    \/ RankPoints[u] > RankPoints[v]
    \/ RankPoints[u] = RankPoints[v] /\ u <= v

ASSUME IdsAssumption ==
    /\ Users \subseteq Nat /\ IsFiniteSet(Users) /\ Tables \subseteq Nat
    /\ Host \in Users
    /\ NoUser \notin Users /\ NoTable \notin Tables

ASSUME SettingsAssumption ==
    /\ NumQuestions \in Nat \ {0}
    /\ Configs \subseteq Config /\ Configs # {}
    /\ RankPoints \in [Users -> Nat]
    /\ Department \in [Users -> Tables]

VARIABLES
    accounts,   \* accounts that exist (users)
    state,      \* live_sessions.state, "none" before the session is created
    host,       \* live_sessions.host_id
    config,     \* live_sessions.config
    position,   \* live_sessions.position
    version,    \* live_sessions.version
    clock,      \* the open question's deadline and grace: "off", "running" or "passed"
    player,     \* live_players: "out" (no row), "in" or "removed"
    seat,       \* live_players.table_id
    tables,     \* the live_tables rows
    captain,    \* live_tables.captain_id
    proposals,  \* live_tables.proposals
    lineup,     \* live_questions.table_id of each question
    answered,   \* the tables with a live_answers row, for each question
    screen,     \* the latest step that the host's screens have shown
    noticed,    \* a poll has read that the open question's time is over
    leaving,    \* the host's deletion has looked for sessions to finish and found none
    owed,       \* deleted accounts whose after_deletion has not run
    lost        \* a crash lost an after_deletion

vars == <<accounts, state, host, config, position, version, clock, player, seat, tables, captain,
          proposals, lineup, answered, screen, noticed, leaving, owed, lost>>

\* Everything but the two counters, which no guard reads: what TLC tells states apart by.
view == <<accounts, state, host, config, position, clock, player, seat, tables, captain, lineup,
          answered, screen, noticed, leaving, owed, lost>>

people   == <<player, seat, tables, captain>>
progress == <<state, position, clock, lineup, answered>>
deletion == <<accounts, host, leaving, owed, lost>>

Unfinished == state \in {"lobby", "open", "closed"}
Touch == version' = version + 1

-------------------------------------------------------------------------------
(* Rules and helpers                                                       *)

\* The steps of a session in order, as AdvanceIn's (state, position) names them: 0 in the lobby,
\* 2p + 1 while question p is open, 2p + 2 once it is closed.
Stage == 2 * position + (IF state = "open" THEN 1 ELSE 2)
Stages == 0 .. 2 * NumQuestions

\* _players: those the host has not removed.
Players == {u \in Users : player[u] = "in"}

Captained == {t \in tables : captain[t] # NoUser}

\* rules.captain: the best-ranked of these people, nobody for an empty table.
Best(members) ==
    IF members = {} THEN NoUser
    ELSE CHOOSE u \in members : \A v \in members : AtLeast(u, v)

\* A slip: a table that lost its captain is left without one.
RecaptainNobody(captains, seats, ts) == captains

\* _recaptain: each of these tables that has no captain gets its best-ranked member.
Recaptain(captains, seats, ts) ==
    [t \in Tables |-> IF t \in ts /\ captains[t] = NoUser
                      THEN Best({u \in Users : seats[u] = t})
                      ELSE captains[t]]

\* A slip: whoever leaves stays the captain.
KeepCaptaincies(u, except) == captain

\* The captaincies of someone who leaves: cleared everywhere but at one table.
StripCaptain(u, except) ==
    [t \in Tables |-> IF captain[t] = u /\ t # except THEN NoUser ELSE captain[t]]

\* The tables that must answer the current question before it closes by itself.
Expected ==
    IF lineup[position] # NoTable THEN {lineup[position]} ELSE Captained

AllAnswered(answers) == Expected \subseteq answers[position]

\* A request carries the time at which it arrived, which may be before the deadline although the
\* request is handled after it: one that is late may or may not see that it is.
MayBeInTime == state = "open"
IsLate == state = "open" /\ clock = "passed"

StopClock == clock' = "off"
StartClock == clock' = IF config.timed THEN "running" ELSE "off"

CloseQuestion ==
    /\ state' = "closed"
    /\ StopClock
    /\ Touch
    /\ UNCHANGED position

OpenQuestion(p) ==
    /\ state' = "open"
    /\ position' = p
    /\ StartClock
    /\ Touch

Finish ==
    /\ state' = "finished"
    /\ StopClock
    /\ Touch
    /\ UNCHANGED position

-------------------------------------------------------------------------------
(* Creation and the lobby                                                  *)

Init ==
    /\ accounts = Users
    /\ state = "none" /\ position = -1 /\ version = 0 /\ clock = "off"
    /\ host = NoUser
    /\ config = CHOOSE c \in Configs : TRUE
    /\ player = [u \in Users |-> "out"]
    /\ seat = [u \in Users |-> NoTable]
    /\ tables = {}
    /\ captain = [t \in Tables |-> NoUser]
    /\ proposals = [t \in Tables |-> 0]
    /\ lineup = [q \in Questions |-> NoTable]
    /\ answered = [q \in Questions |-> {}]
    /\ screen = 0
    /\ noticed = FALSE /\ leaving = FALSE
    /\ owed = {} /\ lost = FALSE

\* create: the host's account still exists (the row's foreign key).
Create(c) ==
    /\ state = "none"
    /\ Host \in accounts
    /\ state' = "lobby"
    /\ host' = Host
    /\ config' = c
    /\ UNCHANGED <<accounts, position, version, clock, people, proposals, lineup, answered,
                   screen, noticed, leaving, owed, lost>>

\* join: refused to someone the host removed; the host does not play; joining again changes nothing.
Join(u) ==
    /\ Unfinished
    /\ u \in accounts /\ u # host
    /\ player[u] = "out"
    /\ player' = [player EXCEPT ![u] = "in"]
    /\ Touch
    /\ UNCHANGED <<deletion, config, progress, seat, tables, captain, proposals, screen, noticed>>

\* configure
Configure(c) ==
    /\ state = "lobby"
    /\ config' = c
    /\ Touch
    /\ UNCHANGED <<deletion, progress, people, proposals, screen, noticed>>

\* The end of seat: new tables replace the old ones, and each gets the captain the host picked or
\* its best-ranked member.
Reseat(ts, seats, picked) ==
    /\ tables' = ts
    /\ seat' = seats
    /\ captain' = [t \in Tables |-> IF t \notin ts THEN NoUser
                                    ELSE IF picked[t] # NoUser THEN picked[t]
                                    ELSE Best({u \in Users : seats[u] = t})]
    /\ proposals' = [t \in Tables |-> 0]
    /\ Touch
    /\ UNCHANGED <<deletion, config, progress, player, screen, noticed>>

\* seat: any tables made of players who were not removed, each player at one table at most, the
\* picked captains among their table's members.  The ids are new; no row refers to the old ones.
Seat ==
    /\ state = "lobby"
    /\ \E ts \in SUBSET Tables :
       \E places \in [Players -> ts \union {NoTable}], picked \in [ts -> Players \union {NoUser}] :
           /\ \A t \in ts : picked[t] # NoUser => places[picked[t]] = t
           /\ Reseat(ts, [u \in Users |-> IF u \in Players THEN places[u] ELSE NoTable], picked)

\* seat_by_subdepartment: everyone at the table of their first sub-department.
SeatBySubdepartment ==
    LET seats == [u \in Users |-> IF player[u] = "in" THEN Department[u] ELSE NoTable]
    IN  /\ state = "lobby"
        /\ Reseat({seats[u] : u \in Players}, seats, [t \in Tables |-> NoUser])

-------------------------------------------------------------------------------
(* People, at any time before the end                                      *)

\* move: seat, move or unseat one player.
Move(u, t) ==
    LET seats == [seat EXCEPT ![u] = t]
    IN  /\ Unfinished
        /\ player[u] = "in"
        /\ t \in tables \union {NoTable}
        /\ seat' = seats
        /\ captain' = Recaptain(StripCaptain(u, t), seats, {seat[u], t})
        /\ Touch
        /\ UNCHANGED <<deletion, config, progress, player, tables, proposals, screen, noticed>>

\* edit_table: a name only (NoUser) or a captain who sits there.
EditTable(t, u) ==
    /\ Unfinished
    /\ t \in tables
    /\ u # NoUser => player[u] = "in" /\ seat[u] = t
    /\ captain' = IF u = NoUser THEN captain ELSE [captain EXCEPT ![t] = u]
    /\ Touch
    /\ UNCHANGED <<deletion, config, progress, player, seat, tables, proposals, screen, noticed>>

\* remove: remembered, so that joining again is refused.
Remove(u) ==
    LET seats == [seat EXCEPT ![u] = NoTable]
    IN  /\ Unfinished
        /\ player' = [player EXCEPT ![u] = IF @ = "out" THEN "out" ELSE "removed"]
        /\ seat' = seats
        /\ captain' = Recaptain(StripCaptain(u, NoTable), seats, {seat[u]})
        /\ Touch
        /\ UNCHANGED <<deletion, config, progress, tables, proposals, screen, noticed>>

-------------------------------------------------------------------------------
(* The host's button                                                       *)

\* The host's screen, on any of their devices, fetches the state.
Refetch ==
    /\ Unfinished
    /\ screen' = Stage
    /\ UNCHANGED <<deletion, config, progress, version, people, proposals, noticed>>

\* A slip: the step that the screen showed is not looked at.
AnyTap(seen) == TRUE

\* advance, line 491: the step the screen showed when the button was pressed must be the current one.
IsCurrent(seen) == seen = Stage

\* _start: the questions are routed to tables that have a captain, or asked to every table.
Start ==
    /\ state = "lobby"
    /\ Captained # {}
    /\ lineup' \in IF config.routing = "owners" THEN [Questions -> Captained]
                  ELSE [Questions -> {NoTable}]
    /\ OpenQuestion(0)
    /\ UNCHANGED answered

\* advance on an open question: it closes, whether or not its time was over already.
CloseByHost ==
    /\ state = "open"
    /\ CloseQuestion
    /\ UNCHANGED <<lineup, answered>>

\* A slip: off by one after the last question.
OneTooMany == position < NumQuestions

\* advance, line 504: there is a live_questions row after the current one.
HasNext == position + 1 \in Questions

\* advance on a closed question: the next one opens, or the quiz ends.
OpenNextOrFinish ==
    /\ state = "closed"
    /\ IF HasNext THEN OpenQuestion(position + 1) ELSE Finish
    /\ UNCHANGED <<lineup, answered>>

\* advance: `seen` may be any step the screens have shown, in a press that was delayed or doubled.
Advance(seen) ==
    /\ Unfinished
    /\ seen <= screen
    /\ IsCurrent(seen)
    /\ Start \/ CloseByHost \/ OpenNextOrFinish
    /\ UNCHANGED <<deletion, config, people, proposals, screen, noticed>>

\* end
End ==
    /\ Unfinished
    /\ Finish
    /\ UNCHANGED <<deletion, config, lineup, answered, people, proposals, screen, noticed>>

\* finish_abandoned: the nightly job, on a session that is a day old.
FinishAbandoned ==
    /\ Unfinished
    /\ Finish
    /\ UNCHANGED <<deletion, config, lineup, answered, people, proposals, screen, noticed>>

-------------------------------------------------------------------------------
(* The clock                                                               *)

Tick ==
    /\ clock = "running"
    /\ clock' = "passed"
    /\ UNCHANGED <<deletion, config, state, position, version, people, proposals, lineup, answered,
                   screen, noticed>>

\* _close_expired, first half: a poll or a view reads the session without locking it.
NoticeExpiry ==
    /\ IsLate
    /\ noticed' = TRUE
    /\ UNCHANGED <<deletion, config, progress, version, people, proposals, screen>>

\* A slip: an unconditional update closes whatever question is open by then.
AnyOpenQuestion == state = "open"

\* _close_expired, line 236: the conditional update's own condition.
StillExpired == IsLate

\* _close_expired, second half: the conditional update.
CloseExpired ==
    /\ noticed
    /\ noticed' = FALSE
    /\ IF StillExpired
       THEN CloseQuestion
       ELSE UNCHANGED <<state, position, clock, version>>
    /\ UNCHANGED <<deletion, config, lineup, answered, people, proposals, screen>>

\* _running, on a proposal or an answer that sees it is late: it closes the question and is refused.
CloseLate ==
    /\ IsLate
    /\ CloseQuestion
    /\ UNCHANGED <<deletion, config, lineup, answered, people, proposals, screen, noticed>>

-------------------------------------------------------------------------------
(* Answers                                                                 *)

\* A slip: an answer still counts after its question closed.
OpenOrJustClosed == state \in {"open", "closed"}

\* _running: the request found a question open.
Running == MayBeInTime

\* propose: from a seated player to the table that answers.  The version stays, so that only the
\* screens of that table refetch.
Propose(u) ==
    LET target == IF lineup[position] # NoTable THEN lineup[position] ELSE seat[u]
    IN  /\ Running
        /\ u \in accounts
        /\ seat[u] # NoTable
        /\ proposals' = [proposals EXCEPT ![target] = @ + 1]
        /\ UNCHANGED <<deletion, config, progress, version, people, screen, noticed>>

\* answer: the table's captain sends its one answer, and the question closes when none is missing.
Answer(u, t) ==
    LET answers == [answered EXCEPT ![position] = @ \union {t}]
    IN  /\ Running
        /\ u \in accounts
        /\ captain[t] = u
        /\ lineup[position] \in {NoTable, t}
        /\ t \notin answered[position]
        /\ answered' = answers
        /\ IF AllAnswered(answers)
           THEN state' = "closed" /\ StopClock
           ELSE UNCHANGED <<state, clock>>
        /\ Touch
        /\ UNCHANGED <<deletion, config, position, lineup, people, proposals, screen, noticed>>

-------------------------------------------------------------------------------
(* Deleted accounts (services/privacy.py)                                  *)

\* delete_self, delete_user: a player's account goes, with their seat, and their table loses its
\* captain; the session is not locked.  seated_in decides whether a follow-up is due.
DeletePlayer(u) ==
    /\ u \in accounts /\ u # Host
    /\ accounts' = accounts \ {u}
    /\ player' = [player EXCEPT ![u] = "out"]
    /\ seat' = [seat EXCEPT ![u] = NoTable]
    /\ captain' = StripCaptain(u, NoTable)
    /\ owed' = IF Unfinished /\ player[u] # "out" THEN owed \union {u} ELSE owed
    /\ UNCHANGED <<host, config, progress, version, tables, proposals, screen, noticed, leaving,
                   lost>>

\* A slip: the screens are not told of the new captain.
FollowUpWithoutTouch ==
    /\ captain' = Recaptain(captain, seat, {t \in tables : captain[t] = NoUser})
    /\ UNCHANGED version

\* after_deletion's changes to an unfinished session.
FollowUp ==
    /\ captain' = Recaptain(captain, seat, {t \in tables : captain[t] = NoUser})
    /\ Touch

AfterDeletion(u) ==
    /\ u \in owed
    /\ owed' = owed \ {u}
    /\ IF Unfinished THEN FollowUp ELSE UNCHANGED <<captain, version>>
    /\ UNCHANGED <<accounts, host, config, progress, player, seat, tables, proposals, screen,
                   noticed, leaving, lost>>

\* The process stops between the deletion's commit and the follow-up's.
LoseFollowUp(u) ==
    /\ u \in owed
    /\ owed' = owed \ {u}
    /\ lost' = TRUE
    /\ UNCHANGED <<accounts, host, config, progress, version, people, proposals, screen, noticed,
                   leaving>>

\* The host's account goes.  lock_hosted holds an unfinished session until the deletion commits, so
\* the session is finished in the same step.
DeleteHost ==
    /\ Host \in accounts
    /\ state # "none"
    /\ ~leaving
    /\ accounts' = accounts \ {Host}
    /\ host' = NoUser
    /\ IF Unfinished THEN Finish ELSE UNCHANGED <<state, position, clock, version>>
    /\ UNCHANGED <<config, lineup, answered, people, proposals, screen, noticed, leaving, owed, lost>>

\* lock_hosted runs before the session exists: there is nothing to lock or to finish.
LookForHosted ==
    /\ Host \in accounts
    /\ state = "none"
    /\ ~leaving
    /\ leaving' = TRUE
    /\ UNCHANGED <<accounts, host, config, progress, version, people, proposals, screen, noticed,
                   owed, lost>>

\* The same deletion goes on with what it had looked up.
DeleteHostAsLookedUp ==
    /\ leaving
    /\ leaving' = FALSE
    /\ accounts' = accounts \ {Host}
    /\ host' = NoUser
    /\ UNCHANGED <<config, progress, version, people, proposals, screen, noticed, owed, lost>>

-------------------------------------------------------------------------------
Next ==
    \/ \E c \in Configs : Create(c) \/ Configure(c)
    \/ \E u \in Users : Join(u) \/ Remove(u) \/ Propose(u)
    \/ Seat
    \/ SeatBySubdepartment
    \/ \E u \in Users, t \in Tables \union {NoTable} : Move(u, t)
    \/ \E t \in Tables, u \in Users \union {NoUser} : EditTable(t, u)
    \/ Refetch
    \/ \E seen \in Stages : Advance(seen)
    \/ End \/ FinishAbandoned
    \/ Tick \/ NoticeExpiry \/ CloseExpired \/ CloseLate
    \/ \E u \in Users, t \in Tables : Answer(u, t)
    \/ \E u \in Users : DeletePlayer(u) \/ AfterDeletion(u) \/ LoseFollowUp(u)
    \/ DeleteHost \/ LookForHosted \/ DeleteHostAsLookedUp

Spec == Init /\ [][Next]_vars

-------------------------------------------------------------------------------
(* Properties                                                              *)

TypeOK ==
    /\ accounts \subseteq Users
    /\ state \in {"none", "lobby", "open", "closed", "finished"}
    /\ host \in {Host, NoUser}
    /\ config \in Configs
    /\ position \in Questions \union {-1}
    /\ version \in Nat
    /\ clock \in {"off", "running", "passed"}
    /\ player \in [Users -> {"out", "in", "removed"}]
    /\ seat \in [Users -> Tables \union {NoTable}]
    /\ tables \subseteq Tables
    /\ captain \in [Tables -> Users \union {NoUser}]
    /\ proposals \in [Tables -> Nat]
    /\ lineup \in [Questions -> Tables \union {NoTable}]
    /\ answered \in [Questions -> SUBSET Tables]
    /\ screen \in Stages
    /\ noticed \in BOOLEAN /\ leaving \in BOOLEAN /\ lost \in BOOLEAN
    /\ owed \subseteq Users

\* A captain is a player the host has not removed, whose account exists, seated at that very table:
\* answer trusts captain_id alone, so whoever it names must be at the table.
CaptainsSitAtTheirTable ==
    \A t \in Tables : captain[t] # NoUser =>
        captain[t] \in accounts /\ player[captain[t]] = "in" /\ seat[captain[t]] = t

\* A table with people at it has a captain and so can answer, however people were seated, moved,
\* removed or deleted; only a deletion leaves it without one, until its follow-up has run.
SeatedTablesHaveCaptain ==
    Unfinished /\ owed = {} /\ ~lost =>
        \A u \in Users : seat[u] # NoTable => captain[seat[u]] # NoUser

\* A table can answer as long as people sit at it, and only by someone who sits there.
TablesAreLed == CaptainsSitAtTheirTable /\ SeatedTablesHaveCaptain

\* What every screen shows of the session.
Shown == <<state, position, config, people, answered>>

\* Two different rooms never have the same version, which the screens and the room cache compare;
\* the exception is a deletion, whose follow-up moves the version.
ChangesMoveTheVersion ==
    [][Unfinished /\ Shown' # Shown => version' > version \/ owed' \ owed # {}]_vars

\* An open question closes because the host, seeing it, pressed the button, because its time is
\* over, or because every table it was waiting for has answered: never by a press, a poll or an
\* answer meant for an earlier question.
ClosesForAReason ==
    [][state = "open" /\ state' = "closed" =>
           clock = "passed" \/ screen = Stage \/ AllAnswered(answered')]_vars

\* The next question never opens before the host's screen has shown the result of the current one,
\* although presses may be delayed, doubled or come from two devices.
RevealsAreSeen ==
    [][state = "closed" /\ state' = "open" => screen = Stage]_vars

\* Not so (README, section 4): every unfinished session has a host to run it, for deleting a host
\* finishes the sessions they host.
UnfinishedHasHost == Unfinished => host # NoUser

\* The session keeps the promise of LiveFlow.
Flow == INSTANCE LiveFlow WITH state <- IF state = "none" THEN "lobby" ELSE state
ImplementsFlow == Flow!Spec
===============================================================================
