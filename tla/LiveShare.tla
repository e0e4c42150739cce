------------------------------- MODULE LiveShare -------------------------------
(***************************************************************************)
(* Sharing the XP of a live quiz (share and _share in services/live.py)    *)
(* while the session goes on and accounts are deleted.                     *)
(*                                                                         *)
(* A sharer is a request's background task, a worker's event stream or the *)
(* nightly job.  It lists the answers it may share, then takes one table's *)
(* answer per transaction: it locks the answer's row (skipping one that    *)
(* somebody holds), reads who already has an attempt at the question, and  *)
(* locks, scores and records the answer's members one by one.  Nothing of  *)
(* a transaction shows before its commit, and a crash undoes it.  The      *)
(* deletion of a player runs step by step too, because it holds the        *)
(* account's row while it waits for the rows of answers, and the other way *)
(* round for a sharer.                                                     *)
(*                                                                         *)
(* The session itself is LiveSession's: a step here is one of its steps or *)
(* a step of a sharer or of a deletion.                                    *)
(***************************************************************************)
EXTENDS LiveSession, Sequences

CONSTANTS
    Sharers,        \* the processes that share
    Nightly,        \* the one among them that runs every night
    MaxCrashes,     \* bound: how many transactions are lost to a crash
    NoAnswer        \* a sharer between two answers

ASSUME SharersAssumption ==
    /\ Nightly \in Sharers
    /\ MaxCrashes \in Nat
    /\ NoAnswer \notin Questions \X Tables

\* The primary key of live_answers within the session: <<position, table>>.
Answers == Questions \X Tables

VARIABLES
    members,    \* live_answers.member_ids
    sent,       \* the answers in the order of submitted_at
    granted,    \* live_answers.granted
    attempts,   \* the attempts of mode live that are committed
    queue,      \* for each sharer, the answers of its list that it has not come to
    taken,      \* the answer whose row its transaction holds
    scored,     \* who had an attempt at the question when it looked
    todo,       \* the answer's members that it has not come to
    written,    \* the attempts it has written and not committed; it holds their players' rows
    leaver,     \* the account whose deletion holds its row and the admin lock, NoUser without one
    scrubbing,  \* that deletion is taking the account off the lists of answers
    listed,     \* the answers that list it, as that update saw them when it began
    scrubbed,   \* those whose rows the deletion holds by now
    crashes     \* transactions lost to a crash

rows    == <<members, sent, granted, attempts>>
locals  == <<queue, taken, scored, todo, written>>
removal == <<leaver, scrubbing, listed, scrubbed>>
shareVars == <<rows, locals, removal, crashes>>
allVars == <<vars, shareVars>>

\* What TLC tells states apart by.  No guard reads `sent`, and once the quiz is over none reads who
\* sat where or who still owes a follow-up.
shareView == <<members, granted, attempts, locals, removal, crashes,
               IF state = "finished" THEN <<accounts, config, answered>> ELSE view>>

Attempt == [user : Users, question : Questions, table : Tables, repeat : BOOLEAN]

Answered == {k \in Answers : k[2] \in answered[k[1]]}

\* The order of share's list.
Before(j, k) == j[1] < k[1] \/ (j[1] = k[1] /\ j[2] < k[2])

-------------------------------------------------------------------------------
(* Locks                                                                   *)

HeldBySharer(k) == \E p \in Sharers : taken[p] = k
HeldByDeletion(k) == k \in scrubbed

\* The players whose rows a sharer's transaction holds (xp.lock, FOR NO KEY UPDATE).
Holds(p) == {a.user : a \in written[p]}

PlayerFree(u) == u # leaver /\ \A p \in Sharers : u \notin Holds(p)

-------------------------------------------------------------------------------
(* The session's own steps                                                 *)

\* A foreign key to an account holds its row (FOR KEY SHARE), so no captain is named and nobody
\* joins, proposes or answers while that account is being deleted.
AccountsFree ==
    leaver # NoUser =>
        /\ \A t \in Tables : captain'[t] = leaver => captain[t] = leaver
        /\ player'[leaver] = "in" => player[leaver] # "out"

\* A handler that neither answers nor deletes a player.
Handler ==
    /\ \/ \E c \in Configs : Create(c) \/ Configure(c)
       \/ \E u \in Users : Join(u) \/ Remove(u) \/ (u # leaver /\ Propose(u))
       \/ Seat \/ SeatBySubdepartment
       \/ \E u \in Users, t \in Tables \union {NoTable} : Move(u, t)
       \/ \E t \in Tables, u \in Users \union {NoUser} : EditTable(t, u)
       \/ Refetch \/ (\E seen \in Stages : Advance(seen)) \/ End \/ FinishAbandoned
       \/ Tick \/ NoticeExpiry \/ CloseExpired \/ CloseLate
       \/ \E u \in Users : AfterDeletion(u) \/ LoseFollowUp(u)
       \/ DeleteHost \/ LookForHosted \/ DeleteHostAsLookedUp
    /\ AccountsFree
    /\ UNCHANGED shareVars

\* answer: the answer's row lists the people seated at the table as the request sees them, so one
\* whose deletion has not committed is among them.
AnswerAndList(u, t) ==
    /\ u # leaver
    /\ Answer(u, t)
    /\ members' = [members EXCEPT ![<<position, t>>] = {v \in Users : seat[v] = t}]
    /\ sent' = Append(sent, <<position, t>>)
    /\ UNCHANGED <<granted, attempts, locals, removal, crashes>>

-------------------------------------------------------------------------------
(* share                                                                   *)

\* share, line 124: the result of the question is out, in a quiz that shows it after each one.
ResultOut(q) == q < position + (IF state = "closed" THEN 1 ELSE 0)

\* A slip: a rehearsal's answers are not shared after its end either.
NeverInARehearsal(q) == config.feedback = "each" /\ (state = "finished" \/ ResultOut(q))

\* A slip: a rehearsal shares after each question.
EvenInARehearsal(q) == state = "finished" \/ ResultOut(q)

\* share, lines 121 to 124: a rehearsal waits for its end.
MayBeKnown(q) ==
    state = "finished" \/ (config.feedback = "each" /\ ResultOut(q))

Pending == {k \in Answered \ granted : MayBeKnown(k[1])}

\* share lists what it may share.
ListPending(p) ==
    /\ state # "none"
    /\ queue[p] = {} /\ taken[p] = NoAnswer
    /\ Pending # {}
    /\ queue' = [queue EXCEPT ![p] = Pending]
    /\ UNCHANGED <<vars, rows, taken, scored, todo, written, removal, crashes>>

IsNext(p, k) == k \in queue[p] /\ \A j \in queue[p] : j = k \/ Before(k, j)

\* The condition of the locking read, checked again on the row as it is now.
AlreadyGranted(k) == k \in granted

\* SKIP LOCKED, or shared by someone else since the list was made.
SkipAnswer(p, k) ==
    /\ taken[p] = NoAnswer
    /\ IsNext(p, k)
    /\ AlreadyGranted(k) \/ HeldBySharer(k) \/ HeldByDeletion(k)
    /\ queue' = [queue EXCEPT ![p] = @ \ {k}]
    /\ UNCHANGED <<vars, rows, taken, scored, todo, written, removal, crashes>>

\* The row is locked and _share begins: who has an attempt at this question of this session?
TakeAnswer(p, k) ==
    /\ taken[p] = NoAnswer
    /\ IsNext(p, k)
    /\ ~AlreadyGranted(k) /\ ~HeldBySharer(k) /\ ~HeldByDeletion(k)
    /\ queue' = [queue EXCEPT ![p] = @ \ {k}]
    /\ taken' = [taken EXCEPT ![p] = k]
    /\ scored' = [scored EXCEPT ![p] = {a.user : a \in {b \in attempts : b.question = k[1]}}]
    /\ todo' = [todo EXCEPT ![p] = members[k]]
    /\ UNCHANGED <<vars, rows, written, removal, crashes>>

\* A slip: players are locked in whatever order the list has them.
InAnyOrder(p, u) == u \in todo[p]

\* _share goes through member_ids, which answer sorted by id.
NextMember(p, u) == u \in todo[p] /\ \A v \in todo[p] : u <= v

\* Already scored for this question, or the account is gone.
SkipPlayer(p, u) ==
    /\ taken[p] # NoAnswer
    /\ NextMember(p, u)
    /\ u \in scored[p] \/ u \notin accounts
    /\ todo' = [todo EXCEPT ![p] = @ \ {u}]
    /\ UNCHANGED <<vars, rows, queue, taken, scored, written, removal, crashes>>

\* A slip: a repeat is decided by what was read before the player's lock.
SeenWhenListed(p, u) == u \in scored[p]

\* xp.last_seen, under the player's lock: a graded attempt at the question is committed.
Repeat(p, u) == \E a \in attempts : a.user = u /\ a.question = taken[p][1]

\* The player's row is locked, the answer scored by xp.grant and the attempt written.
ScorePlayer(p, u) ==
    /\ taken[p] # NoAnswer
    /\ NextMember(p, u)
    /\ u \notin scored[p] /\ u \in accounts
    /\ PlayerFree(u)
    /\ written' = [written EXCEPT ![p] = @ \union
           {[user |-> u, question |-> taken[p][1], table |-> taken[p][2], repeat |-> Repeat(p, u)]}]
    /\ todo' = [todo EXCEPT ![p] = @ \ {u}]
    /\ UNCHANGED <<vars, rows, queue, taken, scored, removal, crashes>>

\* What ends a transaction of p, committed or not.
Release(p) ==
    /\ taken' = [taken EXCEPT ![p] = NoAnswer]
    /\ scored' = [scored EXCEPT ![p] = {}]
    /\ todo' = [todo EXCEPT ![p] = {}]
    /\ written' = [written EXCEPT ![p] = {}]

\* A slip: the commit comes after the first member.
FirstMemberDone(p) == todo[p] # members[taken[p]]

AllMembersDone(p) == todo[p] = {}

CommitShare(p) ==
    /\ taken[p] # NoAnswer
    /\ AllMembersDone(p)
    /\ granted' = granted \union {taken[p]}
    /\ attempts' = attempts \union written[p]
    /\ Release(p)
    /\ UNCHANGED <<vars, members, sent, queue, removal, crashes>>

\* The transaction is undone and the sharer gives up: its task fails, the nightly job tries again.
Rollback(p) ==
    /\ queue' = [queue EXCEPT ![p] = {}]
    /\ Release(p)
    /\ UNCHANGED <<vars, rows, removal>>

CrashShare(p) ==
    /\ crashes < MaxCrashes
    /\ queue[p] # {} \/ taken[p] # NoAnswer
    /\ crashes' = crashes + 1
    /\ Rollback(p)

-------------------------------------------------------------------------------
(* Deleting a player, step by step                                         *)

\* _lock: the admin lock, which one deletion at a time holds, and the account's row, FOR UPDATE.
LockAccount(u) ==
    /\ leaver = NoUser
    /\ u \in accounts /\ u # Host
    /\ PlayerFree(u)
    /\ leaver' = u
    /\ UNCHANGED <<vars, rows, locals, scrubbing, listed, scrubbed, crashes>>

\* A slip: the update has no condition, and takes the rows of all answers.
EveryAnswer(u) == Answered

\* The update's condition: member_ids contains the account.
AnswersThatList(u) == {k \in Answered : u \in members[k]}

\* _delete: the update that takes the account off the lists of answers begins; it finds the answers
\* that are there by now.
StartScrub ==
    /\ leaver # NoUser /\ ~scrubbing
    /\ scrubbing' = TRUE
    /\ listed' = AnswersThatList(leaver)
    /\ UNCHANGED <<vars, rows, locals, leaver, scrubbed, crashes>>

\* It locks and changes one row after another, waiting for those that somebody holds.
ScrubRow(k) ==
    /\ k \in listed \ scrubbed
    /\ ~HeldBySharer(k)
    /\ scrubbed' = scrubbed \union {k}
    /\ UNCHANGED <<vars, rows, locals, leaver, scrubbing, listed, crashes>>

EndDeletion ==
    /\ leaver' = NoUser
    /\ scrubbing' = FALSE
    /\ listed' = {} /\ scrubbed' = {}

\* The account's row goes, and with it the attempts (ON DELETE CASCADE) and the seat.
CommitDeletion ==
    /\ scrubbing /\ scrubbed = listed
    /\ DeletePlayer(leaver)
    /\ members' = [k \in Answers |-> IF k \in listed THEN members[k] \ {leaver} ELSE members[k]]
    /\ attempts' = {a \in attempts : a.user # leaver}
    /\ EndDeletion
    /\ UNCHANGED <<sent, granted, locals, crashes>>

CrashDeletion ==
    /\ crashes < MaxCrashes
    /\ leaver # NoUser
    /\ crashes' = crashes + 1
    /\ EndDeletion
    /\ UNCHANGED <<vars, rows, locals>>

-------------------------------------------------------------------------------
(* Waiting for locks                                                       *)

\* p has come to a player whose row somebody else holds.
AwaitsPlayer(p, u) ==
    taken[p] # NoAnswer /\ NextMember(p, u) /\ u \notin scored[p] /\ ~PlayerFree(u)

\* A deletion waits for the row of an answer that one of these sharers holds, while each of them
\* waits for a player that the deletion or another of them holds.
LockCycle(ps) ==
    /\ \E p \in ps : taken[p] \in listed \ scrubbed
    /\ \A p \in ps : \/ AwaitsPlayer(p, leaver)
                    \/ \E q \in ps : \E u \in Holds(q) : AwaitsPlayer(p, u)

\* PostgreSQL breaks a cycle by undoing one of its transactions.
BreakCycle(ps) ==
    /\ LockCycle(ps)
    /\ \A qs \in SUBSET ps : LockCycle(qs) => qs = ps
    /\ \/ \E p \in ps : Rollback(p)
       \/ EndDeletion /\ UNCHANGED <<vars, rows, locals>>
    /\ UNCHANGED crashes

-------------------------------------------------------------------------------
NobodyShares ==
    /\ queue = [p \in Sharers |-> {}]
    /\ taken = [p \in Sharers |-> NoAnswer]
    /\ scored = [p \in Sharers |-> {}]
    /\ todo = [p \in Sharers |-> {}]
    /\ written = [p \in Sharers |-> {}]
    /\ crashes = 0

NobodyIsDeleted ==
    /\ leaver = NoUser /\ scrubbing = FALSE
    /\ listed = {} /\ scrubbed = {}

ShareInit ==
    /\ members = [k \in Answers |-> {}]
    /\ sent = <<>>
    /\ granted = {} /\ attempts = {}
    /\ NobodyShares
    /\ NobodyIsDeleted

ShareStep(p) ==
    \/ ListPending(p) \/ CommitShare(p)
    \/ \E k \in Answers : SkipAnswer(p, k) \/ TakeAnswer(p, k)
    \/ \E u \in Users : SkipPlayer(p, u) \/ ScorePlayer(p, u)

DeletionStep == StartScrub \/ (\E k \in Answers : ScrubRow(k)) \/ CommitDeletion

LiveNext ==
    \/ Handler
    \/ \E u \in Users, t \in Tables : AnswerAndList(u, t)
    \/ \E p \in Sharers : ShareStep(p) \/ CrashShare(p)
    \/ \E u \in Users : LockAccount(u)
    \/ DeletionStep \/ CrashDeletion
    \/ \E ps \in SUBSET Sharers : BreakCycle(ps)

LiveSpec == Init /\ ShareInit /\ [][LiveNext]_allVars

\* The nightly job ends abandoned sessions and shares what is left; a transaction goes on while it
\* can, and gets a row it keeps waiting for, as PostgreSQL serves those who wait before those who
\* come later; a deadlock is found and broken.  Nothing is assumed of the host, the captains or the
\* streams.
Fairness ==
    /\ WF_allVars(FinishAbandoned /\ UNCHANGED shareVars)
    /\ WF_allVars(ListPending(Nightly))
    /\ WF_allVars(\E ps \in SUBSET Sharers : BreakCycle(ps))
    /\ \A p \in Sharers :
           /\ WF_allVars(CommitShare(p))
           /\ WF_allVars(\E k \in Answers : SkipAnswer(p, k) \/ TakeAnswer(p, k))
           /\ \A u \in Users : SF_allVars(SkipPlayer(p, u) \/ ScorePlayer(p, u))
    /\ WF_allVars(StartScrub \/ CommitDeletion)
    /\ \A k \in Answers : SF_allVars(ScrubRow(k))

FairLiveSpec == LiveSpec /\ Fairness

-------------------------------------------------------------------------------
(* Properties                                                              *)

\* Types; a deletion takes the rows of answers that were sent and list its account, and no others.
ShareTypeOK ==
    /\ members \in [Answers -> SUBSET Users]
    /\ sent \in Seq(Answers)
    /\ granted \subseteq Answers
    /\ attempts \subseteq Attempt
    /\ queue \in [Sharers -> SUBSET Answers]
    /\ taken \in [Sharers -> Answers \union {NoAnswer}]
    /\ scored \in [Sharers -> SUBSET Users]
    /\ todo \in [Sharers -> SUBSET Users]
    /\ written \in [Sharers -> SUBSET Attempt]
    /\ leaver \in Users \union {NoUser}
    /\ scrubbing \in BOOLEAN
    /\ listed \subseteq {k \in Answered : leaver \in members[k]} /\ scrubbed \subseteq listed
    /\ crashes \in 0 .. MaxCrashes

\* XP moves for a question only once its result is known: after it closed in a quiz that shows
\* results after each one, after the end in a rehearsal.
XpFollowsTheResult ==
    \A a \in attempts :
        \/ state = "finished"
        \/ config.feedback = "each" /\ a.question < position
        \/ config.feedback = "each" /\ a.question = position /\ state = "closed"

\* However many sharers run at once, crash or repeat each other's work, nobody is paid the full XP
\* of a question twice: another attempt at it is a repeat.
FullXpOnce ==
    \A a, b \in attempts :
        a.user = b.user /\ a.question = b.question /\ ~a.repeat /\ ~b.repeat => a = b

\* An answer marked as shared has reached every member who still has an account: a crash, a lost
\* race or a deletion in the middle of it forgets nobody.
NobodyIsForgotten ==
    \A k \in granted : \A u \in members[k] \intersect accounts :
        \E a \in attempts : a.user = u /\ a.question = k[1]

\* Sharers never wait for one another in a circle: they lock players in the same order.
SharersNeverDeadlock ==
    \A p, q \in Sharers :
        p # q => ~((\E u \in Holds(q) : AwaitsPlayer(p, u)) /\ (\E u \in Holds(p) : AwaitsPlayer(q, u)))

\* Every answer's XP goes out in the end, although the host may leave the session open, and sharers
\* and deletions may crash or be undone.
EveryAnswerIsShared ==
    \A k \in Answers : (k \in Answered) ~> (k \in granted)

\* tests/api/test_live.py, line 648: a player moved to another table mid-question is scored once.
ScoredOnce ==
    \A a, b \in attempts : a.user = b.user /\ a.question = b.question => a = b

\* Not so (README, section 4): a player moved mid-question is scored for their first table only
\* (docs/game-rules.md:339).
FirstTableCounts ==
    \A a \in attempts :
        \E i \in DOMAIN sent :
            /\ sent[i] = <<a.question, a.table>>
            /\ \A j \in 1 .. i - 1 : ~(sent[j][1] = a.question /\ a.user \in members[sent[j]])

\* Not so: deleting an account and answering or sharing take their locks in one order
\* (docs/architecture.md:191).
NoLockCycle ==
    \A ps \in SUBSET Sharers : ~LockCycle(ps)

\* Not so: a deleted account leaves the lists of who shared a table's XP (privacy._delete).
DeletedLeaveTheLists ==
    \A k \in Answers : members[k] \subseteq accounts
===============================================================================
