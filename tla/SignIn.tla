-------------------------------- MODULE SignIn --------------------------------
(***************************************************************************)
(* One account's password, lock-out, sign-in sessions and reset links      *)
(* (services/accounts.py, auth/sessions.py, privacy.delete_self).          *)
(*                                                                         *)
(* A password is checked with no transaction open, so each operation that  *)
(* checks one is two actions: what it reads before, and what it does under *)
(* the lock of the account's row until its commit.  A reset takes the row  *)
(* of its link before that of the account, and holds it while it waits.    *)
(***************************************************************************)
EXTENDS Naturals, FiniteSets

CONSTANTS
    Passwords,      \* the passwords anybody types
    First,          \* the one the account starts with
    Sessions,       \* bound: the sign-in sessions that may be opened
    Links,          \* bound: the reset links an admin may issue
    Requests,       \* the requests that work on the account at the same time
    NoSession,      \* a browser without a cookie
    LockAfter       \* wrong passwords in a row that lock the account

ASSUME SignInAssumption ==
    /\ First \in Passwords
    /\ NoSession \notin Sessions
    /\ LockAfter \in Nat \ {0}

VARIABLES
    status,     \* users.status; alumni and disabled accounts are both "inactive"
    password,   \* what users.password_hash was made from
    outdated,   \* and whether it was made with older parameters
    failed,     \* users.failed_logins
    locked,     \* users.locked_until is in the future
    sessions,   \* the rows of `sessions`
    links,      \* the rows of `password_resets`
    request,    \* what each request has read and still has to do
    wrong,      \* history: wrong passwords in a row
    uses        \* history: the passwords set with each link

account == <<status, password, outdated, failed, locked>>
vars == <<account, sessions, links, request, wrong, uses>>

Idle == [step |-> "idle"]

\* What a request carries from its check to its commit.
Checked ==
    [step : {"login", "delete"}, matches : BOOLEAN, guess : Passwords]
        \union [step : {"change"}, matches : BOOLEAN, new : Passwords, keep : Sessions]
        \union [step : {"rehash"}, guess : Passwords, session : Sessions]
        \union [step : {"reset", "held"}, link : Links, new : Passwords]
        \union [step : {"touch"}, session : Sessions]

Open(s) == sessions[s] \in {"fresh", "idle", "expired"}
IsAt(r, step) == request[r].step = step

Done(r) == request' = [request EXCEPT ![r] = Idle]

\* The link's row is locked by another request (open_reset with a lock).
HeldByOther(r, l) == \E q \in Requests \ {r} : IsAt(q, "held") /\ request[q].link = l

\* Closing or deleting the links waits for whoever holds one; they wait for the account.
Blocked(r) == \E l \in Links : links[l] = "open" /\ HeldByOther(r, l)

Init ==
    /\ status = "active" /\ password = First
    /\ outdated \in BOOLEAN
    /\ failed = 0 /\ locked = FALSE
    /\ sessions = [s \in Sessions |-> "none"]
    /\ links = [l \in Links |-> "none"]
    /\ request = [r \in Requests |-> Idle]
    /\ wrong = 0
    /\ uses = [l \in Links |-> 0]

-------------------------------------------------------------------------------
(* What the operations share                                               *)

\* A slip: parallel wrong passwords count once.
RecordFailureOnce ==
    /\ failed' = IF failed = 0 /\ LockAfter > 1 THEN 1 ELSE failed
    /\ UNCHANGED locked
    /\ wrong' = wrong + 1

\* A slip: the count is not started over when the account locks.
RecordAnotherFailure ==
    /\ failed' = failed + 1
    /\ locked' = (failed + 1 >= LockAfter)
    /\ wrong' = wrong + 1

\* after_failed_login: the last of the failures in a row locks, and the count starts over.
RecordFailure ==
    /\ failed' = IF failed + 1 >= LockAfter THEN 0 ELSE failed + 1
    /\ locked' = (failed + 1 >= LockAfter)
    /\ wrong' = wrong + 1

\* link_open.
LinkOpen(l) == links[l] = "open"

\* _close_resets.
CloseResets == [l \in Links |-> IF links[l] = "open" THEN "closed" ELSE links[l]]

\* end_session, end_all_sessions.
Ended(S) == [s \in Sessions |-> IF s \in S /\ Open(s) THEN "ended" ELSE sessions[s]]

\* create_session, after the sessions in S were ended.
Opened(S, s) == [Ended(S) EXCEPT ![s] = "fresh"]

\* A slip: the status is left to the check of the session.
RefusedIfLocked == locked \/ status = "deleted"

\* A slip: the lock is left to what was read before the password was checked.
RefusedIfLeft == status # "active"

\* is_locked and the status, of the row under the lock.
Refused == locked \/ status # "active"

-------------------------------------------------------------------------------
(* Signing in                                                              *)

\* login, before the lock: `guess` is checked against the stored hash.
ReadLogin(r, guess) ==
    /\ IsAt(r, "idle") /\ status # "deleted"
    /\ request' = [request EXCEPT ![r] =
          [step |-> "login", matches |-> guess = password, guess |-> guess]]
    /\ UNCHANGED <<account, sessions, links, wrong, uses>>

RefuseLogin(r) ==
    /\ IsAt(r, "login") /\ Refused
    /\ Done(r)
    /\ UNCHANGED <<account, sessions, links, wrong, uses>>

FailLogin(r) ==
    /\ IsAt(r, "login") /\ ~ Refused /\ ~ request[r].matches
    /\ RecordFailure
    /\ Done(r)
    /\ UNCHANGED <<status, password, outdated, sessions, links, uses>>

\* login returns the token of its session after everything else, the new hash included: until then
\* no browser has it.
HandedOut(s) == \A r \in Requests : IsAt(r, "rehash") => request[r].session # s

\* The session the browser had, `old`, is ended and a new one, s, is opened.  A hash that is outdated
\* is made anew after the commit.
Login(r, old, s) ==
    /\ IsAt(r, "login") /\ ~ Refused /\ request[r].matches
    /\ sessions[s] = "none" /\ s # old /\ HandedOut(old)
    /\ failed' = 0 /\ locked' = FALSE /\ wrong' = 0
    /\ sessions' = Opened({old}, s)
    /\ request' = [request EXCEPT ![r] =
          IF outdated THEN [step |-> "rehash", guess |-> request[r].guess, session |-> s] ELSE Idle]
    /\ UNCHANGED <<status, password, outdated, links, uses>>

\* The new hash is stored whatever the row holds by then.
Rehash(r) ==
    /\ IsAt(r, "rehash")
    /\ IF status = "deleted" THEN UNCHANGED <<password, outdated>>
       ELSE password' = request[r].guess /\ outdated' = FALSE
    /\ Done(r)
    /\ UNCHANGED <<status, failed, locked, sessions, links, wrong, uses>>

Logout(s) ==
    /\ Open(s) /\ HandedOut(s)
    /\ sessions' = Ended({s})
    /\ UNCHANGED <<account, links, request, wrong, uses>>

\* resolve_session: a session that expired is removed on sight.
RemoveExpired(s) ==
    /\ sessions[s] = "expired" /\ HandedOut(s)
    /\ sessions' = Ended({s})
    /\ UNCHANGED <<account, links, request, wrong, uses>>

\* resolve_session of a session last seen a while ago: its row is read, and then touched, unless it
\* was ended meanwhile.
ReadSession(r, s) ==
    /\ IsAt(r, "idle") /\ sessions[s] = "idle" /\ status = "active" /\ HandedOut(s)
    /\ request' = [request EXCEPT ![r] = [step |-> "touch", session |-> s]]
    /\ UNCHANGED <<account, sessions, links, wrong, uses>>

Touch(r) ==
    /\ IsAt(r, "touch")
    /\ LET s == request[r].session IN
       sessions' = [sessions EXCEPT ![s] = IF Open(s) THEN "fresh" ELSE @]
    /\ Done(r)
    /\ UNCHANGED <<account, links, wrong, uses>>

-------------------------------------------------------------------------------
(* A signed-in member changes the password or deletes the account          *)

Resolved(s) == sessions[s] = "fresh" /\ status = "active" /\ HandedOut(s)

ReadChange(r, s, current, new) ==
    /\ IsAt(r, "idle") /\ Resolved(s) /\ ~ locked
    /\ request' = [request EXCEPT ![r] =
          [step |-> "change", matches |-> current = password, new |-> new, keep |-> s]]
    /\ UNCHANGED <<account, sessions, links, wrong, uses>>

ReadDelete(r, s, guess) ==
    /\ IsAt(r, "idle") /\ Resolved(s) /\ ~ locked
    /\ request' = [request EXCEPT ![r] =
          [step |-> "delete", matches |-> guess = password, guess |-> guess]]
    /\ UNCHANGED <<account, sessions, links, wrong, uses>>

\* Under the lock: the account was locked, or is gone.
RefuseCheck(r) ==
    /\ request[r].step \in {"change", "delete"}
    /\ locked \/ status = "deleted"
    /\ Done(r)
    /\ UNCHANGED <<account, sessions, links, wrong, uses>>

FailCheck(r) ==
    /\ request[r].step \in {"change", "delete"}
    /\ ~ locked /\ status # "deleted" /\ ~ request[r].matches
    /\ RecordFailure
    /\ Done(r)
    /\ UNCHANGED <<status, password, outdated, sessions, links, uses>>

ChangePassword(r) ==
    /\ IsAt(r, "change")
    /\ ~ locked /\ status # "deleted" /\ request[r].matches
    /\ ~ Blocked(r)
    /\ password' = request[r].new /\ outdated' = FALSE
    /\ failed' = 0 /\ wrong' = 0
    /\ links' = CloseResets
    /\ sessions' = Ended(Sessions \ {request[r].keep})
    /\ Done(r)
    /\ UNCHANGED <<status, locked, uses>>

\* The sessions and links go with the account.
DeleteSelf(r) ==
    /\ IsAt(r, "delete")
    /\ ~ locked /\ status # "deleted" /\ request[r].matches
    /\ ~ Blocked(r)
    /\ status' = "deleted"
    /\ links' = CloseResets
    /\ sessions' = Ended(Sessions)
    /\ Done(r)
    /\ UNCHANGED <<password, outdated, failed, locked, wrong, uses>>

-------------------------------------------------------------------------------
(* Reset links                                                             *)

\* create_reset, for an admin or the command line.
IssueLink(l) ==
    /\ links[l] = "none" /\ status # "deleted"
    /\ links' = [links EXCEPT ![l] = "open"]
    /\ UNCHANGED <<account, sessions, request, wrong, uses>>

ReadLink(r, l, new) ==
    /\ IsAt(r, "idle") /\ LinkOpen(l)
    /\ request' = [request EXCEPT ![r] = [step |-> "reset", link |-> l, new |-> new]]
    /\ UNCHANGED <<account, sessions, links, wrong, uses>>

\* A slip: the link is not looked at again.
OpenAgain(l) == TRUE

\* open_reset under the lock of the link's row.
StillOpen(l) == LinkOpen(l)

HoldLink(r) ==
    /\ IsAt(r, "reset")
    /\ LET l == request[r].link IN
       /\ ~ HeldByOther(r, l)
       /\ request' = [request EXCEPT ![r] = IF StillOpen(l) THEN [@ EXCEPT !.step = "held"] ELSE Idle]
    /\ UNCHANGED <<account, sessions, links, wrong, uses>>

ResetPassword(r) ==
    /\ IsAt(r, "held") /\ ~ Blocked(r) /\ status # "deleted"
    /\ password' = request[r].new /\ outdated' = FALSE
    /\ failed' = 0 /\ locked' = FALSE /\ wrong' = 0
    /\ links' = CloseResets
    /\ sessions' = Ended(Sessions)
    /\ uses' = [uses EXCEPT ![request[r].link] = @ + 1]
    /\ Done(r)
    /\ UNCHANGED status

\* PostgreSQL ends one of those that wait in a circle: one holds a link and waits for the account,
\* the other has the account and waits for the link.  Nothing it did stays.
BreakDeadlock(r) ==
    /\ \/ /\ request[r].step \in {"change", "delete"}
          /\ ~ locked /\ status # "deleted" /\ request[r].matches
          /\ Blocked(r)
       \/ /\ IsAt(r, "held")
          /\ \E q \in Requests \ {r} :
                \/ IsAt(q, "held")
                \/ request[q].step \in {"change", "delete"} /\ request[q].matches /\ ~ locked
    /\ Done(r)
    /\ UNCHANGED <<account, sessions, links, wrong, uses>>

-------------------------------------------------------------------------------
(* An admin, and time                                                      *)

\* update_user and mark_alumni end every session of an account that leaves the team.
SessionsOfLeaver == Ended(Sessions)

Deactivate ==
    /\ status = "active"
    /\ status' = "inactive"
    /\ sessions' = SessionsOfLeaver
    /\ UNCHANGED <<password, outdated, failed, locked, links, request, wrong, uses>>

Activate ==
    /\ status = "inactive"
    /\ status' = "active"
    /\ UNCHANGED <<password, outdated, failed, locked, sessions, links, request, wrong, uses>>

RevokeSessions ==
    /\ status # "deleted"
    /\ \E s \in Sessions : Open(s)
    /\ sessions' = Ended(Sessions)
    /\ UNCHANGED <<account, links, request, wrong, uses>>

\* LOCK_FOR has passed.
LockEnds ==
    /\ locked
    /\ locked' = FALSE /\ wrong' = 0
    /\ UNCHANGED <<status, password, outdated, failed, sessions, links, request, uses>>

\* session_state: not seen for a while, and too long ago to be valid.
SessionAges(s) ==
    /\ sessions[s] \in {"fresh", "idle"}
    /\ sessions' = [sessions EXCEPT ![s] = IF @ = "fresh" THEN "idle" ELSE "expired"]
    /\ UNCHANGED <<account, links, request, wrong, uses>>

\* Its hours have passed, or the night's job has deleted its row.
LinkExpires(l) ==
    /\ links[l] = "open" /\ \A r \in Requests : ~ (IsAt(r, "held") /\ request[r].link = l)
    /\ links' = [links EXCEPT ![l] = "closed"]
    /\ UNCHANGED <<account, sessions, request, wrong, uses>>

\* purge_expired.
PurgeExpired ==
    /\ \E s \in Sessions : sessions[s] = "expired"
    /\ sessions' = Ended({s \in Sessions : sessions[s] = "expired"})
    /\ UNCHANGED <<account, links, request, wrong, uses>>

Next ==
    \/ \E r \in Requests :
          \/ \E p \in Passwords : ReadLogin(r, p)
          \/ RefuseLogin(r) \/ FailLogin(r) \/ Rehash(r) \/ Touch(r)
          \/ \E old \in Sessions \union {NoSession}, s \in Sessions : Login(r, old, s)
          \/ \E s \in Sessions : ReadSession(r, s)
          \/ \E s \in Sessions, p \in Passwords, new \in Passwords : ReadChange(r, s, p, new)
          \/ \E s \in Sessions, p \in Passwords : ReadDelete(r, s, p)
          \/ RefuseCheck(r) \/ FailCheck(r) \/ ChangePassword(r) \/ DeleteSelf(r)
          \/ \E l \in Links, new \in Passwords : ReadLink(r, l, new)
          \/ HoldLink(r) \/ ResetPassword(r) \/ BreakDeadlock(r)
    \/ \E s \in Sessions : Logout(s) \/ RemoveExpired(s) \/ SessionAges(s)
    \/ \E l \in Links : IssueLink(l) \/ LinkExpires(l)
    \/ Deactivate \/ Activate \/ RevokeSessions \/ LockEnds \/ PurgeExpired

Spec == Init /\ [][Next]_vars

-------------------------------------------------------------------------------
(* Properties                                                              *)

\* The types.
SignInTypeOK ==
    /\ status \in {"active", "inactive", "deleted"}
    /\ password \in Passwords /\ outdated \in BOOLEAN
    /\ failed \in 0 .. LockAfter - 1 /\ locked \in BOOLEAN
    /\ sessions \in [Sessions -> {"none", "fresh", "idle", "expired", "ended"}]
    /\ links \in [Links -> {"none", "open", "closed"}]
    /\ request \in [Requests -> Checked \union {Idle}]
    /\ wrong \in Nat /\ uses \in [Links -> Nat]

\* Every wrong password counts, however many are checked at the same time and whichever of sign-in,
\* password change and deletion asked for it: as many as LockAfter in a row lock, and no fewer do.
GuessesAreCounted == wrong = IF locked THEN LockAfter ELSE failed

\* An account that is not active has no session: none outlives the change, and no sign-in that was
\* under way opens one after it.
LeaversAreSignedOut == status # "active" => \A s \in Sessions : ~ Open(s)

\* A reset link sets one password, though two requests open it at the same time.
ALinkServesOnce == \A l \in Links : uses[l] <= 1

\* While the account is locked no password opens a session, confirms a deletion or is changed, even
\* one that was found right before the lock; a link may still set it.
TheLockHolds ==
    [][locked =>
         /\ \A s \in Sessions : sessions[s] = "none" => sessions'[s] = "none"
         /\ status' = "deleted" => status = "deleted"
         /\ password' # password => uses' # uses \/ \E r \in Requests : IsAt(r, "rehash")]_vars

\* Not so (README, section 4): what the interface promises (docs/api.md:72), that a reset sets a new
\* password; nothing but a reset or a change makes it another.
ThePasswordChosenStands ==
    [][password' # password =>
         \E r \in Requests : request[r].step \in {"change", "held"} /\ request[r].new = password']_vars
===============================================================================
