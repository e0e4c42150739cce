# A verification of IFS-Tests in TLA+

IFS-Tests is the training site of a Formula Student team: daily questions, mock replays of past
quizzes, practice, and live quizzes that a host runs for a room of phones. A FastAPI application
with two worker processes, their thread pools and a nightly scheduler all write to one PostgreSQL
database. There is no in-memory truth: what can go wrong goes wrong between transactions, so the
models take a transaction (or the part of one that other transactions can see) as a step.

This directory holds the TLA+ modules, the TLC configurations that check them on small instances,
and the proofs that TLAPS checks for every instance.

    tlc -config LiveSession.cfg MCLiveSession       # model-check
    tlapm LiveProofs.tla                            # prove

## 1. The system's parts

| Part | Source (under `src/src/ifs_tests/`) | State | Operations | What is hard | What makes it correct |
|---|---|---|---|---|---|
| Live quiz: session | `services/live.py`, `domain/live.py` | `live_sessions`, `live_tables`, `live_players`, `live_questions`, `live_answers`, `live_proposals` | create, join, configure, seat, move, edit_table, remove, advance, end, propose, answer, finish_abandoned | double and delayed presses, a clock nobody watches, people who move, leave or delete their account in the middle | questions in order and one at a time, each result seen; a captain sits at their table; every change reaches the screens |
| Live quiz: sharing XP | `services/live.py` (`share`, `_share`) | `live_answers.granted`, `member_ids`; `attempts` | share, share_pending, after the response, by the stream, by night | several sharers at once, crashes, row locks, deletions | XP once, after the result, for everybody, in the end |
| Live quiz: screens | `services/live.py` (`view`, `_room`), `api/routes/live.py` | `_rooms`, `_watched` (per worker) | view, watch, event stream | cached rooms, two polls of one worker overlapping | a screen is never older than the version it was told of |
| Deleting people | `services/privacy.py` | everything of an account | delete_self, delete_user, mark_alumni, purge, export | touches every table and every lock in the system | nothing left behind, one admin left, no deadlock |
| Daily question | `services/daily.py`, `domain/daily.py` | `daily_questions`, `attempts` | ensure_daily, start, answer, close_expired, review | two tabs, midnight, the grace period, a nightly closer | one try, one score, one question for all |
| Mock quiz | `services/mock.py`, `domain/mock.py` | `mock_sessions`, `attempts` | start, state/advance, answer, end, close_expired, end_stale | two tabs, runs abandoned and resumed | one open run, each question scored once, one counted run a season |
| Practice, hints | `services/practice.py`, `services/hints.py` | `attempts`, `practice_hints`, `attempts.hint_used` | next, answer, hint | a question that is also running elsewhere | no answer leaks to a running question; a hint costs its half |
| Scoring | `services/xp.py`, `domain/xp.py`, `domain/rank.py` | `users.xp`, `rank_points`, `combo`, `miss_streak`, `rested_*` | lock, last_seen, answered_today, grant, recalibrate | every mode scores into one row | full pay once a season for a question |
| Streaks, season | `services/streaks.py`, `services/season.py`, `domain/rank.py`, `domain/daily.py` | `streak_freezes`, `users.streak_freezes`, `rank_season`, `rank_best`, `position_lifts` | settle, nightly, rollover, reposition | nights missed and run twice; the answer, the admin and the night that each may start the season | idempotent, freezes never negative or above two; a season takes its points once |
| Nightly job | `services/maintenance.py`, `scheduler.py` | `last_run` (in memory) | run, tick | one failing step stops the rest until the next night | every step can run again |
| Accounts, sign-in | `services/accounts.py`, `domain/accounts.py`, `auth/` | `users`, `sessions`, `invites`, `password_resets`, `audit_log` | register, login, reset, change, update_user, update_profile, revoke | hashes computed outside the transaction that uses them; names looked up before they are saved | one admin at least; an inactive account has no session; a lock-out counts every guess; a link serves once |
| Question bank | `services/bank.py`, `bank/` | `questions`, `answer_keys`, `answer_options`, `quizzes` | mirror, import_bank, retire, restore | a broken mirror, a reviewer at work meanwhile, questions that come and go | corrections survive, mass changes are held back, what is served has its images and a key |
| Review | `services/review.py` | `questions`, `answer_keys.override`, `reports` | update, set_answer, clear_answer, report, resolve | against the importer, and reviewers and players against each other | what waits for a reviewer stays in a queue; nothing a reviewer did is overruled by the same push |
| Grading, keys | `domain/grading.py`, `domain/hints.py`, `domain/keys.py`, `services/questions.py` | none | check, correction, explain, hint, running | typed answers that read in two ways | what is refused would not have been right; a hint keeps the answer possible |
| Leaderboard | `services/leaderboard.py`, `domain/leaderboard.py` | `_sums` (per worker) | board, verticals | several queries and a cache, while members hide, leave and return | nobody is named who hides; no sum is older than `BOARD_TTL`; places agree |
| HTTP layer, CLI, settings, migrations, web client, deployment | `api/`, `cli.py`, `settings.py`, `src/migrations`, `src/web`, `src/deploy` | none of their own, but for the stream's `_watched` | | | |

How they interact: a request opens a transaction, calls one function of `services/`, which locks,
writes and commits; `api/routes/live.py` adds `share` as a background task of every request that may
have closed a question; each worker's event stream polls `watch`, which closes what ran out, and
starts a share when it sees a question newly closed; the scheduler calls `maintenance.run` once a
night, which closes, ends and shares what people left behind. Row locks (`xp.lock`, `_session`), two
advisory locks (the admins', the daily draw's), conditional updates and partial unique indexes are the
only coordination.

## 2. Modules

| Module | What it is |
|---|---|
| `LiveFlow` | What a live quiz promises a room: questions in order, one at a time, closed before the next, one answer per table while open. Six actions, no people, no clock. |
| `LiveSession` | The session as `services/live.py` runs it, one action per handler, with the deletions of `privacy.py` that reach into it. Implements `LiveFlow`. |
| `Routing` | The rules of a live quiz without state: seating, picking, routing, the lobby's warnings, budgets and points, the tally of the room. |
| `LiveShare` | `LiveSession` composed with the processes that share its XP and with the step-by-step deletion of a player, at the level of row locks. |
| `Screens` | How event streams, the workers' snapshots and cached rooms, and fetches bring a session to the screens. |
| `Play` | One player's daily questions, mock runs and practice: what is asked, what was shown, what an answer pays. |
| `Rank`, `Streaks`, `Awards` | The other parts of a player's row: rank points across seasons and positions; streaks and freezes; hints, first wins and rested XP. |
| `Scoring` | The rules of `domain/xp.py` and `domain/rank.py` for one answer: XP, LP, levels, difficulty. |
| `Leaderboard` | The boards as several requests of one worker read them while members come and go. |
| `SignIn` | One account's password, lock-out, sign-in sessions and reset links. |
| `Accounts`, `Names` | Who has an account, in which role and standing; under which name and address. |
| `Bank` | A question of the bank between what FS-Quiz publishes and the reviewers. |
| `Reports` | The players' reports about questions, and who handles them. |
| `Grading` | Keys, marks, corrections and hints. |
| `MCLiveSession`, `MCLiveShare`, `MCPlay`, `MCSignIn`, `MCAccounts`, `MCBank`, `MCCareer` | Values of the constants for TLC, starting states and bounds. The last three put components side by side that share no variable: a behaviour moves one of them (`part`), and the states are the sum of theirs. |
| `LiveProofs` | The theorems of `LiveSession` and `LiveShare`. |
| `SignInProofs`, `AccountsProofs`, `ReviewProofs`, `PlayProofs`, `ScreensProofs` | The theorems of `SignIn`; of `Accounts` and `Names`; of `Bank`, `Reports` and `Grading`; of `Play`; of `Screens`. |
| `CareerProofs` | The theorems of `Awards`, `Rank`, `Streaks`, `Leaderboard` and `Scoring`, and that `MCCareer` is the four of them. |
| `Sums` | Induction over the natural numbers and sums over finite sets, for the proofs. |

`Routing`, `Scoring` and `Grading` have no variables. What they promise is stated as operators of one
input, and the MC modules assume it (`ASSUME`) of every input of a small set; TLC evaluates those
before a run starts.

### LiveSession

Every handler locks the session's row first and commits once; while it runs no other handler of the
session does, so a handler is one action. Three things run without that lock and are split where
another transaction can come between: a poll that notices an expired question and then closes it with
a conditional update (`NoticeExpiry`, `CloseExpired`); the deletion of a player and its follow-up
(`DeletePlayer`, `AfterDeletion`, and `LoseFollowUp` when the process stops between them); and the
deletion of a host, which looks up the sessions it will finish before it locks the account
(`DeleteHost` when there is a session to lock, `LookForHosted` and `DeleteHostAsLookedUp` when there
is none yet).

The variables are the columns of the six `live_` tables, plus four that are not stored: `clock` (the
deadline and its grace, as running or passed), `screen` (the latest step the host's screens have
fetched), `noticed` and `leaving` (local variables of a poll and of a deletion), and the bookkeeping
`owed` and `lost` of deletions whose follow-up is outstanding or lost.

What is abstracted: texts, names, topics, points and marks; a press of the host's button carries a
step that its screen has shown, in any order and any number of times (the web client always sends
the step, `src/web/src/routes/LiveHost.tsx`; the API would accept a press without it, which checks
nothing and is left out); `now` is the arrival time of a request, which may be before the deadline
although the request is handled after it, so a request that is late may or may not see that it is;
routing by topic is any choice among the tables that have a captain; `_pick` finds `NumQuestions`
questions. Deactivated accounts and an admin who runs another's session change no guard and are left
out, and so is `purge`, which deletes as `delete_user` does but without a follow-up.

### LiveShare

A sharer (a request's background task, a worker's stream, the nightly job) lists the answers it may
share (`ListPending`), then takes one per transaction: it locks the answer's row or skips it
(`TakeAnswer`, `SkipAnswer`), reading at that moment who already has an attempt; it locks and scores
the members one by one in id order (`ScorePlayer`, `SkipPlayer`); and commits (`CommitShare`). Nothing
of a transaction is visible before its commit; a crash or a broken deadlock undoes it (`CrashShare`,
`BreakCycle`). A deletion locks the account (`LockAccount`), takes it off the lists of answers row by
row (`StartScrub`, `ScrubRow`) and commits (`CommitDeletion`), which is also `LiveSession`'s
`DeletePlayer`. The admins' advisory lock lets one deletion at a time run, so there is one `leaver`.

### Play

Everything about a player's score goes through the lock of their row (`xp.lock`), so what a request
does under it until the commit is one action, and what it read before is another: `ReadDaily` and
`AnswerDaily`, `ListDaily` and `CloseDaily`, `AskPractice` and `AnswerPractice`, `ListStale` and
`EndStale`. So it is with the insertions that a unique index guards (`StartDaily` and `InsertDaily`,
`AskForRun` and `StartRun`) and with the draw of the day's question and its advisory lock
(`AskForDraw`, `DrawDaily`). The handlers of a mock run lock before they read, so each of their
transactions is one action (`ComeBack`, `AnswerMock` and then `ShowNext`, `CloseMock`, `EndRun`).
`request` is what each request in flight has read. Which of them is a tab and which a job of the night
makes no difference to what may come between, so any two may run at once.

The variables are the rows of `daily_questions`, `attempts` and `mock_sessions`, `users.xp`, the day,
and `known`, which no table holds: the answers the player has been shown, by their own submission or
by the summary of a finished run, which keeps back those still running elsewhere. An attempt's `knew`
remembers whether its answer was known when it was scored. `submitted_at` and `drawn_at` are compared
in one place only (`_hidden_mock`), so `drawnAt` holds what the comparison asks of it: the mock
questions closed by then. `overtaken` is the history of the days whose draw was stored after another
mock question had been closed, or whose start was stored after midnight or another draw: there what a
summary kept back and what `_hidden_mock` takes for hidden may differ (section 4), and
`ShownAnswersPayLess` names them as its exception.

What is abstracted: right, wrong, late, passed and hinted answers earn shares of one rate, which is
what earlier answers decide (`full`, `quarter`, `none`); LP follows the same rate, except for replays;
the day's question and the next of a quiz are any that may be; one area and one quiz stand for all;
every question is graded; a question that is running in a live quiz is left out.

### Routing, Scoring, Grading

`Routing` has `seat_by_subdepartment`, `pick`, `route` with its catch-all, the lobby's warnings, the
time for a question, the points of a quick answer and what the results count. `LiveSession` takes any
line-up of captained tables; here it is checked that the rule gives every owner its share and the
catch-all the rest (`RoutesFairly`), that the warnings are of tables that may go without
(`WarnsRightly`), that everybody sits once, and that the tally of the room is what its tables got
right (`TalliesTheRoom`).

`Scoring` computes in integers: XP in 1/32, LP in fractions of a sure miss. The logistic that turns
rank and difficulty into the chance of knowing the answer is not computed; the rules are checked for
every chance in twentieths from its smallest value up. They promise that an answer in time pays most,
that help and repetition never pay more, that a blind guess never pays on average, in a bad run
either (`GuessingNeverPays`), that aids go one at a time (`WheelsComeOff`), and that nobody drags a
question's difficulty by answering it again (`NobodyDrags`).

`Grading` takes a text for what it reads as: nothing, a word, a range, or numbers with their decimals and
whether "59,988" might be one or two of them. Numbers are integers in 1/200. It has `build_key`,
`correction`, `correct`, the refusals of `questions.check`, `explain` and the hints. It promises that
an answer within the rounding of the key is right (`MarksWhatRounds`), that what is refused would not
have been right (`RefusesNothingRight`), that a reviewer's correction reads back as it was meant
(`KeepsCorrections`), and that no hint excludes the answer (`WindowKeepsTheSecret`).

### Screens

Of a session only its version is kept: `Change` stands for every handler of `LiveSession`
(`ChangesMoveTheVersion` there says that they move it). A stream that wakes up reads the database
(`StartPoll`, `EndPoll`) or finds a snapshot (`Look`); `_latest` lets two first polls of a worker
overlap, so the older of them may end last. What differs from what the stream sent last makes the
screen fetch: the request reads the version (`Fetch`) and then a room that is kept for that version,
or else builds one, which may hold later changes (`Show`). Streams drop, workers restart and fetches
fail, `MaxFaults` times.

### SignIn

Argon2 hashes are computed with no transaction open, so a sign-in, a password change, a deletion of
one's own account and a reset are each what they read before (`ReadLogin`, `ReadChange`, `ReadDelete`,
`ReadLink`) and what they do under the lock of the row (`Login`, `FailLogin`, `ChangePassword`,
`DeleteSelf`, `ResetPassword`). The renewal of an outdated hash is a transaction of its own after the
sign-in's (`Rehash`). A reset locks its link before the account (`HoldLink`), a password change the
account before the links, so two of them may wait in a circle, which PostgreSQL breaks
(`BreakDeadlock`). `login` returns the token of its session last, so a session whose sign-in is still at
its `Rehash` is in no browser (`HandedOut`). Clocks are abstracted to what they decide: a session is fresh, idle or expired, an
account locked or not.

### Accounts, Names

Everything that can take the last admin away runs under `ADMIN_LOCK` and is one action; what it
decides on may be older: the session's role was checked when the request came in (`SignIn`), the
night's list of whom to delete was read before the lock (`ListDue`, `Purge`), and an invite or the
absence of admins before a password was hashed (`ReadInvite`, `Register`; `ReadAdmins`,
`CreateFirstAdmin`). In `Names` every request looks first and saves later; what a name looks like
is a value that distinct spellings may share. `together` remembers who checked before the other saved.

### Bank, Reports

A push locks every question of FS-Quiz before it reads the rest, and a reviewer's change locks the
question, so each is one action. `Bank` follows one question; how many of the others a push would
retire or change is a number it is given, which decides whether it is held back. `Contents` are what
FS-Quiz may publish, as far as the code tells contents apart: the options, the right ones, the
wording and the rest. `Import` does all that the importer does to a row: `Written`, `Restored`,
`HiddenIfRemoved`, `Retired`. `applied` and `unchecked` are history.

In `Reports` a player's request counts their open reports (`AskReport`) before it writes
(`WriteReport`); the unique index of open reports makes a second one replace the first. A reviewer
handles what their page listed (`OpenPage`, `Resolve`), whatever its text is by then.

### Rank, Streaks, Awards

All three change a player's row under its lock, so a change is one action and a list that was read before
it another. `Rank`: an answer, an admin's change of position and the nightly job may each be the
first to start a season (`Grant`, `SetPosition`, `ListDue` and `Rollover`); an answer belongs to the
season its play started in; raises keep what they gave (`lifts`), for taking them back. `raised` is
the history of an undone raise, and `lp` what the step's answer paid. `Streaks`: `Settle` is `settle`,
read by every page (`Current`) and stored by the job (`Nightly`), which runs at any hour of some
days; `nightly` is what a job that never missed a night would have made, from a `settle` of one night.
`off` marks the behaviours in which the two may differ: the job missed more nights than it makes up for,
ran in the minutes in which yesterday's question is still open, or a day earned no freeze because of the
cap (section 4). `Awards`: a request reads the
attempt, and its hint, before the lock (`SendDaily`, `SendPractice`) and scores under it
(`ScoreDaily`, `ScorePractice`), as of the time it was sent.

### Leaderboard

A board is four reads, each of which sees what was committed before: the sum of the period's LP, from
the worker's cache or summed under the worker's lock (`Hit`, `Miss`, `Sum`, `Keep`), the viewer's own
(`ReadOwn`), the names (`ReadNames`) and the points of whoever is on the page (`Show`). An answer is
kept in place of the LP it moved, so a sum is the set of answers it counts. `seen` is the history of
who could be seen at some moment of the request.

## 3. Runs

| Run | Module, config | Instance | Distinct states | Shows |
|---|---|---|---|---|
| `live_session` | `MCLiveSession`, `LiveSession.cfg` | host and 3 players, 2 tables, 2 questions, a timed quiz for all tables or an untimed one for the owners of a topic | 1.36 million | types; tables with people are led by one of them; every change moves the version; questions close for a reason; results are seen; `LiveFlow` is implemented; the rules of `Routing` |
| `live_share` | `MCLiveShare`, `LiveShare.cfg` | host and 2 players at 2 tables, 1 question, 2 sharers, 1 crash | 225 thousand | XP follows the result; the full XP is paid once; nobody is forgotten |
| `live_share_ends` | `MCLiveShare`, `LiveShareEnds.cfg` | 2 players at 1 table, 2 questions, 2 sharers, 1 crash | 34 thousand | sharers never wait in a circle; every answer is shared in the end |
| `screens` | `Screens`, `Screens.cfg` | 2 screens at 1 worker, 2 changes, 1 fault | 326 thousand | no screen goes back; every screen catches up |
| `play` | `MCPlay`, `Play.cfg` | 2 requests at once, 2 questions, 2 days in one season, 2 runs, 3 attempts | 2.6 million | an answer pays once, in full once a season for a question, and not in full once its answer was shown, unless its draw or start was `overtaken`; one try at a time; the draw stands |
| `signin` | `MCSignIn`, `SignIn.cfg` | 3 requests, 2 passwords, 2 sessions, 2 links, locked after 2 | 1.36 million | every guess counts; leavers are signed out; a link serves once; the lock holds |
| `accounts` | `MCAccounts`, `Accounts.cfg` | 3 people, 1 invite, 2 requests; 3 names in 2 looks, 3 addresses | 215 thousand | there is always an admin; only admins decide, on what is so at that moment; joining is safe |
| `bank` | `MCBank`, `Bank.cfg` | 7 contents over 3 options, 2 releases; 2 players, 2 questions, 2 requests, 2 reviewers, 3 texts | 248 thousand | what is served fits what is kept; reviewers' work survives; queues keep what waits; the rules of `Grading` |
| `career` | `MCCareer`, `Career.cfg` | 3 positions, 3 seasons; 13 days; 3 dates, 2 requests; 2 members, 2 views, 1 answer, 1 move | 2.6 million | see the four modules: no raise costs, no season counts twice, freezes as if every night, hints cost, bonuses are rationed, boards tell the truth; the rules of `Scoring` |

Each property is stated in its module with the code it is about. Why the bounds are enough:

- A hazard of the session needs two tables (a move between them, an answer still missing), two people
  at one of them (a successor for a captain) and two questions (a press or a poll meant for the
  earlier one); four accounts give a table of two next to another.
- A hazard of sharing needs two sharers, two answers and a player on both of their lists. Versions and
  proposal counters are not bounded: no guard reads them, and `view` leaves them out of the states TLC
  compares. `PeopleOnlyChangeTables` bounds the sharing runs, which start with the last question open:
  nobody is unseated, removed or joins and the host does not leave, which `live_session` covers and
  which tells a sharer nothing that a move or a deletion does not.
- For `Play`, what can go wrong between two requests needs two; three attempts are a question met in a
  run, as a daily question and in practice. `Bounded` keeps the run to either one question over all
  days and runs or two questions and a reviewer on one day.
- `SignIn`: three requests are a sign-in between a change and a reset, and one more failure than locks.
- `Accounts`: three people are two admins who demote each other and one more whom they decide about.
- `Bank`: the seven contents differ from the first in one thing each: the wording, the rest, the right
  option, another option, one option only, none right. A third text in `Reports` is one after another
  was replaced or handled; a cap of one is reached by the second.
- `Rank`: three seasons are one skipped; the ladder has neighbours with and without a division between.
  `Streaks`: thirteen days give two freezes held and two missed days bridged, with `FreezeEvery = 4`
  and `CatchUp = 3`, which keep the code's order (a freeze is rarer than a night the job can catch up).
  `Awards`: with one first win and three dates, a question of the day before, one of today and a
  practice answer compete for it. `Leaderboard`: `BOARD_TTL` is one tick and a day two, so a sum can be
  fresh, stale and of yesterday within three; a return to the team or to the boards is free of `MaxMoves`.
- `Screens`: two streams of one worker are what makes polls overlap; two changes give a snapshot that
  is older than one already passed on. An instance with two workers and one screen (32 thousand
  states) and one with two of each and one change (1.3 million) pass as well; they are not runs of
  their own because the workers share nothing but the version.

`CHECK_DEADLOCK FALSE` is set where the system really stops: a finished quiz, a player's last day, a
deleted account, the last season.

Definitions introduced as "a slip" are what a plausible mistake in the code would look like; no
specification uses them. Putting one in the place of the definition after it makes the corresponding
property fail, which shows that the property depends on the code being as it is.

### Fairness

Two properties need any. For `EveryAnswerIsShared`, `Fairness` in `LiveShare` assumes: the nightly job
runs again and again (`scheduler.py`), ends what is a day old and lists what is unshared; a transaction
that can go on does; a transaction that waits for a row gets it when it is freed again and again
(PostgreSQL queues those who wait for a row; strong fairness of `ScorePlayer` and `ScrubRow`); and a
deadlock is detected and broken (`deadlock_timeout`). Nothing is assumed of the host, the captains, the
streams or the background tasks.

For `EveryScreenCatchesUp`, `Fairness` in `Screens` assumes weak fairness of what a browser and a
worker's event loop do by themselves: a page loads, its stream reconnects (`EventSource`), wakes up
every second and polls, polls and fetches end. Nothing is assumed of the host (the quiz may stand still
at any version) nor of the screens' own timer: the streams alone are enough.

## 4. Where the code does not do what it says

Three runs check what a document or a test of the repository says and end in a counterexample; the
`findings` of `PROJECT.json` give the lines.

| Run | Says | Does |
|---|---|---|
| `scored_twice` | `tests/api/test_live.py`: a player moved mid-question is scored once | twice, when two sharers take the two tables' answers at once; the second as a repeat |
| `lost_reset` | `docs/api.md`: a reset sets a new password | a sign-in under way that renews an outdated hash stores the old password over it: its session is committed, the link is issued and used, then the hash is stored |
| `freeze_again` | `docs/game-rules.md`: pages and the nightly job give the same freezes, whichever comes first | a day refused a freeze at the cap is given one on a later read, once the night has stored that one was spent |

More disagreements are stated as properties that do not hold ("Not so" in the modules) or show when a
bound named here is lifted; they have no run of their own:

- `UnfinishedHasHost` (`LiveSession`): a session created while its host's account is being deleted stays
  open and has no host until an admin or the night ends it (`docs/data-model.md` says that a deleted
  host's sessions are finished).
- `FirstTableCounts` (`LiveShare`, with `viewWithOrder`): a player moved mid-question is scored for the
  table with the lower id, not for their first (`docs/game-rules.md:339`).
- `NoLockCycle` (`LiveShare`): a deletion and a sharer lock an account and an answer in opposite orders
  (`docs/architecture.md:191`). PostgreSQL breaks the circle and nothing is lost.
- `DeletedLeaveTheLists` (`LiveShare`): an answer sent between a deletion's update and its commit keeps
  the deleted id in `member_ids`.
- `OnlyStaleRunsEndByNight` (`Play`): the night ends a run whose player came back after the job had
  listed it, and charges the question on their screen (`docs/game-rules.md:297`).
- A daily question started on the last day of a season and answered after midnight is looked up in the
  new season, so it pays in full although it was paid in full before (`FullPayOnceASeason` with
  `NewSeason = 1`); `docs/game-rules.md` says that a play belongs to the season it started in. A hint
  taken for practice and two answers under way at that midnight disagree in the same way.
- `WhatWasHiddenWasNotShown` (`Play`): a draw of the day's question stores the time its request arrived as
  `drawn_at` (`daily.py:61`). A run that is started, ended and looked at between that and the draw's
  commit has its question taken for hidden although its summary showed it, and the daily question pays
  in full (`xp.py:74` says that the summary kept the answer hidden). With one question and one day TLC
  finds it in a dozen steps. The same happens to a start that is overtaken by midnight. Both windows
  are as long as one request; `overtaken` marks their days.
- A start of a quiz that is overtaken by another start and its end makes a second counted run (`Play`).
- `Streaks`, outside `off`: a job run by hand in the minutes in which yesterday's question may still be
  answered spends a freeze on a day that then counts.
- `Rank`: a player who skips a season and then finishes a run of the old one has two resets taken at
  once, which `TheRankMovesByItsAnswers` leaves out by speaking of a rank of this season.
- `Bank`: a correction that a push dropped, and the question then deleted and brought back, loses the
  reason "answer" to a later change of wording (`bank.py:283` says that it stays until a reviewer has
  checked it); a question hidden by a note, shown by a reviewer, deleted and brought back with its note
  is hidden again (`bank.py:290`). A reviewer who acknowledges a change may acknowledge one that came
  after their page was read.
- `Reports`: a reviewer may handle a report whose text was replaced since their page was read; requests
  under way may exceed `MAX_OPEN_REPORTS`, by fewer than there are of them.
- `Accounts`, `SignIn`: two requests may each make a first admin (`accounts.py:181`); a sign-in whose old
  password was found right before a reset still opens a session after it (`accounts.py:209`).
- `Names`: two names that look alike may be taken at the same moment, as
  `docs/redteam/report-2026-09-24.md` already says (ACC-07).
- `Leaderboard`: a member of the page who is deleted between two of its queries fails the request
  (`Fail`; `leaderboard.py:172`).
- `Scoring`: a hint on a multiple-choice question of which every option is right leaves one possible
  answer; it gains nothing, and "I'm not sure" costs nothing.

## 5. Proofs

Every safety and action property of the passing runs is also a theorem, for every set of accounts, tables,
requests, workers or members and any number of questions, days, versions or answers. The proof modules
follow the modules they are about: a lemma for each operator that a proof asks something of, a lemma per
group of actions that an invariant survives, and the theorems, whose last step combines the others in
temporal logic.

### The live quiz: `LiveProofs`

| Theorem | States |
|---|---|
| `InvariantHolds`, `TypeCorrect` | `[]IInv`, the inductive invariant of a session, and its types |
| `CaptainsAreSeated`, `TablesKeepCaptains`, `TablesStayLed` | both halves of `TablesAreLed`, and `TablesAreLed` |
| `ResultsAreShown` | `RevealsAreSeen` |
| `QuestionsCloseForAReason` | `ClosesForAReason` |
| `VersionsTellRoomsApart` | `ChangesMoveTheVersion` |
| `Implementation` | `ImplementsFlow`: `LiveSession` implements `LiveFlow` |
| `SharingKeepsTheSession` | `LiveShare` implements `LiveSession`, so all of the above holds while XP is shared |
| `SharingInvariantHolds`, `SharingTypeCorrect` | `[]SInv`, the inductive invariant of the sharing, and its types |
| `ResultsComeFirst` | `XpFollowsTheResult` |
| `NobodyIsPaidTwice` | `FullXpOnce` |
| `SharedReachesEveryone` | `NobodyIsForgotten` |
| `NoDeadlockAmongSharers` | `SharersNeverDeadlock` |

`TypeOK` is not inductive for what the session's properties say, so `IInv` adds three facts. `StageOK` ties
`state`, `position` and `clock` to each other (the position is -1 exactly in the lobby; the clock runs only
while a question is open; questions beyond the current one have no answers). `SeatingOK` says that captains
sit at their own, existing table and that only players sit, at tables of the session; it is what makes
`_recaptain` total, as a captain's seat names the one table that loses them. `OwedAreGone` says that an
account with an outstanding follow-up no longer exists, so that nobody can owe one twice. Dozens of handlers
are reduced to the few ways in which the course of a quiz can move (`CourseStep`), from which the refinement
and the two properties about closing and revealing follow, and every way of seating people to one `Reseat`
step. That a table with people has one who ranks highest is a lemma too (`SomebodyRanksHighest`, by induction
over finite sets).

The sharing needs to know who holds what. `RowsAreHeldOnce`, `WritesAboutItsRow` and `PlayersAreHeldOnce` say
that what a sharer holds nobody else holds, and that it is about the row it took; `RepeatsAreKnown` that what
is about to be committed as a first attempt still is one, because whoever could have made another is locked;
`AllMembersAreSeenTo` that each member of a row is still to come, was seen to or is gone; `LockedInOrder` that
players are locked in the order of their ids, from which a circle of waiting sharers would need an id below
itself. A step of the session touches none of this but to add an answer that nobody shares yet
(`AddsAnswers`), which is why the two proofs stay apart.

### Accounts and reviews: `SignInProofs`, `AccountsProofs`, `ReviewProofs`

| Theorem | States |
|---|---|
| `SignInProofs`: `InvariantHolds`, `TypeCorrect` | the inductive invariant of one account's sign-in, and its types |
| `EveryGuessCounts`, `LeaversStayOut`, `LinksServeOnce`, `TheLockStands` | `GuessesAreCounted`, `LeaversAreSignedOut`, `ALinkServesOnce`, `TheLockHolds` |
| `AccountsProofs`: `InvariantHolds`, `TypeCorrect` | the inductive invariant of the accounts, and its types |
| `AnAdminStays`, `OnlyAdminsChangeAccounts` | `AlwaysAnAdmin`, `OnlyAdminsDecide` |
| `NamesInvariantHolds`, `ThePartsAreImplemented`, `JoiningStaysSafe` | the invariant of the names; the run's behaviours are behaviours of both parts; `JoiningIsSafe` |
| `ReviewProofs`: `BankInvariantHolds`, `ReportsInvariantHolds` | the inductive invariants of a question and of the reports |
| `BothAreImplemented`, `TypesHold` | the run's behaviours are behaviours of both parts; `ReviewTypeOK` |
| `ReviewersAreHeard`, `WhatIsServedFits`, `NothingIsMissed` | `ReviewersWorkSurvives`, `ServedAsKept`, `QueuesKeepWhatWaits` |
| `WhatRoundsIsRight`, `RefusedIsNotRight` | `MarksWhatRounds` and `RefusesNothingRight`, of every number and every text |
| `WindowsHoldTheAnswer`, `RangesAreWithinTheirHint`, `HintsLeaveTwo` | what `Grading` promises of hints, of every number, range, choice and draw |

`SignIn`: an account that is locked counts from zero again, so a guess is counted or locked out; a link's row
that a request holds is open (`HeldLinksAreOpen`), because whoever would close it waits, so it is used at most
once (`UsedLinksAreClosed`). `Accounts`: exactly those who are not active are dated (`OnlyLeaversAreDated`), and
a step is one of five kinds (`UsersStep`), each of which leaves an active admin. `Names`: who looks like a name
that was checked was there at the check or has checked at the same time (`LookalikesAreKnown`). `Bank`: a row
says of itself what its content, key and flags make of it (`RowFits`), is what the last push brought unless it
was held back (`AppliedIsThere`), and a dropped correction is flagged as such until somebody has looked
(`DroppedAsAnswer`); a push is described once, by what it makes of a row (`Imported`). `Reports`: texts are
numbered as they are written, a player has one open report of a question, and no more open ones than the limit
and the requests there can be (`FewAreOpen`), which bounds the set that is counted.

### Scores: `PlayProofs`, `CareerProofs`, `ScreensProofs`, `Sums`

| Theorem | States |
|---|---|
| `PlayProofs`: `InvariantHolds`, `TypeCorrect` | the inductive invariant of attempts, runs and requests, and its types |
| `OneTryEach`, `DrawsStand`, `XpAddsUp` | `OneTryAtATime`, `TheDrawStands`, `XpIsTheSum` |
| `FullPayOnce` | `FullPayOnceASeason`, of the behaviours in which daily answers fall in the season their play started in |
| `ShownPayLess` | `ShownAnswersPayLess`, of one season |
| `ScreensProofs`: `InvariantHolds`, `NoScreenGoesBack` | no room is ahead of the version; `ScreensNeverGoBack` |
| `CareerProofs`: `AwardsInvariantHolds`, `HintsCost`, `BonusesStayRationed` | hints and bonuses: the invariant, `HintsAlwaysCost`, `BonusesAreRationed` |
| `RankInvariantHolds`, `RanksAreTyped`, `UndoingCostsNothing`, `SeasonsCountOnce` | the rank: the invariant, its types, `UndoneRaisesCostNothing`, `TheRankMovesByItsAnswers` |
| `StreaksAreTyped`, `NightsInvariantHolds`, `FreezesAreAsIfEveryNight` | the streaks: the types, the invariant, `AsIfEveryNight` |
| `BoardInvariantHolds`, `BoardsAreTyped`, `BoardsStayTrue` | the boards: the invariant, its types, `BoardsTellTheTruth` |
| `NobodyMovesDifficulty`, `GuessesNeverPay` | `NobodyDrags`, of any answers, and `GuessingNeverPays`, of any number of options, in every division |
| `ThePartsShareNothing`, `CareersAreTyped` | a behaviour of the run is one of each of its four parts; `CareerTypeOK` |

`Play`: `PInv` adds to the types that what a request carries is there (`RequestsOK`), and that the unique
indexes hold. `PaysByTheRules` then says what a step may do to the attempts: one of them is answered, by the
rate that its mode gives it at that moment. `FullPayOnce` is proved under `[]InSeason`: no daily question is
answered in a season other than its own. Without it the property is false (section 4). `ShownPayLess` is proved
under `LastDay < NewSeason`, which leaves out the same daily question over a season's end; draws and starts that
are overtaken are an exception that the property itself names. Its invariant `KInv` says that what was shown was
submitted, and, of the day's question and of every open attempt at one whose day was not overtaken, that what
showed its answer counts for it. `XpAddsUp` takes the sum apart: one attempt's share changes and the XP with it.

`Awards`: a hint shown is on the attempt, or on the request that will score it, or practised first by another
answer. `Rank`: the placements and divisions of any ladder go up, and the raises that are kept are the steps of
one climb (`RaisesAreKept`), so taking back what they gave leads where the answers alone would have.
`Streaks`: `NightsInv` says that there is a chain of nights, one for each day and each following from the one before
by a night of its own, such that what is stored is the chain's at the last day the job ran and `nightly` is the
chain's at the last day there is. What a page computes by settling many days at once is what the chain has
(`CatchingUpIsEnough`): a second look at days already settled earns and spends nothing, because two freezes are
further apart than the job ever looks back (`CatchUp < FreezeEvery`) and nothing was refused (`NoneRefused`,
which is what `off` excludes, section 4). `Leaderboard`: a request's scores count every answer that is older than
`BOARD_TTL` at its beginning (`CountsOld`, `Since`) and nothing that was not given; moving a member
makes nothing older, so what was right when it was read stays right (`RequestsSurvive`); whatever scores a page is
made of, its places agree and it names nobody hidden (`PagesAreRight`).

`GuessesNeverPay`: of k + 1 options a guess loses on average at least k hundredths of the stakes (`GuessesLose`,
from the least chance of knowing, 0.16, and the smallest stakes, 0.8), and a bad run gives back no more than
half of that (`BadRunsAreBounded`). The chance of knowing is in twentieths, as in `Scoring`.

`Sums` holds what the others need of sums: induction over the natural numbers, from the least element of a set, and
that `MapThenSumSet` adds in any order.

### What the proofs assume

The assumptions named in the modules, and nothing else. Counts and limits are natural numbers. Sets that the
database keeps finite are: `Users`, `Positions`, `Members`, `Posts`. The values that stand for nobody or nothing
(`NoUser`, `NoAnswer`, `NoQuestion`, `Nobody`, `Gone`, `None`, `Nothing`) are none of the values they stand next to.
Ids are natural numbers, as PostgreSQL's are. The ladder of positions goes up and a division fits below
`MaxPoints`, as in `domain/rank.py`; an answer in `Won` moves the LP, since one that does not is nowhere in a sum;
names that are equal in lower case look alike; and a freeze is rarer than the nights the job can catch up with
(`FREEZE_EVERY` in `domain/daily.py`, `CATCH_UP` in `services/streaks.py`). Every one of them is in a module that
a run extends, so TLC evaluates it there.

### What stays with TLC

- Liveness: `EveryAnswerIsShared` and `EveryScreenCatchesUp` need fairness and so `ENABLED`, which the provers here
  do not reason about.
- The rules of `Routing`, the amounts of XP, levels and difficulties in `Scoring`, and corrections in `Grading`
  (`KeepsCorrections`), which TLC evaluates for all inputs of small sets: they are sums, sorted sequences and
  fixed tables, which small sets nearly exhaust.

## 6. What is left, in order

1. The rules of `Routing` (`RoutesFairly`, `WarnsRightly`) for every room, and `HelpPaysNoMore` of `Scoring` for
   every answer.
2. `KeepsCorrections` of every key that `build_key` can make.
3. Shorter proofs where several lemmas make the same argument of several actions (`CareerProofs`, `PlayProofs`).

### Not modelled

- Typed texts character by character, and the wording of messages: `Grading` starts from what a text reads
  as. The unit tests under `tests/` cover the reading.
- The logistic of `domain/rank.py`: its smallest value is a constant of `Scoring`, and any value above it
  is allowed for.
- The combo and critical counters, which are inputs of `Scoring`'s rules: they change how much a right
  answer pays and nothing else.
- In the bank: labels, the quizzes and their links (but for holding a push back), rows from before
  `graded_hash`, and the mirror's HTTP client and images. In a review: labels.
- A table's proposals counter in `Screens`, which is announced as the version is and never part of a room.
- Boards by area share the code path of the week's; `Boards` in `Career.cfg` has one of the two.
- The audit log and the export of one's data, which are written or read and decide nothing; the profile but
  for the name and the address.
- The order of the night's steps: each can run again, and each is in the module of its data.
- The HTTP layer's forms and headers, the rest of the command line, the learning content (files), the
  migrations, the deployment, and the web client but for the host's button and how a screen follows.
