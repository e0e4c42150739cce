----------------------------- MODULE SignInProofs -----------------------------
(***************************************************************************)
(* Proofs about one account's password, lock-out, sessions and links, for  *)
(* any number of requests that work on it at the same time.                *)
(*                                                                         *)
(* The invariant adds to the properties what they rest on: a locked        *)
(* account's count has started over, a request holds a link only while it  *)
(* is open, and a link that set a password is closed.                      *)
(***************************************************************************)
EXTENDS SignIn, TLAPS

\* Whoever holds a link's row holds an open link, as closing it waits for them.
HeldLinksAreOpen == \A r \in Requests : IsAt(r, "held") => LinkOpen(request[r].link)

\* A link that set a password did so once, and is closed.
UsedLinksAreClosed == \A l \in Links : uses[l] = 0 \/ (uses[l] = 1 /\ links[l] = "closed")

IInv ==
    /\ SignInTypeOK
    /\ locked => failed = 0
    /\ GuessesAreCounted
    /\ LeaversAreSignedOut
    /\ HeldLinksAreOpen /\ UsedLinksAreClosed

-------------------------------------------------------------------------------
(* Helpers                                                                 *)

\* What a request carries, by what it is about to do.
LEMMA WhatRequestsCarry ==
    ASSUME NEW c \in Checked \union {Idle}
    PROVE  /\ c.step = "login" => c.matches \in BOOLEAN /\ c.guess \in Passwords
           /\ c.step = "delete" => c.matches \in BOOLEAN /\ c.guess \in Passwords
           /\ c.step = "change" => c.matches \in BOOLEAN /\ c.new \in Passwords /\ c.keep \in Sessions
           /\ c.step = "rehash" => c.guess \in Passwords /\ c.session \in Sessions
           /\ c.step \in {"reset", "held"} => c.link \in Links /\ c.new \in Passwords
           /\ c.step = "touch" => c.session \in Sessions
BY DEF Checked, Idle

\* A request that is done carries nothing, and the others carry what they did.
LEMMA DoneIsIdle ==
    ASSUME SignInTypeOK, NEW r \in Requests, Done(r)
    PROVE  /\ request' \in [Requests -> Checked \union {Idle}]
           /\ \A q \in Requests : request'[q].step = "held" => q # r /\ request'[q] = request[q]
BY DEF SignInTypeOK, Done, Idle

\* Ending sessions opens none.
LEMMA EndedEnds ==
    ASSUME SignInTypeOK, NEW S
    PROVE  /\ Ended(S) \in [Sessions -> {"none", "fresh", "idle", "expired", "ended"}]
           /\ \A s \in Sessions : Ended(S)[s] = IF s \in S /\ Open(s) THEN "ended" ELSE sessions[s]
BY DEF SignInTypeOK, Ended

\* Closing the links leaves none open.
LEMMA ClosedResets ==
    ASSUME SignInTypeOK
    PROVE  /\ CloseResets \in [Links -> {"none", "open", "closed"}]
           /\ \A l \in Links : CloseResets[l] = IF links[l] = "open" THEN "closed" ELSE links[l]
BY DEF SignInTypeOK, CloseResets

-------------------------------------------------------------------------------
(* The inductive invariant                                                 *)

LEMMA InitHolds == Init => IInv
<1> SUFFICES ASSUME Init PROVE IInv
  OBVIOUS
<1> USE DEF Init
<1>1. SignInTypeOK
  <2>1. outdated \in BOOLEAN /\ locked \in BOOLEAN
    BY Zenon
  <2>2. failed \in 0 .. LockAfter - 1
    BY SignInAssumption
  <2> QED
    BY <2>1, <2>2, SignInAssumption DEF SignInTypeOK
<1>2. GuessesAreCounted
  BY DEF GuessesAreCounted
<1>3. LeaversAreSignedOut
  BY DEF LeaversAreSignedOut
<1>4. HeldLinksAreOpen /\ UsedLinksAreClosed
  BY DEF HeldLinksAreOpen, UsedLinksAreClosed, IsAt, Idle
<1> QED
  BY <1>1, <1>2, <1>3, <1>4 DEF IInv

\* A step that changes no more than what requests carry.
LEMMA CarryingKeeps ==
    ASSUME IInv, UNCHANGED <<account, sessions, links, wrong, uses>>,
           request' \in [Requests -> Checked \union {Idle}],
           \A q \in Requests : request'[q].step = "held" => LinkOpen(request'[q].link)
    PROVE  IInv'
<1> USE DEF account
<1>1. SignInTypeOK'
  BY DEF IInv, SignInTypeOK
<1>2. GuessesAreCounted' /\ (locked => failed = 0)'
  BY DEF IInv, GuessesAreCounted
<1>3. LeaversAreSignedOut'
  BY DEF IInv, LeaversAreSignedOut, Open
<1>4. HeldLinksAreOpen' /\ UsedLinksAreClosed'
  BY DEF IInv, HeldLinksAreOpen, UsedLinksAreClosed, IsAt, LinkOpen
<1> QED
  BY <1>1, <1>2, <1>3, <1>4 DEF IInv

\* A step that ends sessions, or shows one of an active account or one that is open already.
LEMMA SessionsKeep ==
    ASSUME IInv, UNCHANGED <<account, links, wrong, uses>>,
           request' \in [Requests -> Checked \union {Idle}],
           \A q \in Requests : request'[q].step = "held" => request'[q] = request[q],
           sessions' \in [Sessions -> {"none", "fresh", "idle", "expired", "ended"}],
           \A s \in Sessions : Open(s)' => Open(s)
    PROVE  IInv'
<1> USE DEF account
<1>1. SignInTypeOK'
  BY DEF IInv, SignInTypeOK
<1>2. GuessesAreCounted' /\ (locked => failed = 0)'
  BY DEF IInv, GuessesAreCounted
<1>3. LeaversAreSignedOut'
  BY DEF IInv, LeaversAreSignedOut
<1>4. HeldLinksAreOpen' /\ UsedLinksAreClosed'
  BY DEF IInv, HeldLinksAreOpen, UsedLinksAreClosed, IsAt, LinkOpen
<1> QED
  BY <1>1, <1>2, <1>3, <1>4 DEF IInv

\* A wrong password, checked while the account was not locked: the last one in a row locks it.
LEMMA FailureKeeps ==
    ASSUME IInv, NEW r \in Requests, ~ locked, RecordFailure, Done(r),
           UNCHANGED <<status, password, outdated, sessions, links, uses>>
    PROVE  IInv'
<1>1. failed \in 0 .. LockAfter - 1 /\ wrong = failed /\ LockAfter \in Nat \ {0}
  BY SignInAssumption DEF IInv, SignInTypeOK, GuessesAreCounted
<1>2. /\ failed' = IF failed + 1 >= LockAfter THEN 0 ELSE failed + 1
      /\ locked' = (failed + 1 >= LockAfter) /\ wrong' = failed + 1
  BY <1>1 DEF RecordFailure
<1>3. failed' \in 0 .. LockAfter - 1 /\ wrong' \in Nat /\ locked' \in BOOLEAN
  BY <1>1, <1>2
<1>4. failed' = 0 \/ ~ locked'
  BY <1>1, <1>2
<1>5. wrong' = IF locked' THEN LockAfter ELSE failed'
  <2>1. CASE failed + 1 >= LockAfter
    <3>1. failed + 1 = LockAfter
      BY <1>1, <2>1
    <3>2. locked'
      BY <1>2, <2>1, Zenon
    <3> QED
      BY <1>2, <3>1, <3>2
  <2>2. CASE ~ (failed + 1 >= LockAfter)
    BY <1>1, <1>2, <2>2
  <2> QED
    BY <2>1, <2>2
<1>6. SignInTypeOK'
  BY <1>3, DoneIsIdle DEF IInv, SignInTypeOK
<1>7. LeaversAreSignedOut'
  BY DEF IInv, LeaversAreSignedOut, Open
<1>8. HeldLinksAreOpen' /\ UsedLinksAreClosed'
  BY DoneIsIdle DEF IInv, HeldLinksAreOpen, UsedLinksAreClosed, IsAt, LinkOpen
<1> QED
  BY <1>4, <1>5, <1>6, <1>7, <1>8 DEF IInv, GuessesAreCounted

\* A step of r that closes every link: nobody else holds one.
LEMMA ClosingKeeps ==
    ASSUME IInv, NEW r \in Requests, ~ Blocked(r), Done(r), links' = CloseResets
    PROVE  HeldLinksAreOpen'
<1> SUFFICES ASSUME NEW q \in Requests, request'[q].step = "held" PROVE FALSE
  BY DEF HeldLinksAreOpen, IsAt
<1>1. q # r /\ request[q].step = "held"
  BY DoneIsIdle DEF IInv
<1>2. request[q].link \in Links /\ links[request[q].link] = "open"
  BY <1>1, WhatRequestsCarry DEF IInv, SignInTypeOK, HeldLinksAreOpen, IsAt, LinkOpen
<1> QED
  BY <1>1, <1>2 DEF Blocked, HeldByOther, IsAt

\* Every operation, job and passing of time keeps the invariant.
LEMMA InvariantStep ==
    ASSUME IInv, [Next]_vars
    PROVE  IInv'
<1>a. /\ SignInTypeOK /\ LeaversAreSignedOut /\ HeldLinksAreOpen /\ UsedLinksAreClosed
      /\ request \in [Requests -> Checked \union {Idle}]
      /\ sessions \in [Sessions -> {"none", "fresh", "idle", "expired", "ended"}]
      /\ links \in [Links -> {"none", "open", "closed"}]
  BY DEF IInv, SignInTypeOK
<1>b. \A q \in Requests : request[q].step = "held" => request[q].link \in Links /\ LinkOpen(request[q].link)
  BY <1>a, WhatRequestsCarry DEF HeldLinksAreOpen, IsAt
<1>1. ASSUME NEW r \in Requests, NEW p \in Passwords, ReadLogin(r, p) PROVE IInv'
  <2>1. /\ UNCHANGED <<account, sessions, links, wrong, uses>>
        /\ request' = [request EXCEPT ![r] = [step |-> "login", matches |-> p = password, guess |-> p]]
    BY <1>1 DEF ReadLogin
  <2>2. [step |-> "login", matches |-> p = password, guess |-> p] \in Checked
    BY DEF Checked
  <2>3. request' \in [Requests -> Checked \union {Idle}]
    BY <1>a, <2>1, <2>2
  <2>4. \A q \in Requests : request'[q].step = "held" => request'[q] = request[q]
    BY <1>a, <2>1
  <2> QED
    BY <1>b, <2>1, <2>3, <2>4, CarryingKeeps
<1>2. ASSUME NEW r \in Requests, RefuseLogin(r) \/ RefuseCheck(r) \/ BreakDeadlock(r) PROVE IInv'
  <2>1. Done(r) /\ UNCHANGED <<account, sessions, links, wrong, uses>>
    BY <1>2 DEF RefuseLogin, RefuseCheck, BreakDeadlock
  <2>2. /\ request' \in [Requests -> Checked \union {Idle}]
        /\ \A q \in Requests : request'[q].step = "held" => request'[q] = request[q]
    BY <1>a, <2>1, DoneIsIdle
  <2> QED
    BY <1>b, <2>1, <2>2, CarryingKeeps
<1>3. ASSUME NEW r \in Requests, FailLogin(r) PROVE IInv'
  BY <1>3, FailureKeeps DEF FailLogin, Refused
<1>4. ASSUME NEW r \in Requests, FailCheck(r) PROVE IInv'
  BY <1>4, FailureKeeps DEF FailCheck
<1>5. ASSUME NEW r \in Requests, Rehash(r) PROVE IInv'
  <2>1. /\ IsAt(r, "rehash") /\ Done(r)
        /\ UNCHANGED <<status, failed, locked, sessions, links, wrong, uses>>
    BY <1>5 DEF Rehash
  <2>2. password' \in Passwords /\ outdated' \in BOOLEAN
    <3>1. request[r].guess \in Passwords
      BY <1>a, <2>1, WhatRequestsCarry DEF IsAt
    <3>2. CASE status = "deleted"
      BY <1>5, <1>a, <3>2 DEF Rehash, SignInTypeOK
    <3>3. CASE status # "deleted"
      BY <1>5, <3>1, <3>3 DEF Rehash
    <3> QED
      BY <3>2, <3>3
  <2>3. /\ request' \in [Requests -> Checked \union {Idle}]
        /\ \A q \in Requests : request'[q].step = "held" => request'[q] = request[q]
    BY <1>a, <2>1, DoneIsIdle
  <2>4. SignInTypeOK'
    BY <1>a, <2>1, <2>2, <2>3 DEF SignInTypeOK
  <2>5. LeaversAreSignedOut' /\ UsedLinksAreClosed' /\ GuessesAreCounted' /\ (locked => failed = 0)'
    BY <1>a, <2>1 DEF IInv, LeaversAreSignedOut, Open, UsedLinksAreClosed, GuessesAreCounted
  <2>6. HeldLinksAreOpen'
    BY <1>b, <2>1, <2>3 DEF HeldLinksAreOpen, IsAt, LinkOpen
  <2> QED
    BY <2>4, <2>5, <2>6 DEF IInv
<1>6. ASSUME NEW r \in Requests, Touch(r) PROVE IInv'
  <2>1. Done(r) /\ UNCHANGED <<account, links, wrong, uses>>
    BY <1>6 DEF Touch
  <2>2. PICK s \in Sessions : sessions' = [sessions EXCEPT ![s] = IF Open(s) THEN "fresh" ELSE @]
    <3>1. request[r].session \in Sessions
      BY <1>6, <1>a, WhatRequestsCarry DEF Touch, IsAt
    <3> QED
      BY <1>6, <3>1 DEF Touch
  <2>3. /\ sessions' \in [Sessions -> {"none", "fresh", "idle", "expired", "ended"}]
        /\ \A x \in Sessions : Open(x)' => Open(x)
    BY <1>a, <2>2 DEF Open
  <2>4. /\ request' \in [Requests -> Checked \union {Idle}]
        /\ \A q \in Requests : request'[q].step = "held" => request'[q] = request[q]
    BY <1>a, <2>1, DoneIsIdle
  <2> QED
    BY <2>1, <2>3, <2>4, SessionsKeep
<1>7. ASSUME NEW r \in Requests, NEW old \in Sessions \union {NoSession}, NEW s \in Sessions,
             Login(r, old, s)
      PROVE  IInv'
  <2> DEFINE next == IF outdated THEN [step |-> "rehash", guess |-> request[r].guess, session |-> s]
                     ELSE Idle
  <2>1. /\ status = "active" /\ failed' = 0 /\ locked' = FALSE /\ wrong' = 0
        /\ sessions' = [Ended({old}) EXCEPT ![s] = "fresh"]
        /\ request' = [request EXCEPT ![r] = next]
        /\ UNCHANGED <<status, password, outdated, links, uses>>
    BY <1>7 DEF Login, Opened, Refused
  <2>2. next \in Checked \union {Idle} /\ next.step # "held"
    <3>1. request[r].guess \in Passwords
      BY <1>7, <1>a, WhatRequestsCarry DEF Login, IsAt
    <3> QED
      BY <3>1 DEF Checked, Idle
  <2> HIDE DEF next
  <2>3. request' \in [Requests -> Checked \union {Idle}]
    BY <1>a, <2>1, <2>2
  <2>4. \A q \in Requests : request'[q].step = "held" => request'[q] = request[q]
    BY <1>a, <2>1, <2>2
  <2>5. sessions' \in [Sessions -> {"none", "fresh", "idle", "expired", "ended"}]
    BY <1>a, <2>1, EndedEnds
  <2>6. SignInTypeOK'
    <3>1. failed' \in 0 .. LockAfter - 1
      BY <2>1, SignInAssumption
    <3>2. locked' \in BOOLEAN
      BY <2>1
    <3> QED
      BY <1>a, <2>1, <2>3, <2>5, <3>1, <3>2 DEF SignInTypeOK
  <2>7. LeaversAreSignedOut' /\ UsedLinksAreClosed' /\ GuessesAreCounted' /\ (locked => failed = 0)'
    BY <1>a, <2>1 DEF LeaversAreSignedOut, UsedLinksAreClosed, GuessesAreCounted
  <2>8. HeldLinksAreOpen'
    BY <1>b, <2>1, <2>4 DEF HeldLinksAreOpen, IsAt, LinkOpen
  <2> QED
    BY <2>6, <2>7, <2>8 DEF IInv
<1>8. ASSUME NEW r \in Requests, NEW s \in Sessions, ReadSession(r, s) PROVE IInv'
  <2>1. /\ UNCHANGED <<account, sessions, links, wrong, uses>>
        /\ request' = [request EXCEPT ![r] = [step |-> "touch", session |-> s]]
    BY <1>8 DEF ReadSession
  <2>2. [step |-> "touch", session |-> s] \in Checked
    BY DEF Checked
  <2>3. request' \in [Requests -> Checked \union {Idle}]
    BY <1>a, <2>1, <2>2
  <2>4. \A q \in Requests : request'[q].step = "held" => request'[q] = request[q]
    BY <1>a, <2>1
  <2> QED
    BY <1>b, <2>1, <2>3, <2>4, CarryingKeeps
<1>9. ASSUME NEW r \in Requests, NEW s \in Sessions, NEW p \in Passwords, NEW new \in Passwords,
             ReadChange(r, s, p, new)
      PROVE  IInv'
  <2> DEFINE c == [step |-> "change", matches |-> p = password, new |-> new, keep |-> s]
  <2>1. /\ UNCHANGED <<account, sessions, links, wrong, uses>>
        /\ request' = [request EXCEPT ![r] = c]
    BY <1>9 DEF ReadChange
  <2>2. c \in Checked /\ c.step # "held"
    BY DEF Checked
  <2> HIDE DEF c
  <2>3. request' \in [Requests -> Checked \union {Idle}]
    BY <1>a, <2>1, <2>2
  <2>4. \A q \in Requests : request'[q].step = "held" => request'[q] = request[q]
    BY <1>a, <2>1, <2>2
  <2> QED
    BY <1>b, <2>1, <2>3, <2>4, CarryingKeeps
<1>10. ASSUME NEW r \in Requests, NEW s \in Sessions, NEW p \in Passwords, ReadDelete(r, s, p)
       PROVE  IInv'
  <2> DEFINE c == [step |-> "delete", matches |-> p = password, guess |-> p]
  <2>1. /\ UNCHANGED <<account, sessions, links, wrong, uses>>
        /\ request' = [request EXCEPT ![r] = c]
    BY <1>10 DEF ReadDelete
  <2>2. c \in Checked /\ c.step # "held"
    BY DEF Checked
  <2> HIDE DEF c
  <2>3. request' \in [Requests -> Checked \union {Idle}]
    BY <1>a, <2>1, <2>2
  <2>4. \A q \in Requests : request'[q].step = "held" => request'[q] = request[q]
    BY <1>a, <2>1, <2>2
  <2> QED
    BY <1>b, <2>1, <2>3, <2>4, CarryingKeeps
<1>11. ASSUME NEW r \in Requests, ChangePassword(r) PROVE IInv'
  <2>1. /\ ~ locked /\ ~ Blocked(r) /\ Done(r) /\ request[r].step = "change"
        /\ password' = request[r].new /\ outdated' = FALSE
        /\ failed' = 0 /\ wrong' = 0 /\ links' = CloseResets
        /\ sessions' = Ended(Sessions \ {request[r].keep})
        /\ UNCHANGED <<status, locked, uses>>
    BY <1>11 DEF ChangePassword, IsAt
  <2>2. password' \in Passwords /\ outdated' \in BOOLEAN /\ failed' \in 0 .. LockAfter - 1
    <3>1. password' \in Passwords
      BY <1>a, <2>1, WhatRequestsCarry
    <3>2. outdated' \in BOOLEAN
      BY <2>1
    <3>3. failed' \in 0 .. LockAfter - 1
      BY <2>1, SignInAssumption
    <3> QED
      BY <3>1, <3>2, <3>3
  <2>3. /\ links' \in [Links -> {"none", "open", "closed"}]
        /\ \A l \in Links : links[l] = "closed" => links'[l] = "closed"
    BY <1>a, <2>1, ClosedResets
  <2>4. /\ sessions' \in [Sessions -> {"none", "fresh", "idle", "expired", "ended"}]
        /\ \A s \in Sessions : Open(s)' => Open(s)
    BY <1>a, <2>1, EndedEnds DEF Open
  <2>5. request' \in [Requests -> Checked \union {Idle}]
    BY <1>a, <2>1, DoneIsIdle
  <2>6. SignInTypeOK'
    BY <1>a, <2>1, <2>2, <2>3, <2>4, <2>5 DEF SignInTypeOK
  <2>7. LeaversAreSignedOut' /\ GuessesAreCounted' /\ (locked => failed = 0)'
    BY <1>a, <2>1, <2>4 DEF LeaversAreSignedOut, GuessesAreCounted
  <2>8. UsedLinksAreClosed'
    BY <1>a, <2>1, <2>3 DEF UsedLinksAreClosed
  <2>9. HeldLinksAreOpen'
    BY <2>1, ClosingKeeps
  <2> QED
    BY <2>6, <2>7, <2>8, <2>9 DEF IInv
<1>12. ASSUME NEW r \in Requests, DeleteSelf(r) PROVE IInv'
  <2>1. /\ ~ Blocked(r) /\ Done(r) /\ links' = CloseResets /\ sessions' = Ended(Sessions)
        /\ status' = "deleted"
        /\ UNCHANGED <<password, outdated, failed, locked, wrong, uses>>
    BY <1>12 DEF DeleteSelf
  <2>2. /\ links' \in [Links -> {"none", "open", "closed"}]
        /\ \A l \in Links : links[l] = "closed" => links'[l] = "closed"
    BY <1>a, <2>1, ClosedResets
  <2>3. /\ sessions' \in [Sessions -> {"none", "fresh", "idle", "expired", "ended"}]
        /\ \A s \in Sessions : ~ Open(s)'
    BY <1>a, <2>1, EndedEnds DEF Open
  <2>4. request' \in [Requests -> Checked \union {Idle}]
    BY <1>a, <2>1, DoneIsIdle
  <2>5. SignInTypeOK'
    BY <1>a, <2>1, <2>2, <2>3, <2>4 DEF SignInTypeOK
  <2>6. LeaversAreSignedOut' /\ GuessesAreCounted' /\ (locked => failed = 0)'
    BY <2>1, <2>3 DEF IInv, LeaversAreSignedOut, GuessesAreCounted
  <2>7. UsedLinksAreClosed'
    BY <1>a, <2>1, <2>2 DEF UsedLinksAreClosed
  <2>8. HeldLinksAreOpen'
    BY <2>1, ClosingKeeps
  <2> QED
    BY <2>5, <2>6, <2>7, <2>8 DEF IInv
<1>13. ASSUME NEW r \in Requests, NEW l \in Links, NEW new \in Passwords, ReadLink(r, l, new) PROVE IInv'
  <2> DEFINE c == [step |-> "reset", link |-> l, new |-> new]
  <2>1. /\ UNCHANGED <<account, sessions, links, wrong, uses>>
        /\ request' = [request EXCEPT ![r] = c]
    BY <1>13 DEF ReadLink
  <2>2. c \in Checked /\ c.step # "held"
    BY DEF Checked
  <2> HIDE DEF c
  <2>3. request' \in [Requests -> Checked \union {Idle}]
    BY <1>a, <2>1, <2>2
  <2>4. \A q \in Requests : request'[q].step = "held" => request'[q] = request[q]
    BY <1>a, <2>1, <2>2
  <2> QED
    BY <1>b, <2>1, <2>3, <2>4, CarryingKeeps
<1>14. ASSUME NEW r \in Requests, HoldLink(r) PROVE IInv'
  <2> DEFINE c == [request[r] EXCEPT !.step = "held"]
  <2>1. /\ UNCHANGED <<account, sessions, links, wrong, uses>> /\ request[r].step = "reset"
        /\ \/ request' = [request EXCEPT ![r] = c] /\ LinkOpen(request[r].link)
           \/ request' = [request EXCEPT ![r] = Idle]
    BY <1>14, <1>a DEF HoldLink, IsAt, StillOpen
  <2>2. c \in Checked /\ c.link = request[r].link
    BY <1>a, <2>1 DEF Checked, Idle
  <2>3. Idle.step # "held"
    BY DEF Idle
  <2> HIDE DEF c
  <2>4. request' \in [Requests -> Checked \union {Idle}]
    BY <1>a, <2>1, <2>2
  <2>5. \A q \in Requests : request'[q].step = "held" => LinkOpen(request'[q].link)
    BY <1>a, <1>b, <2>1, <2>2, <2>3
  <2> QED
    BY <2>1, <2>4, <2>5, CarryingKeeps
<1>15. ASSUME NEW r \in Requests, ResetPassword(r) PROVE IInv'
  <2> DEFINE l == request[r].link
  <2>1. /\ ~ Blocked(r) /\ Done(r) /\ request[r].step = "held"
        /\ password' = request[r].new /\ outdated' = FALSE
        /\ failed' = 0 /\ locked' = FALSE /\ wrong' = 0
        /\ links' = CloseResets /\ sessions' = Ended(Sessions)
        /\ uses' = [uses EXCEPT ![l] = @ + 1]
        /\ UNCHANGED status
    BY <1>15 DEF ResetPassword, IsAt
  <2>2. /\ l \in Links /\ links[l] = "open" /\ uses[l] = 0
        /\ uses \in [Links -> Nat]
    BY <1>a, <1>b, <2>1 DEF LinkOpen, UsedLinksAreClosed, SignInTypeOK
  <2>3. /\ links' \in [Links -> {"none", "open", "closed"}] /\ links'[l] = "closed"
        /\ \A x \in Links : links[x] = "closed" => links'[x] = "closed"
    BY <1>a, <2>1, <2>2, ClosedResets
  <2>4. /\ sessions' \in [Sessions -> {"none", "fresh", "idle", "expired", "ended"}]
        /\ \A s \in Sessions : ~ Open(s)'
    BY <1>a, <2>1, EndedEnds DEF Open
  <2>5. /\ password' \in Passwords /\ outdated' \in BOOLEAN /\ locked' \in BOOLEAN
        /\ failed' \in 0 .. LockAfter - 1
    <3>1. password' \in Passwords
      BY <1>a, <2>1, WhatRequestsCarry
    <3>2. outdated' \in BOOLEAN /\ locked' \in BOOLEAN
      BY <2>1
    <3>3. failed' \in 0 .. LockAfter - 1
      BY <2>1, SignInAssumption
    <3> QED
      BY <3>1, <3>2, <3>3
  <2> HIDE DEF l
  <2>6. uses' \in [Links -> Nat] /\ \A x \in Links : uses'[x] = IF x = l THEN 1 ELSE uses[x]
    BY <2>1, <2>2
  <2>7. request' \in [Requests -> Checked \union {Idle}]
    BY <1>a, <2>1, DoneIsIdle
  <2>8. SignInTypeOK'
    BY <1>a, <2>1, <2>3, <2>4, <2>5, <2>6, <2>7 DEF SignInTypeOK
  <2>9. LeaversAreSignedOut' /\ GuessesAreCounted' /\ (locked => failed = 0)'
    BY <2>1, <2>4 DEF LeaversAreSignedOut, GuessesAreCounted
  <2>10. UsedLinksAreClosed'
    BY <1>a, <2>3, <2>6 DEF UsedLinksAreClosed
  <2>11. HeldLinksAreOpen'
    BY <2>1, ClosingKeeps
  <2> QED
    BY <2>8, <2>9, <2>10, <2>11 DEF IInv
<1>16. ASSUME NEW s \in Sessions, Logout(s) \/ RemoveExpired(s) \/ SessionAges(s) PROVE IInv'
  <2>1. UNCHANGED <<account, links, request, wrong, uses>>
    BY <1>16 DEF Logout, RemoveExpired, SessionAges
  <2>2. /\ sessions' \in [Sessions -> {"none", "fresh", "idle", "expired", "ended"}]
        /\ \A x \in Sessions : Open(x)' => Open(x)
    BY <1>16, <1>a, EndedEnds DEF Logout, RemoveExpired, SessionAges, Open
  <2> QED
    BY <1>a, <2>1, <2>2, SessionsKeep
<1>17. CASE RevokeSessions \/ PurgeExpired
  <2>1. PICK S : sessions' = Ended(S) /\ UNCHANGED <<account, links, request, wrong, uses>>
    BY <1>17 DEF RevokeSessions, PurgeExpired
  <2>2. /\ sessions' \in [Sessions -> {"none", "fresh", "idle", "expired", "ended"}]
        /\ \A x \in Sessions : Open(x)' => Open(x)
    BY <1>a, <2>1, EndedEnds DEF Open
  <2> QED
    BY <1>a, <2>1, <2>2, SessionsKeep
<1>18. ASSUME NEW l \in Links, IssueLink(l) \/ LinkExpires(l) PROVE IInv'
  <2>1. UNCHANGED <<account, sessions, request, wrong, uses>>
    BY <1>18 DEF IssueLink, LinkExpires
  <2>2. links' \in [Links -> {"none", "open", "closed"}]
    BY <1>18, <1>a DEF IssueLink, LinkExpires
  <2>3. HeldLinksAreOpen'
    BY <1>18, <1>a, <1>b, <2>1 DEF IssueLink, LinkExpires, HeldLinksAreOpen, IsAt, LinkOpen
  <2>4. UsedLinksAreClosed'
    BY <1>18, <1>a, <2>1 DEF IssueLink, LinkExpires, UsedLinksAreClosed
  <2>5. SignInTypeOK' /\ LeaversAreSignedOut' /\ GuessesAreCounted' /\ (locked => failed = 0)'
    BY <2>1, <2>2 DEF IInv, SignInTypeOK, LeaversAreSignedOut, Open, GuessesAreCounted, account
  <2> QED
    BY <2>3, <2>4, <2>5 DEF IInv
<1>19. CASE Deactivate \/ Activate
  <2>1. /\ UNCHANGED <<password, outdated, failed, locked, links, request, wrong, uses>>
        /\ status' \in {"active", "inactive"}
    BY <1>19 DEF Deactivate, Activate
  <2>2. /\ sessions' \in [Sessions -> {"none", "fresh", "idle", "expired", "ended"}]
        /\ LeaversAreSignedOut'
    BY <1>19, <1>a, EndedEnds DEF Deactivate, Activate, SessionsOfLeaver, LeaversAreSignedOut, Open
  <2>3. SignInTypeOK' /\ GuessesAreCounted' /\ (locked => failed = 0)'
    BY <2>1, <2>2 DEF IInv, SignInTypeOK, GuessesAreCounted
  <2>4. HeldLinksAreOpen' /\ UsedLinksAreClosed'
    BY <1>a, <2>1 DEF HeldLinksAreOpen, UsedLinksAreClosed, IsAt, LinkOpen
  <2> QED
    BY <2>2, <2>3, <2>4 DEF IInv
<1>20. CASE LockEnds
  <2>1. /\ locked /\ locked' = FALSE /\ wrong' = 0
        /\ UNCHANGED <<status, password, outdated, failed, sessions, links, request, uses>>
    BY <1>20 DEF LockEnds
  <2>2. locked' \in BOOLEAN
    BY <2>1
  <2>3. SignInTypeOK'
    BY <1>a, <2>1, <2>2 DEF SignInTypeOK
  <2>4. GuessesAreCounted' /\ (locked => failed = 0)'
    BY <2>1 DEF IInv, GuessesAreCounted
  <2>5. LeaversAreSignedOut' /\ HeldLinksAreOpen' /\ UsedLinksAreClosed'
    BY <1>a, <2>1 DEF LeaversAreSignedOut, Open, HeldLinksAreOpen, UsedLinksAreClosed, IsAt, LinkOpen
  <2> QED
    BY <2>3, <2>4, <2>5 DEF IInv
<1>21. CASE UNCHANGED vars
  BY <1>21, <1>a, <1>b, CarryingKeeps DEF vars
<1> QED
  BY <1>1, <1>2, <1>3, <1>4, <1>5, <1>6, <1>7, <1>8, <1>9, <1>10, <1>11, <1>12, <1>13, <1>14, <1>15, <1>16, <1>17, <1>18, <1>19, <1>20, <1>21 DEF Next

\* The inductive invariant holds throughout.
THEOREM InvariantHolds == Spec => []IInv
<1>1. Init => IInv
  BY InitHolds
<1>2. IInv /\ [Next]_vars => IInv'
  BY InvariantStep
<1> QED
  BY <1>1, <1>2, PTL DEF Spec

-------------------------------------------------------------------------------
(* What follows from it                                                    *)

\* Every variable keeps its type; in particular the count of failures never reaches the lock.
THEOREM TypeCorrect == Spec => []SignInTypeOK
<1>1. IInv => SignInTypeOK
  BY DEF IInv
<1> QED
  BY <1>1, InvariantHolds, PTL

\* However many wrong passwords are checked at the same time, each one counts (after_failed_login
\* runs under the lock of the account's row).
THEOREM EveryGuessCounts == Spec => []GuessesAreCounted
<1>1. IInv => GuessesAreCounted
  BY DEF IInv
<1> QED
  BY <1>1, InvariantHolds, PTL

\* Whoever left the team or deleted the account is signed out, and no sign-in that was under way
\* undoes that (login looks at the status again under the lock).
THEOREM LeaversStayOut == Spec => []LeaversAreSignedOut
<1>1. IInv => LeaversAreSignedOut
  BY DEF IInv
<1> QED
  BY <1>1, InvariantHolds, PTL

\* However many requests open a reset link at once, it sets one password.
THEOREM LinksServeOnce == Spec => []ALinkServesOnce
<1>1. IInv => ALinkServesOnce
  BY DEF IInv, UsedLinksAreClosed, ALinkServesOnce
<1> QED
  BY <1>1, InvariantHolds, PTL

\* What a locked account keeps shut.
LockedStep ==
    locked =>
        /\ \A s \in Sessions : sessions[s] = "none" => sessions'[s] = "none"
        /\ status' = "deleted" => status = "deleted"
        /\ password' # password => uses' # uses \/ \E r \in Requests : IsAt(r, "rehash")

\* A password that was found right before the lock is refused under it.
THEOREM TheLockStands == Spec => TheLockHolds
<1>1. IInv /\ [Next]_vars => LockedStep
  <2> SUFFICES ASSUME IInv, [Next]_vars, locked PROVE LockedStep
    BY DEF LockedStep
  <2> USE DEF LockedStep, account
  <2>a. /\ SignInTypeOK /\ LeaversAreSignedOut
        /\ sessions \in [Sessions -> {"none", "fresh", "idle", "expired", "ended"}]
    BY DEF IInv, SignInTypeOK
  <2>1. ASSUME NEW r \in Requests, \/ \E p \in Passwords : ReadLogin(r, p)
                                   \/ RefuseLogin(r) \/ FailLogin(r) \/ RefuseCheck(r) \/ FailCheck(r)
                                   \/ HoldLink(r) \/ BreakDeadlock(r)
        PROVE  LockedStep
    BY <2>1 DEF ReadLogin, RefuseLogin, FailLogin, RefuseCheck, FailCheck, HoldLink, BreakDeadlock
  <2>2. ASSUME NEW r \in Requests, Rehash(r) PROVE LockedStep
    BY <2>2 DEF Rehash
  <2>3. ASSUME NEW r \in Requests, Touch(r) PROVE LockedStep
    BY <2>3, <2>a DEF Touch, Open, SignInTypeOK
  <2>4. ASSUME NEW r \in Requests, NEW old, NEW s, Login(r, old, s) PROVE FALSE
    BY <2>4 DEF Login, Refused
  <2>5. ASSUME NEW r \in Requests,
               \/ \E s \in Sessions : ReadSession(r, s)
               \/ \E s \in Sessions, p \in Passwords, new \in Passwords : ReadChange(r, s, p, new)
               \/ \E s \in Sessions, p \in Passwords : ReadDelete(r, s, p)
        PROVE  LockedStep
    BY <2>5 DEF ReadSession, ReadChange, ReadDelete
  <2>6. ASSUME NEW r \in Requests, ChangePassword(r) \/ DeleteSelf(r) PROVE FALSE
    BY <2>6 DEF ChangePassword, DeleteSelf
  <2>7. ASSUME NEW r \in Requests, NEW l \in Links, NEW new \in Passwords, ReadLink(r, l, new)
        PROVE  LockedStep
    BY <2>7 DEF ReadLink
  <2>8. ASSUME NEW r \in Requests, ResetPassword(r) PROVE LockedStep
    <3>1. request[r].link \in Links
      BY <2>8, <2>a, WhatRequestsCarry DEF ResetPassword, IsAt, SignInTypeOK
    <3>2. uses' # uses
      BY <2>8, <2>a, <3>1 DEF ResetPassword, SignInTypeOK
    <3>3. \A s \in Sessions : sessions[s] = "none" => sessions'[s] = "none"
      BY <2>8, <2>a, EndedEnds DEF ResetPassword, Open
    <3> QED
      BY <2>8, <3>2, <3>3 DEF ResetPassword
  <2>9. ASSUME NEW s \in Sessions, Logout(s) \/ RemoveExpired(s) \/ SessionAges(s) PROVE LockedStep
    BY <2>9, <2>a, EndedEnds, ZenonT(40) DEF Logout, RemoveExpired, SessionAges, Open
  <2>10. ASSUME NEW l \in Links, IssueLink(l) \/ LinkExpires(l) PROVE LockedStep
    BY <2>10 DEF IssueLink, LinkExpires
  <2>11. CASE Deactivate \/ Activate \/ RevokeSessions \/ LockEnds \/ PurgeExpired
    <3>1. /\ password' = password /\ (status' = "deleted" => status = "deleted")
          /\ sessions' = sessions \/ \E S : sessions' = Ended(S)
      BY <2>11 DEF Deactivate, Activate, RevokeSessions, LockEnds, PurgeExpired, SessionsOfLeaver
    <3>2. \A s \in Sessions : sessions[s] = "none" => sessions'[s] = "none"
      BY <2>a, <3>1, EndedEnds DEF Open
    <3> QED
      BY <3>1, <3>2
  <2>12. CASE UNCHANGED vars
    BY <2>12 DEF vars
  <2> QED
    BY <2>1, <2>2, <2>3, <2>4, <2>5, <2>6, <2>7, <2>8, <2>9, <2>10, <2>11, <2>12 DEF Next
<1> QED
  BY <1>1, InvariantHolds, PTL DEF Spec, TheLockHolds, LockedStep
===============================================================================
