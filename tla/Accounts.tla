------------------------------- MODULE Accounts -------------------------------
(***************************************************************************)
(* Who has an account, in which role and standing: the first admin,        *)
(* invites, what admins change, and how accounts go (services/accounts.py, *)
(* privacy.py).                                                            *)
(*                                                                         *)
(* The route checks that the session is an admin's (api/deps.py) and hands *)
(* its connection back; the service starts a transaction of its own later. *)
(* What every change of admins does under ADMIN_LOCK until its commit is   *)
(* one action; a registration or a deletion that hashes a password first,  *)
(* and the night's job between its list and the lock, are two.  A person   *)
(* stands for an email address: an account is made once for each.          *)
(***************************************************************************)
EXTENDS Naturals, FiniteSets

CONSTANTS
    People,     \* the email addresses
    Invites,    \* bound: the invites that may be made
    Requests,   \* the requests and jobs that run at the same time
    Nobody,     \* no account yet
    Gone,       \* the account was deleted (bound: its address is not used again)
    Keep        \* a field the admin does not send

Roles == {"member", "reviewer", "admin"}
Statuses == {"active", "alumni", "disabled"}

VARIABLES
    users,      \* the rows of `users`, by email
    invites,    \* the rows of `invites`
    request,    \* what each request has read and still has to do
    uses        \* history: the accounts made with each invite

vars == <<users, invites, request, uses>>

\* left_at is not set, not set by an older release, within ALUMNI_KEEP, or before it.
Account == [role : Roles, status : Statuses, left : {"no", "undated", "recent", "due"}]

\* What stands for something absent is none of what may be there.
ASSUME AccountsAssumption ==
    /\ Nobody # Gone /\ {Nobody, Gone} \cap Account = {}
    /\ Keep \notin Roles \union Statuses

Idle == [step |-> "idle"]
Waiting ==
    [step : {"admin"}, actor : People]
        \union [step : {"revoke"}, actor : People, invite : Invites]
        \union [step : {"leave", "first"}, person : People]
        \union [step : {"register"}, person : People, invite : Invites]
        \union [step : {"purge"}, due : SUBSET People]

Exists(p) == users[p] \notin {Nobody, Gone}
IsAt(r, step) == request[r].step = step
Goes(r, next) == request' = [request EXCEPT ![r] = next]

\* _active_admin_ids.
ActiveAdmins == {p \in People : Exists(p) /\ users[p].role = "admin" /\ users[p].status = "active"}

Old == [role |-> "member", status |-> "alumni", left |-> "undated"]

Init ==
    /\ users \in [People -> {Nobody, Old}]
    /\ invites = [i \in Invites |-> [state |-> "none", role |-> "member"]]
    /\ request = [r \in Requests |-> Idle]
    /\ uses = [i \in Invites |-> 0]

-------------------------------------------------------------------------------
(* Joining                                                                 *)

New(role) == [role |-> role, status |-> "active", left |-> "no"]

\* link_open.
LinkOpen(i) == invites[i].state = "open"

\* A slip: the invite is not looked at again.
OpenAgain(i) == TRUE

\* open_invite under the lock of its row.
StillOpen(i) == LinkOpen(i)

ReadInvite(r, p, i) ==
    /\ IsAt(r, "idle") /\ LinkOpen(i) /\ users[p] = Nobody
    /\ Goes(r, [step |-> "register", person |-> p, invite |-> i])
    /\ UNCHANGED <<users, invites, uses>>

\* An address that was taken meanwhile leaves the invite open.
Register(r) ==
    /\ IsAt(r, "register")
    /\ LET p == request[r].person  i == request[r].invite IN
       IF StillOpen(i) /\ users[p] = Nobody
         THEN /\ users' = [users EXCEPT ![p] = New(invites[i].role)]
              /\ invites' = [invites EXCEPT ![i].state = "used"]
              /\ uses' = [uses EXCEPT ![i] = @ + 1]
         ELSE UNCHANGED <<users, invites, uses>>
    /\ Goes(r, Idle)

\* create_first_admin, before and after the password is hashed.
ReadAdmins(r, p) ==
    /\ IsAt(r, "idle") /\ ActiveAdmins = {} /\ users[p] = Nobody
    /\ Goes(r, [step |-> "first", person |-> p])
    /\ UNCHANGED <<users, invites, uses>>

CreateFirstAdmin(r) ==
    /\ IsAt(r, "first")
    /\ LET p == request[r].person IN
       users' = IF users[p] = Nobody THEN [users EXCEPT ![p] = New("admin")] ELSE users
    /\ Goes(r, Idle)
    /\ UNCHANGED <<invites, uses>>

-------------------------------------------------------------------------------
(* What an admin does                                                      *)

\* require_admin.
SignIn(r, a) ==
    /\ IsAt(r, "idle") /\ a \in ActiveAdmins
    /\ Goes(r, [step |-> "admin", actor |-> a])
    /\ UNCHANGED <<users, invites, uses>>

\* A slip: whoever was an admin when the request came in.
WasAdmin(a) == TRUE

\* check_still_admin.
StillAdmin(a) == a \in ActiveAdmins

\* loses_admin.
LosesAdmin(p, role, status) ==
    p \in ActiveAdmins /\ (role \notin {Keep, "admin"} \/ status \notin {Keep, "active"})

\* left_at, for an account that gets this status.
LeftAt(u, status) ==
    IF status = "active" THEN "no" ELSE IF u.left \in {"no", "undated"} THEN "recent" ELSE u.left

\* A slip: a field that was not sent is emptied.
ChangedWhole(u, role, status) == [role |-> role, status |-> status, left |-> LeftAt(u, status)]

\* What update_user sets of the fields that were sent.
Changed(u, role, status) ==
    [role   |-> IF role = Keep THEN u.role ELSE role,
     status |-> IF status = Keep THEN u.status ELSE status,
     left   |-> IF status \in {Keep, u.status} THEN u.left ELSE LeftAt(u, status)]

\* What update_user lets the actor do to another account, under ADMIN_LOCK.
MayUpdate(a, p, role, status) ==
    /\ p # a /\ StillAdmin(a) /\ Exists(p)
    /\ ~ (LosesAdmin(p, role, status) /\ Cardinality(ActiveAdmins) <= 1)

UpdateUser(r, p, role, status) ==
    /\ IsAt(r, "admin")
    /\ users' = IF MayUpdate(request[r].actor, p, role, status)
                  THEN [users EXCEPT ![p] = Changed(@, role, status)] ELSE users
    /\ Goes(r, Idle)
    /\ UNCHANGED <<invites, uses>>

MarkAlumni(r, S) ==
    /\ IsAt(r, "admin")
    /\ LET a == request[r].actor IN
       users' = IF ~ StillAdmin(a) THEN users
                ELSE [p \in People |->
                        IF p \in S \ {a} /\ Exists(p) /\ users[p].status # "alumni"
                          THEN Changed(users[p], Keep, "alumni") ELSE users[p]]
    /\ Goes(r, Idle)
    /\ UNCHANGED <<invites, uses>>

\* A slip: _guard_last_admin is left out.
MayLeave(p) == TRUE

\* _guard_last_admin.
NotTheOnlyAdmin(p) == ~ (p \in ActiveAdmins /\ Cardinality(ActiveAdmins) <= 1)

DeleteUser(r, p) ==
    /\ IsAt(r, "admin") /\ p # request[r].actor
    /\ users' = IF StillAdmin(request[r].actor) /\ Exists(p) /\ NotTheOnlyAdmin(p)
                  THEN [users EXCEPT ![p] = Gone] ELSE users
    /\ Goes(r, Idle)
    /\ UNCHANGED <<invites, uses>>

\* create_invite looks no more at who asks, but the row refers to an account that exists.
CreateInvite(r, i, role) ==
    /\ IsAt(r, "admin") /\ invites[i].state = "none"
    /\ invites' = IF Exists(request[r].actor)
                    THEN [invites EXCEPT ![i] = [state |-> "open", role |-> role]] ELSE invites
    /\ Goes(r, Idle)
    /\ UNCHANGED <<users, uses>>

\* The command line's invite, made in the name of an active admin.
InviteFromServer(i, role) ==
    /\ ActiveAdmins # {} /\ invites[i].state = "none"
    /\ invites' = [invites EXCEPT ![i] = [state |-> "open", role |-> role]]
    /\ UNCHANGED <<users, request, uses>>

\* revoke_invite reads the invite without a lock and then dates its end.
ReadRevoke(r, i) ==
    /\ IsAt(r, "admin") /\ LinkOpen(i)
    /\ Goes(r, [step |-> "revoke", actor |-> request[r].actor, invite |-> i])
    /\ UNCHANGED <<users, invites, uses>>

RevokeInvite(r) ==
    /\ IsAt(r, "revoke")
    /\ invites' = [invites EXCEPT ![request[r].invite].state = IF @ = "open" THEN "closed" ELSE @]
    /\ Goes(r, Idle)
    /\ UNCHANGED <<users, uses>>

-------------------------------------------------------------------------------
(* Leaving                                                                 *)

\* delete_self, before and after the password is checked.
ReadSelf(r, p) ==
    /\ IsAt(r, "idle") /\ Exists(p) /\ users[p].status = "active"
    /\ Goes(r, [step |-> "leave", person |-> p])
    /\ UNCHANGED <<users, invites, uses>>

DeleteSelf(r) ==
    /\ IsAt(r, "leave")
    /\ LET p == request[r].person IN
       users' = IF Exists(p) /\ NotTheOnlyAdmin(p) THEN [users EXCEPT ![p] = Gone] ELSE users
    /\ Goes(r, Idle)
    /\ UNCHANGED <<invites, uses>>

\* The night's job dates what an older release left undated and lists who is due ...
ListDue(r) ==
    /\ IsAt(r, "idle")
    /\ users' = [p \in People |-> IF Exists(p) /\ users[p].left = "undated"
                                    THEN [users[p] EXCEPT !.left = "recent"] ELSE users[p]]
    /\ Goes(r, [step |-> "purge", due |-> {p \in People : Exists(p) /\ users[p].left = "due"}])
    /\ UNCHANGED <<invites, uses>>

\* A slip: whoever is on the list.
AsListed(p) == TRUE

\* Not reactivated since.
StillInactive(p) == Exists(p) /\ users[p].status # "active"

\* ... and deletes them under ADMIN_LOCK, which it keeps from the first of them to its commit.
Purge(r) ==
    /\ IsAt(r, "purge")
    /\ users' = [p \in People |-> IF p \in request[r].due /\ StillInactive(p) THEN Gone ELSE users[p]]
    /\ Goes(r, Idle)
    /\ UNCHANGED <<invites, uses>>

YearPasses(p) ==
    /\ Exists(p) /\ users[p].left = "recent"
    /\ users' = [users EXCEPT ![p].left = "due"]
    /\ UNCHANGED <<invites, request, uses>>

InviteExpires(i) ==
    /\ LinkOpen(i)
    /\ invites' = [invites EXCEPT ![i].state = "closed"]
    /\ UNCHANGED <<users, request, uses>>

Next ==
    \/ \E r \in Requests, p \in People :
          \/ \E i \in Invites : ReadInvite(r, p, i)
          \/ ReadAdmins(r, p) \/ SignIn(r, p) \/ DeleteUser(r, p) \/ ReadSelf(r, p)
          \/ \E role \in Roles \union {Keep}, status \in Statuses \union {Keep} :
                UpdateUser(r, p, role, status)
    \/ \E r \in Requests :
          \/ Register(r) \/ CreateFirstAdmin(r) \/ RevokeInvite(r)
          \/ DeleteSelf(r) \/ ListDue(r) \/ Purge(r)
          \/ \E S \in SUBSET People : MarkAlumni(r, S)
          \/ \E i \in Invites : ReadRevoke(r, i) \/ \E role \in Roles : CreateInvite(r, i, role)
    \/ \E i \in Invites : InviteExpires(i) \/ \E role \in Roles : InviteFromServer(i, role)
    \/ \E p \in People : YearPasses(p)

Spec == Init /\ [][Next]_vars

-------------------------------------------------------------------------------
(* Properties                                                              *)

\* The types.
AccountsTypeOK ==
    /\ users \in [People -> Account \union {Nobody, Gone}]
    /\ invites \in [Invites -> [state : {"none", "open", "used", "closed"}, role : Roles]]
    /\ request \in [Requests -> Waiting \union {Idle}]
    /\ uses \in [Invites -> Nat]

\* Once there is an active admin there always is one, whoever demotes, disables, deletes or leaves at
\* the same time, and whatever the night deletes.
AlwaysAnAdmin == [][ActiveAdmins # {} => ActiveAdmins' # {}]_vars

\* An existing account's role and standing change only by an admin who is one at that very moment.  It
\* goes by such an admin, by its owner, or by the night's job, which deletes nobody who is active by then
\* though its list says so; and an active account bears no date to be deleted by, so who is reactivated
\* and leaves again gets a whole year.
OnlyAdminsDecide ==
    [][\A p \in People :
         /\ Exists(p) /\ (~ Exists(p)' \/ users'[p].role # users[p].role \/ users'[p].status # users[p].status) =>
              \E r \in Requests :
                 /\ request'[r] # request[r]
                 /\ \/ IsAt(r, "admin") /\ request[r].actor \in ActiveAdmins /\ request[r].actor # p
                    \/ ~ Exists(p)' /\ IsAt(r, "leave") /\ request[r].person = p
                    \/ ~ Exists(p)' /\ IsAt(r, "purge") /\ users[p].status # "active"
         /\ Exists(p)' => (users'[p].left = "no" <=> users'[p].status = "active")]_vars

\* An invite makes one account, though two people open it at the same time.
AnInviteServesOnce == \A i \in Invites : uses[i] <= 1
===============================================================================
