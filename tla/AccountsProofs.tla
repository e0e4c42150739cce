---------------------------- MODULE AccountsProofs ----------------------------
(***************************************************************************)
(* Proofs about accounts, invites, names and addresses, for any number of  *)
(* people, invites and requests at the same time.                          *)
(*                                                                         *)
(* Accounts: who is active bears no date to be deleted by, and an invite   *)
(* that made an account is used up.  Names: a request that checked a name  *)
(* knows of everyone who has taken one that looks the same since.          *)
(***************************************************************************)
EXTENDS MCAccounts, FiniteSetTheorems, TLAPS

\* left_at is set exactly for those who are not active.
OnlyLeaversAreDated ==
    \A p \in People : Exists(p) => (users[p].left = "no" <=> users[p].status = "active")

\* An invite that made an account made one, and is used.
UsedInvitesMadeOne == \A i \in Invites : uses[i] = 0 \/ (uses[i] = 1 /\ invites[i].state = "used")

IInv == AccountsTypeOK /\ OnlyLeaversAreDated /\ UsedInvitesMadeOne

-------------------------------------------------------------------------------
(* Helpers                                                                 *)

\* What a request carries, by what it is about to do.
LEMMA WhatRequestsCarry ==
    ASSUME NEW c \in Waiting \union {Idle}
    PROVE  /\ c.step = "admin" => c.actor \in People
           /\ c.step = "revoke" => c.actor \in People /\ c.invite \in Invites
           /\ c.step \in {"leave", "first"} => c.person \in People
           /\ c.step = "register" => c.person \in People /\ c.invite \in Invites
           /\ c.step = "purge" => c.due \subseteq People
BY DEF Waiting, Idle

\* An account that exists is a row, and one that is made or changed exists.
LEMMA AccountsExist ==
    /\ \A p \in People : users \in [People -> Account \union {Nobody, Gone}] =>
           (Exists(p) <=> users[p] \in Account)
    /\ \A role \in Roles : New(role) \in Account
    /\ Old \in Account
    /\ \A u \in Account, role \in Roles \union {Keep}, status \in Statuses \union {Keep} :
           Changed(u, role, status) \in Account
    /\ \A u \in Account : [u EXCEPT !.left = "recent"] \in Account /\ [u EXCEPT !.left = "due"] \in Account
BY AccountsAssumption DEF Exists, Account, New, Old, Changed, LeftAt, Roles, Statuses

\* update_user and mark_alumni date exactly those who are not active any more.
LEMMA ChangesDateLeavers ==
    ASSUME NEW u \in Account, u.left = "no" <=> u.status = "active",
           NEW role \in Roles \union {Keep}, NEW status \in Statuses \union {Keep}
    PROVE  LET new == Changed(u, role, status)
           IN  /\ new.left = "no" <=> new.status = "active"
               /\ new.role = IF role = Keep THEN u.role ELSE role
               /\ new.status = IF status = Keep THEN u.status ELSE status
BY AccountsAssumption DEF Account, Changed, LeftAt, Statuses

\* Somebody else is an admin when the only one may not leave.
LEMMA AnotherAdmin ==
    ASSUME NEW p \in ActiveAdmins, NotTheOnlyAdmin(p)
    PROVE  \E q \in ActiveAdmins : q # p
<1> SUFFICES ASSUME \A q \in ActiveAdmins : q = p PROVE FALSE
  OBVIOUS
<1>1. ActiveAdmins = {p}
  OBVIOUS
<1>2. Cardinality(ActiveAdmins) = 1
  BY <1>1, FS_Singleton
<1> QED
  BY <1>2 DEF NotTheOnlyAdmin

-------------------------------------------------------------------------------
(* What a step may do to accounts, and why                                 *)

\* A request that was waiting for r's turn had it.
HadItsTurn(r, step) == r \in Requests /\ IsAt(r, step) /\ request'[r] # request[r]

Joins == \E p \in People, role \in Roles : users[p] = Nobody /\ users' = [users EXCEPT ![p] = New(role)]

\* An active admin deletes or changes others.
AdminsDo ==
    \E r \in Requests :
        /\ HadItsTurn(r, "admin") /\ request[r].actor \in ActiveAdmins
        /\ \A p \in People :
              \/ users'[p] = users[p]
              \/ /\ p # request[r].actor /\ Exists(p)
                 /\ \/ users'[p] = Gone
                    \/ \E role \in Roles \union {Keep}, status \in Statuses \union {Keep} :
                          users'[p] = Changed(users[p], role, status)

\* Somebody who is not the only admin deletes their own account.
OwnerLeaves ==
    \E r \in Requests :
        /\ HadItsTurn(r, "leave") /\ Exists(request[r].person) /\ NotTheOnlyAdmin(request[r].person)
        /\ users' = [users EXCEPT ![request[r].person] = Gone]

\* The night's job deletes accounts that are not active.
NightDeletes ==
    \E r \in Requests :
        /\ HadItsTurn(r, "purge")
        /\ \A p \in People : users'[p] = users[p] \/ (users'[p] = Gone /\ StillInactive(p))

\* Who left gets a date, or it comes to be due.
TimePasses ==
    \A p \in People :
        \/ users'[p] = users[p]
        \/ /\ Exists(p) /\ users[p].left # "no"
           /\ \E left \in {"recent", "due"} : users'[p] = [users[p] EXCEPT !.left = left]

UsersStep ==
    /\ users' \in [People -> Account \union {Nobody, Gone}]
    /\ UNCHANGED users \/ Joins \/ AdminsDo \/ OwnerLeaves \/ NightDeletes \/ TimePasses

\* A request that leaves a step of its own behind was not idle.
LEMMA GoingIdle ==
    ASSUME AccountsTypeOK, NEW r \in Requests, NEW step, step # "idle", IsAt(r, step), Goes(r, Idle)
    PROVE  /\ request' \in [Requests -> Waiting \union {Idle}]
           /\ HadItsTurn(r, step)
BY DEF AccountsTypeOK, Goes, HadItsTurn, IsAt, Idle

\* Every action changes accounts in one of these ways, and keeps what requests carry in order.
LEMMA EveryStepIsAUsersStep ==
    ASSUME IInv, [Next]_vars
    PROVE  UsersStep /\ request' \in [Requests -> Waiting \union {Idle}]
<1> DEFINE Carried == request' \in [Requests -> Waiting \union {Idle}]
<1> USE DEF UsersStep
<1>a. /\ AccountsTypeOK /\ users \in [People -> Account \union {Nobody, Gone}]
      /\ request \in [Requests -> Waiting \union {Idle}]
      /\ invites \in [Invites -> [state : {"none", "open", "used", "closed"}, role : Roles]]
  BY DEF IInv, AccountsTypeOK
<1>b. ASSUME NEW r \in Requests, NEW c \in Waiting, Goes(r, c) PROVE Carried
  BY <1>a, <1>b DEF Goes
<1>c. \A p \in People : Exists(p) <=> users[p] \in Account
  BY <1>a, AccountsExist
<1>1. ASSUME NEW r \in Requests, NEW p \in People, NEW i \in Invites, ReadInvite(r, p, i)
      PROVE  UsersStep /\ Carried
  <2>1. [step |-> "register", person |-> p, invite |-> i] \in Waiting
    BY DEF Waiting
  <2> QED
    BY <1>1, <1>a, <1>b, <2>1 DEF ReadInvite
<1>2. ASSUME NEW r \in Requests, NEW p \in People, ReadAdmins(r, p) \/ SignIn(r, p) \/ ReadSelf(r, p)
      PROVE  UsersStep /\ Carried
  <2>1. /\ [step |-> "first", person |-> p] \in Waiting /\ [step |-> "admin", actor |-> p] \in Waiting
        /\ [step |-> "leave", person |-> p] \in Waiting
    BY DEF Waiting
  <2> QED
    BY <1>2, <1>a, <1>b, <2>1 DEF ReadAdmins, SignIn, ReadSelf
<1>3. ASSUME NEW r \in Requests, Register(r) PROVE UsersStep /\ Carried
  <2>1. request[r].person \in People /\ request[r].invite \in Invites /\ Carried
    BY <1>3, <1>a, WhatRequestsCarry, GoingIdle DEF Register, IsAt
  <2>2. invites[request[r].invite].role \in Roles
    BY <1>a, <2>1
  <2>3. UNCHANGED users \/ Joins
    BY <1>3, <2>1, <2>2 DEF Register, Joins
  <2>4. users' \in [People -> Account \union {Nobody, Gone}]
    BY <1>a, <2>3, AccountsExist DEF Joins
  <2> QED
    BY <2>1, <2>3, <2>4
<1>4. ASSUME NEW r \in Requests, CreateFirstAdmin(r) PROVE UsersStep /\ Carried
  <2>1. request[r].person \in People /\ Carried
    BY <1>4, <1>a, WhatRequestsCarry, GoingIdle DEF CreateFirstAdmin, IsAt
  <2>2. UNCHANGED users \/ Joins
    BY <1>4, <2>1 DEF CreateFirstAdmin, Joins, Roles
  <2>3. users' \in [People -> Account \union {Nobody, Gone}]
    BY <1>a, <2>2, AccountsExist DEF Joins
  <2> QED
    BY <2>1, <2>2, <2>3
<1>5. ASSUME NEW r \in Requests, NEW p \in People, NEW role \in Roles \union {Keep},
             NEW status \in Statuses \union {Keep}, UpdateUser(r, p, role, status)
      PROVE  UsersStep /\ Carried
  <2>1. Carried /\ HadItsTurn(r, "admin")
    BY <1>5, <1>a, GoingIdle DEF UpdateUser
  <2>2. CASE UNCHANGED users
    BY <1>a, <2>1, <2>2
  <2>3. CASE /\ MayUpdate(request[r].actor, p, role, status)
             /\ users' = [users EXCEPT ![p] = Changed(@, role, status)]
    <3>1. p # request[r].actor /\ request[r].actor \in ActiveAdmins /\ Exists(p)
      BY <2>3 DEF MayUpdate, StillAdmin
    <3>2. users[p] \in Account /\ Changed(users[p], role, status) \in Account
      BY <1>c, <3>1, AccountsExist
    <3>3. users' = [users EXCEPT ![p] = Changed(users[p], role, status)]
      BY <1>a, <2>3
    <3>4. users' \in [People -> Account \union {Nobody, Gone}]
      BY <1>a, <3>2, <3>3
    <3>5. AdminsDo
      BY <1>a, <2>1, <3>1, <3>3 DEF AdminsDo
    <3> QED
      BY <2>1, <3>4, <3>5
  <2> QED
    BY <1>5, <2>2, <2>3 DEF UpdateUser
<1>6. ASSUME NEW r \in Requests, NEW S \in SUBSET People, MarkAlumni(r, S) PROVE UsersStep /\ Carried
  <2>1. Carried /\ HadItsTurn(r, "admin")
    BY <1>6, <1>a, GoingIdle DEF MarkAlumni
  <2>2. CASE UNCHANGED users
    BY <1>a, <2>1, <2>2
  <2>3. CASE StillAdmin(request[r].actor) /\ ~ UNCHANGED users
    <3>1. /\ users' = [p \in People |->
                        IF p \in S \ {request[r].actor} /\ Exists(p) /\ users[p].status # "alumni"
                          THEN Changed(users[p], Keep, "alumni") ELSE users[p]]
          /\ request[r].actor \in ActiveAdmins
      BY <1>6, <2>3 DEF MarkAlumni, StillAdmin
    <3>2. Keep \in Roles \union {Keep} /\ "alumni" \in Statuses \union {Keep}
      BY DEF Statuses
    <3>3. \A p \in People : Exists(p) => Changed(users[p], Keep, "alumni") \in Account
      BY <1>c, <3>2, AccountsExist
    <3>4. users' \in [People -> Account \union {Nobody, Gone}]
      BY <1>a, <3>1, <3>3
    <3>5. AdminsDo
      BY <2>1, <3>1, <3>2 DEF AdminsDo
    <3> QED
      BY <2>1, <3>4, <3>5
  <2> QED
    BY <1>6, <2>2, <2>3 DEF MarkAlumni
<1>7. ASSUME NEW r \in Requests, NEW p \in People, DeleteUser(r, p) PROVE UsersStep /\ Carried
  <2>1. Carried /\ HadItsTurn(r, "admin")
    BY <1>7, <1>a, GoingIdle DEF DeleteUser
  <2>2. CASE UNCHANGED users
    BY <1>a, <2>1, <2>2
  <2>3. CASE StillAdmin(request[r].actor) /\ Exists(p) /\ users' = [users EXCEPT ![p] = Gone]
    <3>1. AdminsDo
      BY <1>7, <1>a, <2>1, <2>3 DEF AdminsDo, DeleteUser, StillAdmin
    <3> QED
      BY <1>a, <2>1, <2>3, <3>1
  <2> QED
    BY <1>7, <2>2, <2>3 DEF DeleteUser
<1>8. ASSUME NEW r \in Requests, NEW i \in Invites, ReadRevoke(r, i) PROVE UsersStep /\ Carried
  <2>1. request[r].actor \in People
    BY <1>8, <1>a, WhatRequestsCarry DEF ReadRevoke, IsAt
  <2>2. [step |-> "revoke", actor |-> request[r].actor, invite |-> i] \in Waiting
    BY <2>1 DEF Waiting
  <2> QED
    BY <1>8, <1>a, <1>b, <2>2 DEF ReadRevoke
<1>9. ASSUME NEW r \in Requests, RevokeInvite(r) \/ \E i \in Invites, role \in Roles : CreateInvite(r, i, role)
      PROVE  UsersStep /\ Carried
  BY <1>9, <1>a, GoingIdle DEF RevokeInvite, CreateInvite
<1>10. ASSUME NEW r \in Requests, DeleteSelf(r) PROVE UsersStep /\ Carried
  <2>1. request[r].person \in People /\ Carried /\ HadItsTurn(r, "leave")
    BY <1>10, <1>a, WhatRequestsCarry, GoingIdle DEF DeleteSelf, IsAt
  <2>2. UNCHANGED users \/ OwnerLeaves
    BY <1>10, <2>1 DEF DeleteSelf, OwnerLeaves
  <2>3. users' \in [People -> Account \union {Nobody, Gone}]
    BY <1>a, <2>2 DEF OwnerLeaves
  <2> QED
    BY <2>1, <2>2, <2>3
<1>11. ASSUME NEW r \in Requests, ListDue(r) PROVE UsersStep /\ Carried
  <2>1. [step |-> "purge", due |-> {p \in People : Exists(p) /\ users[p].left = "due"}] \in Waiting
    BY DEF Waiting
  <2>2. Carried
    BY <1>11, <1>b, <2>1 DEF ListDue
  <2>3. users' \in [People -> Account \union {Nobody, Gone}]
    BY <1>11, <1>a, <1>c, AccountsExist DEF ListDue
  <2>4. TimePasses
    BY <1>11 DEF ListDue, TimePasses
  <2> QED
    BY <2>2, <2>3, <2>4
<1>12. ASSUME NEW r \in Requests, Purge(r) PROVE UsersStep /\ Carried
  <2>1. Carried /\ HadItsTurn(r, "purge")
    BY <1>12, <1>a, GoingIdle DEF Purge
  <2>2. users' \in [People -> Account \union {Nobody, Gone}] /\ NightDeletes
    BY <1>12, <1>a, <2>1 DEF Purge, NightDeletes
  <2> QED
    BY <2>1, <2>2
<1>13. ASSUME NEW i \in Invites, InviteExpires(i) \/ \E role \in Roles : InviteFromServer(i, role)
       PROVE  UsersStep /\ Carried
  BY <1>13, <1>a DEF InviteExpires, InviteFromServer
<1>14. ASSUME NEW p \in People, YearPasses(p) PROVE UsersStep /\ Carried
  <2>1. users' = [users EXCEPT ![p] = [users[p] EXCEPT !.left = "due"]]
    BY <1>14, <1>a DEF YearPasses
  <2>2. users[p] \in Account /\ users[p].left # "no"
    BY <1>14, <1>c DEF YearPasses
  <2>3. users' \in [People -> Account \union {Nobody, Gone}]
    BY <1>a, <2>1, <2>2, AccountsExist
  <2>4. TimePasses
    BY <1>a, <1>c, <2>1, <2>2 DEF TimePasses
  <2> QED
    BY <1>14, <1>a, <2>3, <2>4 DEF YearPasses
<1>15. CASE UNCHANGED vars
  BY <1>15, <1>a DEF vars
<1> QED
  BY <1>1, <1>2, <1>3, <1>4, <1>5, <1>6, <1>7, <1>8, <1>9, <1>10, <1>11, <1>12, <1>13, <1>14, <1>15 DEF Next

-------------------------------------------------------------------------------
(* The invariant                                                           *)

InviteRows == [Invites -> [state : {"none", "open", "used", "closed"}, role : Roles]]

\* An invite is used once: only an open one makes an account, and no invite is opened again.
LEMMA InvitesAreKept ==
    ASSUME IInv, [Next]_vars
    PROVE  invites' \in InviteRows /\ uses' \in [Invites -> Nat] /\ UsedInvitesMadeOne'
<1> USE DEF InviteRows
<1>a. /\ invites \in InviteRows /\ uses \in [Invites -> Nat] /\ UsedInvitesMadeOne
      /\ request \in [Requests -> Waiting \union {Idle}]
  BY DEF IInv, AccountsTypeOK
<1>b. ASSUME UNCHANGED <<invites, uses>>
      PROVE  invites' \in InviteRows /\ uses' \in [Invites -> Nat] /\ UsedInvitesMadeOne'
  BY <1>a, <1>b DEF UsedInvitesMadeOne
<1>1. ASSUME NEW r \in Requests, Register(r)
      PROVE  invites' \in InviteRows /\ uses' \in [Invites -> Nat] /\ UsedInvitesMadeOne'
  <2> DEFINE i == request[r].invite
  <2>1. i \in Invites
    BY <1>1, <1>a, WhatRequestsCarry DEF Register, IsAt
  <2>2. CASE UNCHANGED <<invites, uses>>
    BY <1>b, <2>2
  <2>3. CASE /\ StillOpen(i)
             /\ invites' = [invites EXCEPT ![i].state = "used"]
             /\ uses' = [uses EXCEPT ![i] = @ + 1]
    <3>1. uses[i] = 0
      BY <1>a, <2>1, <2>3 DEF UsedInvitesMadeOne, StillOpen, LinkOpen
    <3>2. invites' \in InviteRows /\ uses' \in [Invites -> Nat]
      BY <1>a, <2>1, <2>3
    <3>3. uses'[i] = 1 /\ invites'[i].state = "used"
      BY <1>a, <2>1, <2>3, <3>1
    <3>4. \A j \in Invites : j # i => uses'[j] = uses[j] /\ invites'[j] = invites[j]
      BY <1>a, <2>1, <2>3
    <3> QED
      BY <1>a, <3>2, <3>3, <3>4 DEF UsedInvitesMadeOne
  <2> QED
    BY <1>1, <2>2, <2>3 DEF Register
<1>2. ASSUME NEW i \in Invites, NEW role \in Roles, invites[i].state = "none", UNCHANGED uses,
             invites' = [invites EXCEPT ![i] = [state |-> "open", role |-> role]]
      PROVE  invites' \in InviteRows /\ uses' \in [Invites -> Nat] /\ UsedInvitesMadeOne'
  <2>1. invites' \in InviteRows
    BY <1>2, <1>a
  <2> QED
    BY <1>2, <1>a, <2>1 DEF UsedInvitesMadeOne
<1>3. ASSUME NEW i \in Invites, UNCHANGED uses,
             invites' = [invites EXCEPT ![i].state = IF @ = "open" THEN "closed" ELSE @]
      PROVE  invites' \in InviteRows /\ uses' \in [Invites -> Nat] /\ UsedInvitesMadeOne'
  <2>1. invites' \in InviteRows
    BY <1>3, <1>a
  <2>2. \A j \in Invites : invites[j].state = "used" => invites'[j].state = "used"
    BY <1>3, <1>a
  <2> QED
    BY <1>3, <1>a, <2>1, <2>2 DEF UsedInvitesMadeOne
<1>4. ASSUME NEW r \in Requests, NEW i \in Invites, NEW role \in Roles, CreateInvite(r, i, role)
      PROVE  invites' \in InviteRows /\ uses' \in [Invites -> Nat] /\ UsedInvitesMadeOne'
  BY <1>4, <1>2, <1>b DEF CreateInvite
<1>5. ASSUME NEW i \in Invites, NEW role \in Roles, InviteFromServer(i, role)
      PROVE  invites' \in InviteRows /\ uses' \in [Invites -> Nat] /\ UsedInvitesMadeOne'
  BY <1>5, <1>2 DEF InviteFromServer
<1>6. ASSUME NEW r \in Requests, RevokeInvite(r)
      PROVE  invites' \in InviteRows /\ uses' \in [Invites -> Nat] /\ UsedInvitesMadeOne'
  <2>1. request[r].invite \in Invites
    BY <1>6, <1>a, WhatRequestsCarry DEF RevokeInvite, IsAt
  <2> QED
    BY <1>6, <1>3, <2>1 DEF RevokeInvite
<1>7. ASSUME NEW i \in Invites, InviteExpires(i)
      PROVE  invites' \in InviteRows /\ uses' \in [Invites -> Nat] /\ UsedInvitesMadeOne'
  <2>1. invites' = [invites EXCEPT ![i].state = IF @ = "open" THEN "closed" ELSE @]
    BY <1>7, <1>a DEF InviteExpires, LinkOpen
  <2> QED
    BY <1>7, <1>3, <2>1 DEF InviteExpires
<1>8. \/ UNCHANGED <<invites, uses>>
      \/ \E r \in Requests : Register(r) \/ RevokeInvite(r)
      \/ \E r \in Requests, i \in Invites, role \in Roles : CreateInvite(r, i, role)
      \/ \E i \in Invites, role \in Roles : InviteFromServer(i, role)
      \/ \E i \in Invites : InviteExpires(i)
  BY DEF Next, vars, ReadInvite, ReadAdmins, SignIn, DeleteUser, ReadSelf, UpdateUser, CreateFirstAdmin,
         DeleteSelf, ListDue, Purge, MarkAlumni, ReadRevoke, YearPasses
<1> QED
  BY <1>b, <1>1, <1>4, <1>5, <1>6, <1>7, <1>8

\* Whatever happens to an account, who is active bears no date and everyone else has one.
LEMMA LeaversAreDated ==
    ASSUME IInv, UsersStep
    PROVE  OnlyLeaversAreDated'
<1>a. users \in [People -> Account \union {Nobody, Gone}] /\ OnlyLeaversAreDated
  BY DEF IInv, AccountsTypeOK
<1>b. users' \in [People -> Account \union {Nobody, Gone}]
  BY DEF UsersStep
<1>c. \A p \in People : (Exists(p) <=> users[p] \in Account) /\ (Exists(p)' <=> users'[p] \in Account)
  BY <1>a, <1>b, AccountsAssumption DEF Exists
<1>d. \A p \in People : users'[p] = users[p] => (Exists(p)' => (users'[p].left = "no" <=> users'[p].status = "active"))
  BY <1>a, <1>c DEF OnlyLeaversAreDated
<1>e. \A p \in People : users'[p] = Gone => ~ Exists(p)'
  BY DEF Exists
<1> SUFFICES ASSUME NEW p \in People, Exists(p)', users'[p] # users[p]
             PROVE  users'[p].left = "no" <=> users'[p].status = "active"
  BY <1>d DEF OnlyLeaversAreDated
<1>1. CASE Joins
  BY <1>1, <1>a DEF Joins, New
<1>2. CASE AdminsDo
  <2>1. PICK role \in Roles \union {Keep}, status \in Statuses \union {Keep} :
           Exists(p) /\ users'[p] = Changed(users[p], role, status)
    BY <1>2, <1>e DEF AdminsDo
  <2>2. users[p] \in Account /\ (users[p].left = "no" <=> users[p].status = "active")
    BY <1>a, <1>c, <2>1 DEF OnlyLeaversAreDated
  <2> QED
    BY <2>1, <2>2, ChangesDateLeavers
<1>3. CASE OwnerLeaves
  BY <1>3, <1>a, <1>e DEF OwnerLeaves
<1>4. CASE NightDeletes
  BY <1>4, <1>e DEF NightDeletes
<1>5. CASE TimePasses
  <2>1. Exists(p) /\ users[p].left # "no" /\ \E left \in {"recent", "due"} : users'[p] = [users[p] EXCEPT !.left = left]
    BY <1>5 DEF TimePasses
  <2>2. users[p] \in Account /\ users[p].status # "active"
    BY <1>a, <1>c, <2>1 DEF OnlyLeaversAreDated
  <2> QED
    BY <2>1, <2>2 DEF Account
<1> QED
  BY <1>1, <1>2, <1>3, <1>4, <1>5 DEF UsersStep

LEMMA InitHolds == Init => IInv
<1> SUFFICES ASSUME Init PROVE IInv
  OBVIOUS
<1>1. users \in [People -> Account \union {Nobody, Gone}]
  BY AccountsExist DEF Init
<1>2. OnlyLeaversAreDated
  BY DEF Init, OnlyLeaversAreDated, Exists, Old
<1>3. invites \in InviteRows /\ request \in [Requests -> Waiting \union {Idle}] /\ uses \in [Invites -> Nat]
  BY DEF Init, InviteRows, Roles
<1>4. UsedInvitesMadeOne
  BY DEF Init, UsedInvitesMadeOne
<1> QED
  BY <1>1, <1>2, <1>3, <1>4 DEF IInv, AccountsTypeOK, InviteRows

LEMMA StepKeepsIt == IInv /\ [Next]_vars => IInv'
<1> SUFFICES ASSUME IInv, [Next]_vars PROVE IInv'
  OBVIOUS
<1>1. UsersStep /\ request' \in [Requests -> Waiting \union {Idle}]
  BY EveryStepIsAUsersStep
<1>2. invites' \in InviteRows /\ uses' \in [Invites -> Nat] /\ UsedInvitesMadeOne'
  BY InvitesAreKept
<1>3. OnlyLeaversAreDated'
  BY <1>1, LeaversAreDated
<1> QED
  BY <1>1, <1>2, <1>3 DEF IInv, AccountsTypeOK, UsersStep, InviteRows

\* The inductive invariant holds.
THEOREM InvariantHolds == Spec => []IInv
BY InitHolds, StepKeepsIt, PTL DEF Spec

\* Every variable keeps its type.
THEOREM TypeCorrect == Spec => []AccountsTypeOK
<1>1. IInv => AccountsTypeOK
  BY DEF IInv
<1> QED
  BY <1>1, InvariantHolds, PTL

\* _guard_last_admin: whoever changes or leaves, an active admin is still there after a step that began
\* with one.
THEOREM AnAdminStays == Spec => AlwaysAnAdmin
<1>1. ASSUME IInv, [Next]_vars, ActiveAdmins # {} PROVE ActiveAdmins' # {}
  <2>a. /\ UsersStep /\ users \in [People -> Account \union {Nobody, Gone}] /\ OnlyLeaversAreDated
    BY <1>1, EveryStepIsAUsersStep DEF IInv, AccountsTypeOK
  <2>b. \A p \in ActiveAdmins : users'[p] = users[p] => p \in ActiveAdmins'
    BY DEF ActiveAdmins, Exists
  <2>c. \A p \in ActiveAdmins : p \in People /\ Exists(p) /\ users[p].status = "active" /\ users[p].left = "no"
    BY <2>a DEF ActiveAdmins, OnlyLeaversAreDated
  <2>1. CASE UNCHANGED users
    BY <1>1, <2>1, <2>b
  <2>2. CASE Joins
    BY <1>1, <2>2, <2>a, <2>b, <2>c DEF Joins, Exists
  <2>3. CASE AdminsDo
    BY <2>3, <2>b, <2>c DEF AdminsDo
  <2>4. CASE OwnerLeaves
    <3>1. PICK r \in Requests : /\ NotTheOnlyAdmin(request[r].person)
                                /\ users' = [users EXCEPT ![request[r].person] = Gone]
      BY <2>4 DEF OwnerLeaves
    <3>2. \E q \in ActiveAdmins : q # request[r].person
      BY <1>1, <3>1, AnotherAdmin
    <3> QED
      BY <3>1, <3>2, <2>a, <2>b, <2>c
  <2>5. CASE NightDeletes
    BY <1>1, <2>5, <2>b, <2>c DEF NightDeletes, StillInactive
  <2>6. CASE TimePasses
    BY <1>1, <2>6, <2>b, <2>c DEF TimePasses
  <2> QED
    BY <2>a, <2>1, <2>2, <2>3, <2>4, <2>5, <2>6 DEF UsersStep
<1> QED
  BY <1>1, InvariantHolds, PTL DEF Spec, AlwaysAnAdmin

\* check_still_admin under ADMIN_LOCK, and the night's second look: an account changes or goes only by an
\* admin who still is one, by its owner, or by the night when it is not active.
THEOREM OnlyAdminsChangeAccounts == Spec => OnlyAdminsDecide
<1> DEFINE Differs(p) == \/ ~ Exists(p)' \/ users'[p].role # users[p].role
                         \/ users'[p].status # users[p].status
           Decided(p) == \E r \in Requests :
                           /\ request'[r] # request[r]
                           /\ \/ IsAt(r, "admin") /\ request[r].actor \in ActiveAdmins /\ request[r].actor # p
                              \/ ~ Exists(p)' /\ IsAt(r, "leave") /\ request[r].person = p
                              \/ ~ Exists(p)' /\ IsAt(r, "purge") /\ users[p].status # "active"
           Dated(p) == Exists(p)' => (users'[p].left = "no" <=> users'[p].status = "active")
<1>1. ASSUME IInv, [Next]_vars, NEW p \in People, Exists(p), Differs(p) PROVE Decided(p)
  <2>a. /\ UsersStep /\ users \in [People -> Account \union {Nobody, Gone}] /\ users[p] \in Account
    BY <1>1, EveryStepIsAUsersStep, AccountsExist DEF IInv, AccountsTypeOK
  <2>b. users'[p] # users[p]
    BY <1>1 DEF Exists
  <2>1. CASE Joins
    BY <1>1, <2>1, <2>a, <2>b DEF Joins, Exists
  <2>2. CASE AdminsDo
    BY <2>2, <2>b DEF AdminsDo, HadItsTurn
  <2>3. CASE OwnerLeaves
    <3>1. PICK r \in Requests : HadItsTurn(r, "leave") /\ users' = [users EXCEPT ![request[r].person] = Gone]
      BY <2>3 DEF OwnerLeaves
    <3>2. request[r].person = p /\ ~ Exists(p)'
      BY <2>a, <2>b, <3>1 DEF Exists
    <3> QED
      BY <3>1, <3>2 DEF HadItsTurn
  <2>4. CASE NightDeletes
    <3>1. PICK r \in Requests : HadItsTurn(r, "purge") /\ users'[p] = Gone /\ StillInactive(p)
      BY <2>4, <2>b DEF NightDeletes
    <3> QED
      BY <3>1 DEF HadItsTurn, StillInactive, Exists
  <2>5. CASE TimePasses
    <3>1. PICK left \in {"recent", "due"} : users'[p] = [users[p] EXCEPT !.left = left]
      BY <2>5, <2>b DEF TimePasses
    <3>2. users'[p] \in Account /\ users'[p].role = users[p].role /\ users'[p].status = users[p].status
      BY <2>a, <3>1 DEF Account
    <3> QED
      BY <1>1, <3>2, AccountsAssumption DEF Exists
  <2> QED
    BY <2>a, <2>b, <2>1, <2>2, <2>3, <2>4, <2>5 DEF UsersStep
<1>2. ASSUME IInv, [Next]_vars, NEW p \in People PROVE Dated(p)
  BY <1>2, StepKeepsIt DEF IInv, OnlyLeaversAreDated
<1>3. IInv /\ [Next]_vars =>
        \A p \in People :
          /\ Exists(p) /\ (~ Exists(p)' \/ users'[p].role # users[p].role \/ users'[p].status # users[p].status) =>
               \E r \in Requests :
                  /\ request'[r] # request[r]
                  /\ \/ IsAt(r, "admin") /\ request[r].actor \in ActiveAdmins /\ request[r].actor # p
                     \/ ~ Exists(p)' /\ IsAt(r, "leave") /\ request[r].person = p
                     \/ ~ Exists(p)' /\ IsAt(r, "purge") /\ users[p].status # "active"
          /\ Exists(p)' => (users'[p].left = "no" <=> users'[p].status = "active")
  BY <1>1, <1>2
<1> QED
  BY <1>3, InvariantHolds, PTL DEF Spec, OnlyAdminsDecide

-------------------------------------------------------------------------------
(* Names and addresses                                                     *)

Person == [name : DisplayNames, email : Emails]

Checked ==
    [step : {"new"}, who : Persons, name : DisplayNames, email : Emails, beside : SUBSET Persons]
        \union [step : {"name"}, who : Persons, name : DisplayNames, beside : SUBSET Persons]
        \union [step : {"email"}, who : Persons, email : Emails]

NamesTypeOK ==
    /\ person \in [Persons -> Person \union {NoPerson}]
    /\ form \in [Forms -> Checked \union {NoForm}]

TakesAName(f) == form[f].step \in {"new", "name"}

\* Who has a name that looks like the one a request checked has taken it since.
LookalikesAreKnown ==
    \A f \in Forms : TakesAName(f) =>
        \A q \in Rows \ {form[f].who} :
            person[q].name.looks = form[f].name.looks => q \in form[f].beside

NInv == NamesTypeOK /\ LookalikesAreKnown /\ NamesStayApart

\* What a form holds, by what it is to save.
LEMMA WhatFormsHold ==
    ASSUME NEW c \in Checked \union {NoForm}
    PROVE  /\ c = NoForm <=> c.step = "none"
           /\ c.step \in {"none", "new", "name", "email"}
           /\ c # NoForm => c \in Checked /\ c.who \in Persons
           /\ c.step \in {"new", "name"} => c.name \in DisplayNames /\ c.beside \subseteq Persons
           /\ c.step \in {"new", "email"} => c.email \in Emails
           /\ \A b \in SUBSET Persons : c.step \in {"new", "name"} =>
                 /\ [c EXCEPT !.beside = b] \in Checked
                 /\ [c EXCEPT !.beside = b].step = c.step
                 /\ [c EXCEPT !.beside = b].who = c.who
                 /\ [c EXCEPT !.beside = b].name = c.name
                 /\ [c EXCEPT !.beside = b].beside = b
BY DEF Checked, NoForm

\* A name that has just been checked looks like nobody else's.
LEMMA CheckingKeepsApart ==
    ASSUME NInv, NEW f \in Forms, NEW c \in Checked, Fill(f, c), UNCHANGED <<person, together>>,
           c.step # "email" => ~ NameTaken(c.name, {c.who})
    PROVE  NInv'
<1>1. NamesTypeOK'
  BY DEF NInv, NamesTypeOK, Fill
<1>2. form'[f] = c /\ \A g \in Forms : g # f => form'[g] = form[g]
  BY DEF NInv, NamesTypeOK, Fill
<1>3. LookalikesAreKnown'
  BY <1>2 DEF NInv, LookalikesAreKnown, TakesAName, NameTaken, Rows
<1>4. NamesStayApart'
  BY DEF NInv, NamesStayApart, Rows
<1> QED
  BY <1>1, <1>3, <1>4 DEF NInv

\* The database refuses the same name or address, and whoever takes a look shows it to those who checked it.
LEMMA SavingKeepsApart ==
    ASSUME NInv, NEW f \in Forms, Save(f)
    PROVE  NInv'
<1> DEFINE p == form[f].who
           new == Filled(f)
           TakesIt == form[f].step # "email"
<1>a. /\ person \in [Persons -> Person \union {NoPerson}] /\ form \in [Forms -> Checked \union {NoForm}]
      /\ LookalikesAreKnown /\ NamesStayApart
  BY DEF NInv, NamesTypeOK
<1>b. /\ form[f] # NoForm /\ (form[f].step = "new" <=> p \notin Rows) /\ ~ Clashes(p, new)
      /\ person' = [person EXCEPT ![p] = new] /\ form' = Noticed(f)
      /\ together' = IF ~ TakesIt THEN together
                     ELSE {t \in together : p \notin t} \union {{p, q} : q \in form[f].beside}
  BY DEF Save, Saves
<1>c. p \in Persons /\ form[f].step \in {"new", "name", "email"}
  BY <1>a, <1>b, WhatFormsHold
<1>d. /\ new \in Person
      /\ TakesIt => new.name = form[f].name
      /\ ~ TakesIt => p \in Rows /\ new.name = person[p].name
  <2>1. CASE form[f].step = "new"
    BY <1>a, <2>1, WhatFormsHold DEF Filled, Person
  <2>2. CASE form[f].step = "name"
    <3>1. p \in Rows /\ person[p] \in Person /\ form[f].name \in DisplayNames
      BY <1>a, <1>b, <1>c, <2>2, WhatFormsHold DEF Rows
    <3>2. new = [person[p] EXCEPT !.name = form[f].name]
      BY <2>2 DEF Filled
    <3> QED
      BY <3>1, <3>2, <2>2 DEF Person
  <2>3. CASE form[f].step = "email"
    <3>1. p \in Rows /\ person[p] \in Person /\ form[f].email \in Emails
      BY <1>a, <1>b, <1>c, <2>3, WhatFormsHold DEF Rows
    <3>2. new = [person[p] EXCEPT !.email = form[f].email]
      BY <2>3 DEF Filled
    <3> QED
      BY <3>1, <3>2, <2>3 DEF Person
  <2> QED
    BY <1>c, <2>1, <2>2, <2>3
<1> HIDE DEF new
<1>e. /\ person' \in [Persons -> Person \union {NoPerson}]
      /\ person'[p] = new /\ \A q \in Persons : q # p => person'[q] = person[q]
  BY <1>a, <1>b, <1>c, <1>d
<1>f. Rows' \subseteq Rows \union {p} /\ Rows \subseteq Persons /\ Rows' \subseteq Persons
  BY <1>e DEF Rows
<1>g. ASSUME NEW g \in Forms
      PROVE  /\ form'[g] \in Checked \union {NoForm}
             /\ TakesAName(g)' => /\ g # f /\ TakesAName(g) /\ form'[g].who = form[g].who
                                  /\ form'[g].name = form[g].name
                                  /\ form'[g].beside = IF TakesIt THEN form[g].beside \union {p} ELSE form[g].beside
  <2>1. CASE g = f
    BY <1>b, <2>1 DEF Noticed, TakesAName, NoForm
  <2>2. CASE g # f /\ TakesIt /\ TakesAName(g)
    <3>1. form[g].beside \union {p} \in SUBSET Persons
      BY <1>a, <1>c, <2>2, WhatFormsHold DEF TakesAName
    <3>2. form'[g] = [form[g] EXCEPT !.beside = form[g].beside \union {p}]
      BY <1>b, <2>2 DEF Noticed, TakesAName
    <3> QED
      BY <1>a, <2>2, <3>1, <3>2, WhatFormsHold DEF TakesAName
  <2>3. CASE g # f /\ ~ (TakesIt /\ TakesAName(g))
    <3>1. form'[g] = form[g]
      BY <1>b, <2>3 DEF Noticed, TakesAName
    <3> QED
      BY <1>a, <2>3, <3>1 DEF TakesAName
  <2> QED
    BY <2>1, <2>2, <2>3
<1>1. NamesTypeOK'
  BY <1>b, <1>e, <1>g DEF NamesTypeOK, Noticed
<1>2. LookalikesAreKnown'
  <2> SUFFICES ASSUME NEW g \in Forms, TakesAName(g)', NEW q \in Rows', q # form'[g].who,
                      person'[q].name.looks = form'[g].name.looks
               PROVE  q \in form'[g].beside
    BY DEF LookalikesAreKnown
  <2>1. CASE q = p /\ TakesIt
    BY <1>g, <2>1
  <2>2. CASE q # p
    BY <1>a, <1>e, <1>f, <1>g, <2>2 DEF LookalikesAreKnown
  <2>3. CASE q = p /\ ~ TakesIt
    BY <1>a, <1>d, <1>e, <1>g, <2>3 DEF LookalikesAreKnown
  <2> QED
    BY <2>1, <2>2, <2>3
<1>3. NamesStayApart'
  <2>1. ASSUME NEW q \in Rows', q # p
        PROVE  /\ q \in Rows /\ person'[q] = person[q]
               /\ person[q].name.lower # new.name.lower /\ person[q].email # new.email
               /\ person[q].name.looks = new.name.looks => {p, q} \in together'
    <3>1. q \in Rows /\ person'[q] = person[q]
      BY <1>e, <1>f, <2>1
    <3>2. person[q].name.lower # new.name.lower /\ person[q].email # new.email
      BY <1>b, <2>1, <3>1 DEF Clashes
    <3>3. CASE TakesIt
      <4>1. TakesAName(f)
        BY <1>c, <3>3 DEF TakesAName
      <4>2. person[q].name.looks = new.name.looks => q \in form[f].beside
        BY <1>a, <1>d, <2>1, <3>1, <3>3, <4>1 DEF LookalikesAreKnown
      <4> QED
        BY <1>b, <3>1, <3>2, <3>3, <4>2
    <3>4. CASE ~ TakesIt
      <4>1. person[q].name.looks = person[p].name.looks => {p, q} \in together
        BY <1>a, <1>d, <2>1, <3>1, <3>4 DEF NamesStayApart
      <4> QED
        BY <1>b, <1>d, <3>1, <3>2, <3>4, <4>1
    <3> QED
      BY <3>3, <3>4
  <2>2. ASSUME NEW q \in Rows', NEW s \in Rows', q # p, s # p, q # s
        PROVE  /\ person'[q].name.lower # person'[s].name.lower /\ person'[q].email # person'[s].email
               /\ person'[q].name.looks = person'[s].name.looks => {q, s} \in together'
    <3>1. p \notin {q, s} /\ q \in Rows /\ s \in Rows /\ person'[q] = person[q] /\ person'[s] = person[s]
      BY <1>e, <1>f, <2>2
    <3>2. {q, s} \in together => {q, s} \in together'
      BY <1>b, <3>1
    <3> QED
      BY <1>a, <2>2, <3>1, <3>2 DEF NamesStayApart
  <2>3. SUFFICES ASSUME NEW q \in Rows', NEW s \in Rows', q # s
                 PROVE  /\ person'[q].name.lower # person'[s].name.lower /\ person'[q].email # person'[s].email
                        /\ person'[q].name.looks = person'[s].name.looks => {q, s} \in together'
    BY DEF NamesStayApart
  <2>4. {q, s} = {s, q}
    OBVIOUS
  <2>5. CASE q = p
    BY <1>e, <2>1, <2>3, <2>5
  <2>6. CASE s = p
    BY <1>e, <2>1, <2>3, <2>4, <2>6
  <2> QED
    BY <2>2, <2>3, <2>5, <2>6
<1> QED
  BY <1>1, <1>2, <1>3 DEF NInv

\* An account that goes takes nothing from the others.
LEMMA FreeingKeepsApart ==
    ASSUME NInv, NEW p \in Persons, Free(p)
    PROVE  NInv'
<1>a. /\ person \in [Persons -> Person \union {NoPerson}] /\ form \in [Forms -> Checked \union {NoForm}]
      /\ LookalikesAreKnown /\ NamesStayApart
  BY DEF NInv, NamesTypeOK
<1>b. /\ person' \in [Persons -> Person \union {NoPerson}]
      /\ \A q \in Rows' : q \in Rows /\ q # p /\ person'[q] = person[q]
  BY <1>a DEF Free, Rows
<1>c. ASSUME NEW g \in Forms
      PROVE  /\ form'[g] \in Checked \union {NoForm}
             /\ TakesAName(g)' => /\ TakesAName(g) /\ form'[g].who = form[g].who
                                  /\ form'[g].name = form[g].name /\ form'[g].beside = form[g].beside \ {p}
  <2>1. CASE TakesAName(g)
    <3>1. form[g].beside \ {p} \in SUBSET Persons
      BY <1>a, <2>1, WhatFormsHold DEF TakesAName
    <3>2. form'[g] = [form[g] EXCEPT !.beside = form[g].beside \ {p}]
      BY <2>1 DEF Free, TakesAName
    <3> QED
      BY <1>a, <2>1, <3>1, <3>2, WhatFormsHold DEF TakesAName
  <2>2. CASE ~ TakesAName(g)
    BY <1>a, <2>2 DEF Free, TakesAName
  <2> QED
    BY <2>1, <2>2
<1>1. NamesTypeOK'
  BY <1>b, <1>c DEF NamesTypeOK, Free
<1>2. LookalikesAreKnown'
  BY <1>a, <1>b, <1>c DEF LookalikesAreKnown
<1>3. NamesStayApart'
  <2>1. \A q, s \in Rows' : {q, s} \in together => {q, s} \in together'
    BY <1>b DEF Free
  <2> QED
    BY <1>a, <1>b, <2>1 DEF NamesStayApart
<1> QED
  BY <1>1, <1>2, <1>3 DEF NInv

LEMMA NamesInitHolds == NamesInit => NInv
BY DEF NamesInit, NInv, NamesTypeOK, LookalikesAreKnown, NamesStayApart, TakesAName, Rows, NoForm

LEMMA NamesStepKeepsIt == NInv /\ [NamesNext]_namesVars => NInv'
<1> SUFFICES ASSUME NInv, [NamesNext]_namesVars PROVE NInv'
  OBVIOUS
<1>1. ASSUME NEW f \in Forms, NEW p \in Persons, NEW n \in DisplayNames, NEW e \in Emails,
             CheckNewUser(f, p, n, e)
      PROVE  NInv'
  <2> DEFINE c == [step |-> "new", who |-> p, name |-> n, email |-> e, beside |-> {}]
  <2>1. c \in Checked
    BY DEF Checked
  <2>2. ~ NameTaken(c.name, {c.who})
    BY <1>1 DEF CheckNewUser, NameTaken
  <2> QED
    BY <1>1, <2>1, <2>2, CheckingKeepsApart DEF CheckNewUser
<1>2. ASSUME NEW f \in Forms, NEW p \in Persons, NEW n \in DisplayNames, CheckName(f, p, n) PROVE NInv'
  <2> DEFINE c == [step |-> "name", who |-> p, name |-> n, beside |-> {}]
  <2>1. c \in Checked
    BY DEF Checked
  <2> QED
    BY <1>2, <2>1, CheckingKeepsApart DEF CheckName
<1>3. ASSUME NEW f \in Forms, NEW p \in Persons, NEW e \in Emails, CheckEmail(f, p, e) PROVE NInv'
  <2> DEFINE c == [step |-> "email", who |-> p, email |-> e]
  <2>1. c \in Checked
    BY DEF Checked
  <2> QED
    BY <1>3, <2>1, CheckingKeepsApart DEF CheckEmail
<1>4. ASSUME NEW f \in Forms, Save(f) PROVE NInv'
  BY <1>4, SavingKeepsApart
<1>5. ASSUME NEW f \in Forms, Refuse(f) PROVE NInv'
  <2>1. NamesTypeOK'
    BY <1>5 DEF Refuse, NInv, NamesTypeOK
  <2>2. LookalikesAreKnown'
    BY <1>5 DEF Refuse, NInv, NamesTypeOK, LookalikesAreKnown, TakesAName, Rows, NoForm
  <2>3. NamesStayApart'
    BY <1>5 DEF Refuse, NInv, NamesStayApart, Rows
  <2> QED
    BY <2>1, <2>2, <2>3 DEF NInv
<1>6. ASSUME NEW p \in Persons, Free(p) PROVE NInv'
  BY <1>6, FreeingKeepsApart
<1>7. CASE UNCHANGED namesVars
  BY <1>7 DEF namesVars, NInv, NamesTypeOK, LookalikesAreKnown, NamesStayApart, TakesAName, Rows
<1> QED
  BY <1>1, <1>2, <1>3, <1>4, <1>5, <1>6, <1>7 DEF NamesNext

\* The inductive invariant of names holds.
THEOREM NamesInvariantHolds == NamesSpec => []NInv
BY NamesInitHolds, NamesStepKeepsIt, PTL DEF NamesSpec

-------------------------------------------------------------------------------
(* Together                                                                *)

\* The composition implements each of its parts.
THEOREM ThePartsAreImplemented == AccountsSpec => Spec /\ NamesSpec
<1>1. AccountsInit => Init /\ NamesInit
  BY DEF AccountsInit
<1>2. [AccountsNext]_accountsVars => [Next]_vars /\ [NamesNext]_namesVars
  BY DEF AccountsNext, accountsVars, vars, namesVars
<1> QED
  BY <1>1, <1>2, PTL DEF AccountsSpec, Spec, NamesSpec

\* An invite makes one account however many open it, nobody has another's name or address, and two names
\* look alike only when they were taken at the same moment.
THEOREM JoiningStaysSafe == AccountsSpec => []JoiningIsSafe
<1>1. IInv => AnInviteServesOnce
  BY DEF IInv, UsedInvitesMadeOne, AnInviteServesOnce
<1>2. NInv => NamesStayApart
  BY DEF NInv
<1> QED
  BY <1>1, <1>2, InvariantHolds, NamesInvariantHolds, ThePartsAreImplemented, PTL DEF JoiningIsSafe
===============================================================================
