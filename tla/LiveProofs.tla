------------------------------- MODULE LiveProofs -------------------------------
(***************************************************************************)
(* Proofs about the live quiz, for any number of accounts, tables and      *)
(* questions, and any number of sharers and crashes.                       *)
(*                                                                         *)
(* First the session: its inductive invariant says what each guard relies  *)
(* on: how the position goes with the state and how far the host's screens *)
(* can be (StageOK), and who may sit and captain where (SeatingOK).  It    *)
(* holds of sharing too, for sharing and deleting never take a step that   *)
(* the session has not.  What sharing adds rests on two kinds of lock, and *)
(* the invariant says what each one protects: the answer's row             *)
(* (RowsAreHeldOnce, AllMembersAreSeenTo) and the player's                 *)
(* (PlayersAreHeldOnce, RepeatsAreKnown).                                  *)
(***************************************************************************)
EXTENDS LiveShare, FiniteSetTheorems, Sums, TLAPS

-------------------------------------------------------------------------------
(* The session                                                             *)

\* The lobby has no current question, a running quiz has one, and the host's screens never show a
\* step that is still to come.
StageOK ==
    /\ state \in {"none", "lobby"} => position = -1
    /\ state \in {"open", "closed"} => position \in Questions
    /\ screen <= Stage

\* The host never plays; players have accounts; whoever has a seat is a player who was not removed,
\* at a table that exists; nobody joins before there is a session; and captains sit at the table
\* they captain.
SeatingOK ==
    /\ player[Host] = "out"
    /\ state # "none" /\ Host \in accounts => host = Host
    /\ state = "none" => \A u \in Users : player[u] = "out"
    /\ \A u \in Users : player[u] # "out" => u \in accounts
    /\ \A u \in Users : seat[u] # NoTable => player[u] = "in" /\ seat[u] \in tables
    /\ CaptainsSitAtTheirTable

\* A follow-up is owed for accounts that are gone.
OwedAreGone == owed \intersect accounts = {}

IInv == TypeOK /\ StageOK /\ SeatingOK /\ OwedAreGone

-------------------------------------------------------------------------------
(* Helpers                                                                 *)

\* Of any accounts, if there are any, one ranks at least as high as all.
LEMMA SomebodyRanksHighest ==
    ASSUME NEW M \in SUBSET Users, M # {}
    PROVE  \E u \in M : \A v \in M : AtLeast(u, v)
<1> DEFINE Led(s) == \E u \in s : \A v \in s : AtLeast(u, v)
           K == {n \in Nat : \A s \in SUBSET Users : s # {} /\ Cardinality(s) <= n => Led(s)}
<1>1. \A s \in SUBSET Users : IsFiniteSet(s) /\ Cardinality(s) \in Nat
  BY IdsAssumption, FS_Subset, FS_CardinalityType
<1>2. 0 \in K
  <2> SUFFICES ASSUME NEW s \in SUBSET Users, s # {}, Cardinality(s) <= 0 PROVE FALSE
    OBVIOUS
  <2>1. Cardinality(s) = 0
    BY <1>1
  <2> QED
    BY <1>1, <2>1, FS_EmptySet
<1>3. ASSUME NEW n \in Nat, n \in K PROVE n + 1 \in K
  <2> SUFFICES ASSUME NEW s \in SUBSET Users, s # {}, Cardinality(s) <= n + 1 PROVE Led(s)
    OBVIOUS
  <2>1. PICK x \in s : TRUE
    OBVIOUS
  <2>2. x \in Nat /\ RankPoints[x] \in Nat /\ \A v \in s : v \in Nat /\ RankPoints[v] \in Nat
    BY IdsAssumption, SettingsAssumption
  <2>3. CASE s \ {x} = {}
    <3>1. \A v \in s : v = x
      BY <2>3
    <3>2. AtLeast(x, x)
      BY <2>2 DEF AtLeast
    <3> QED
      BY <3>1, <3>2
  <2>4. CASE s \ {x} # {}
    <3>1. s \ {x} \in SUBSET Users /\ Cardinality(s \ {x}) <= n
      <4>1. IsFiniteSet(s) /\ Cardinality(s) \in Nat
        BY <1>1
      <4>2. Cardinality(s \ {x}) = Cardinality(s) - 1
        BY <4>1, OneLess
      <4> QED
        BY <2>1, <4>1, <4>2
    <3>2. PICK u \in s \ {x} : \A v \in s \ {x} : AtLeast(u, v)
      BY <1>3, <2>4, <3>1
    <3>3. CASE AtLeast(u, x)
      BY <3>2, <3>3
    <3>4. CASE ~AtLeast(u, x)
      <4>1. \A v \in s : AtLeast(x, v)
        BY <2>2, <3>2, <3>4 DEF AtLeast
      <4> QED
        BY <4>1
    <3> QED
      BY <3>3, <3>4
  <2> QED
    BY <2>3, <2>4
<1>4. Cardinality(M) \in K
  <2> HIDE DEF K
  <2> QED
    BY <1>1, <1>2, <1>3, Induction
<1> QED
  BY <1>1, <1>4

\* rules.captain picks a member of a table that has members, and nobody for an empty one.
LEMMA BestIsAMember ==
    ASSUME NEW M \in SUBSET Users
    PROVE  /\ M = {} => Best(M) = NoUser
           /\ M # {} => Best(M) \in M
<1>1. CASE M = {}
  BY <1>1 DEF Best
<1>2. CASE M # {}
  <2>1. \E u \in M : \A v \in M : AtLeast(u, v)
    BY <1>2, SomebodyRanksHighest
  <2> QED
    BY <1>2, <2>1 DEF Best
<1> QED
  BY <1>1, <1>2

\* _recaptain leaves the captains there are, adds members of their table only, and leaves no table
\* that it goes through without a captain while somebody sits there.
LEMMA RecaptainFillsTables ==
    ASSUME NEW captains \in [Tables -> Users \union {NoUser}],
           NEW seats \in [Users -> Tables \union {NoTable}],
           NEW ts
    PROVE  LET new == Recaptain(captains, seats, ts)
           IN  /\ new \in [Tables -> Users \union {NoUser}]
               /\ \A t \in Tables : captains[t] # NoUser => new[t] = captains[t]
               /\ \A t \in Tables : new[t] # NoUser /\ new[t] # captains[t] => seats[new[t]] = t
               /\ \A u \in Users : seats[u] \in ts /\ seats[u] \in Tables => new[seats[u]] # NoUser
<1> DEFINE At(t) == {u \in Users : seats[u] = t}
           new == Recaptain(captains, seats, ts)
<1>1. \A t \in Tables : Best(At(t)) \in Users \union {NoUser}
  BY BestIsAMember
<1>2. \A t \in Tables : Best(At(t)) # NoUser => seats[Best(At(t))] = t
  BY BestIsAMember
<1>3. \A u \in Users : seats[u] \in Tables => Best(At(seats[u])) \in Users
  BY BestIsAMember
<1>4. \A t \in Tables : new[t] = IF t \in ts /\ captains[t] = NoUser THEN Best(At(t)) ELSE captains[t]
  BY DEF Recaptain
<1>5. new \in [Tables -> Users \union {NoUser}]
  BY <1>1 DEF Recaptain
<1>6. \A t \in Tables : captains[t] # NoUser => new[t] = captains[t]
  BY <1>4
<1>7. \A t \in Tables : new[t] # NoUser /\ new[t] # captains[t] => seats[new[t]] = t
  BY <1>2, <1>4
<1>8. \A u \in Users : seats[u] \in ts /\ seats[u] \in Tables => new[seats[u]] # NoUser
  BY <1>3, <1>4, IdsAssumption
<1> HIDE DEF new
<1> QED
  BY <1>5, <1>6, <1>7, <1>8 DEF new

\* Clearing someone's captaincies leaves everybody else's.
LEMMA StripCaptainClears ==
    ASSUME captain \in [Tables -> Users \union {NoUser}], NEW u, NEW except
    PROVE  LET new == StripCaptain(u, except)
           IN  /\ new \in [Tables -> Users \union {NoUser}]
               /\ \A t \in Tables : new[t] # NoUser => new[t] = captain[t] /\ (new[t] = u => t = except)
BY DEF StripCaptain

-------------------------------------------------------------------------------
(* The inductive invariant                                                 *)

LEMMA InitHolds == Init => IInv
<1> SUFFICES ASSUME Init PROVE IInv
  OBVIOUS
<1> USE DEF Init
<1>1. TypeOK
  <2>1. config \in Configs
    BY SettingsAssumption
  <2>2. noticed \in BOOLEAN /\ leaving \in BOOLEAN /\ lost \in BOOLEAN
    BY Zenon
  <2>3. screen \in Stages
    BY SettingsAssumption DEF Stages
  <2>4. host \in {Host, NoUser} /\ version \in Nat /\ position \in Questions \union {-1}
    OBVIOUS
  <2> QED
    BY <2>1, <2>2, <2>3, <2>4 DEF TypeOK
<1>2. StageOK
  BY DEF StageOK, Stage
<1>3. SeatingOK
  BY IdsAssumption DEF SeatingOK, CaptainsSitAtTheirTable
<1>4. OwedAreGone
  BY DEF OwedAreGone
<1> QED
  BY <1>1, <1>2, <1>3, <1>4 DEF IInv

\* Every action keeps the types.
LEMMA TypeStep ==
    ASSUME IInv, [Next]_vars
    PROVE  TypeOK'
<1> USE IdsAssumption, SettingsAssumption
<1> USE DEF IInv, TypeOK, deletion, progress, people, Touch, Finish, CloseQuestion, OpenQuestion,
            StopClock, StartClock
<1>1. ASSUME NEW c \in Configs, Create(c) PROVE TypeOK'
  BY <1>1 DEF Create
<1>2. ASSUME NEW c \in Configs, Configure(c) PROVE TypeOK'
  BY <1>2 DEF Configure
<1>3. ASSUME NEW u \in Users, Join(u) PROVE TypeOK'
  BY <1>3 DEF Join
<1>4. ASSUME NEW u \in Users, Remove(u) PROVE TypeOK'
  <2>1. player' \in [Users -> {"out", "in", "removed"}] /\ seat' \in [Users -> Tables \union {NoTable}]
    BY <1>4 DEF Remove
  <2>2. captain' \in [Tables -> Users \union {NoUser}]
    BY <1>4, <2>1, StripCaptainClears, RecaptainFillsTables DEF Remove
  <2>3. UNCHANGED <<deletion, config, progress, tables, proposals, screen, noticed>> /\ Touch
    BY <1>4 DEF Remove
  <2> QED
    BY <2>1, <2>2, <2>3
<1>5. ASSUME NEW u \in Users, Propose(u) PROVE TypeOK'
  <2>1. PICK target \in Tables : proposals' = [proposals EXCEPT ![target] = @ + 1]
    BY <1>5 DEF Propose, Running, MayBeInTime, StageOK
  <2>2. proposals' \in [Tables -> Nat]
    BY <2>1
  <2>3. UNCHANGED <<deletion, config, progress, version, people, screen, noticed>>
    BY <1>5 DEF Propose
  <2> QED
    BY <2>2, <2>3
<1>6. CASE Seat
  <2>1. PICK ts \in SUBSET Tables :
         \E places \in [Players -> ts \union {NoTable}], picked \in [ts -> Players \union {NoUser}] :
             Reseat(ts, [u \in Users |-> IF u \in Players THEN places[u] ELSE NoTable], picked)
    BY ONLY <1>6, Zenon DEF Seat
  <2>2. PICK places \in [Players -> ts \union {NoTable}], picked \in [ts -> Players \union {NoUser}] :
             Reseat(ts, [u \in Users |-> IF u \in Players THEN places[u] ELSE NoTable], picked)
    BY <2>1
  <2>3. seat' \in [Users -> Tables \union {NoTable}]
    BY <2>2 DEF Reseat
  <2>4. \A t \in ts : picked[t] \in Users \union {NoUser}
    BY DEF Players
  <2>5. captain' \in [Tables -> Users \union {NoUser}]
    BY <2>2, <2>4, BestIsAMember DEF Reseat
  <2>6. /\ UNCHANGED <<deletion, config, progress, player, screen, noticed>> /\ Touch
        /\ tables' \subseteq Tables /\ proposals' \in [Tables -> Nat]
    BY <2>2 DEF Reseat
  <2> QED
    BY <2>3, <2>5, <2>6
<1>7. CASE SeatBySubdepartment
  <2> DEFINE seats == [u \in Users |-> IF player[u] = "in" THEN Department[u] ELSE NoTable]
             ts == {seats[u] : u \in Players}
  <2>1. Reseat(ts, seats, [t \in Tables |-> NoUser])
    BY <1>7 DEF SeatBySubdepartment
  <2>2. seats \in [Users -> Tables \union {NoTable}] /\ ts \subseteq Tables
    BY DEF Players
  <2> HIDE DEF seats, ts
  <2>3. captain' \in [Tables -> Users \union {NoUser}]
    BY <2>1, BestIsAMember DEF Reseat
  <2>4. /\ UNCHANGED <<deletion, config, progress, player, screen, noticed>> /\ Touch
        /\ tables' = ts /\ seat' = seats /\ proposals' \in [Tables -> Nat]
    BY <2>1 DEF Reseat
  <2> QED
    BY <2>2, <2>3, <2>4
<1>8. ASSUME NEW u \in Users, NEW t \in Tables \union {NoTable}, Move(u, t) PROVE TypeOK'
  <2>1. seat' \in [Users -> Tables \union {NoTable}]
    BY <1>8 DEF Move
  <2>2. captain' \in [Tables -> Users \union {NoUser}]
    BY <1>8, <2>1, StripCaptainClears, RecaptainFillsTables DEF Move
  <2>3. UNCHANGED <<deletion, config, progress, player, tables, proposals, screen, noticed>> /\ Touch
    BY <1>8 DEF Move
  <2> QED
    BY <2>1, <2>2, <2>3
<1>9. ASSUME NEW t \in Tables, NEW u \in Users \union {NoUser}, EditTable(t, u) PROVE TypeOK'
  BY <1>9 DEF EditTable
<1>10. CASE Refetch
  <2>1. screen' \in Stages
    BY <1>10 DEF Refetch, Stage, Stages, StageOK, Questions, Unfinished
  <2> QED
    BY <1>10, <2>1 DEF Refetch
<1>11. ASSUME NEW seen \in Stages, Advance(seen) PROVE TypeOK'
  <2>1. CASE Start
    <3>1. 0 \in Questions
      BY DEF Questions
    <3>2. lineup' \in [Questions -> Captained] \/ lineup' \in [Questions -> {NoTable}]
      BY <2>1 DEF Start
    <3>3. lineup' \in [Questions -> Tables \union {NoTable}]
      BY <3>2 DEF Captained
    <3> QED
      BY <1>11, <2>1, <3>1, <3>3 DEF Advance, Start
  <2>2. CASE CloseByHost
    BY <1>11, <2>2 DEF Advance, CloseByHost
  <2>3. CASE OpenNextOrFinish
    BY <1>11, <2>3 DEF Advance, OpenNextOrFinish, HasNext
  <2> QED
    BY <1>11, <2>1, <2>2, <2>3 DEF Advance
<1>12. CASE End
  BY <1>12 DEF End
<1>13. CASE FinishAbandoned
  BY <1>13 DEF FinishAbandoned
<1>14. CASE Tick
  BY <1>14 DEF Tick
<1>15. CASE NoticeExpiry
  BY <1>15 DEF NoticeExpiry
<1>16. CASE CloseExpired
  <2>1. state' \in {"none", "lobby", "open", "closed", "finished"} /\ version' \in Nat
        /\ clock' \in {"off", "running", "passed"} /\ position' = position
    BY <1>16 DEF CloseExpired
  <2> QED
    BY <1>16, <2>1 DEF CloseExpired
<1>17. CASE CloseLate
  BY <1>17 DEF CloseLate
<1>18. ASSUME NEW u \in Users, NEW t \in Tables, Answer(u, t) PROVE TypeOK'
  <2>1. answered' \in [Questions -> SUBSET Tables]
    BY <1>18 DEF Answer
  <2>2. state' \in {"none", "lobby", "open", "closed", "finished"}
        /\ clock' \in {"off", "running", "passed"}
    BY <1>18 DEF Answer
  <2> QED
    BY <1>18, <2>1, <2>2 DEF Answer
<1>19. ASSUME NEW u \in Users, DeletePlayer(u) PROVE TypeOK'
  <2>1. player' \in [Users -> {"out", "in", "removed"}] /\ seat' \in [Users -> Tables \union {NoTable}]
    BY <1>19 DEF DeletePlayer
  <2>2. captain' \in [Tables -> Users \union {NoUser}]
    BY <1>19, StripCaptainClears DEF DeletePlayer
  <2>3. owed' \subseteq Users
    BY <1>19 DEF DeletePlayer
  <2> QED
    BY <1>19, <2>1, <2>2, <2>3 DEF DeletePlayer
<1>20. ASSUME NEW u \in Users, AfterDeletion(u) PROVE TypeOK'
  <2>1. captain' \in [Tables -> Users \union {NoUser}] /\ version' \in Nat
    BY <1>20, RecaptainFillsTables DEF AfterDeletion, FollowUp
  <2> QED
    BY <1>20, <2>1 DEF AfterDeletion
<1>21. ASSUME NEW u \in Users, LoseFollowUp(u) PROVE TypeOK'
  BY <1>21 DEF LoseFollowUp
<1>22. CASE DeleteHost
  BY <1>22 DEF DeleteHost
<1>23. CASE LookForHosted
  BY <1>23 DEF LookForHosted
<1>24. CASE DeleteHostAsLookedUp
  BY <1>24 DEF DeleteHostAsLookedUp
<1>25. CASE UNCHANGED vars
  BY <1>25 DEF vars
<1> QED
  BY <1>1, <1>2, <1>3, <1>4, <1>5, <1>6, <1>7, <1>8, <1>9, <1>10, <1>11, <1>12, <1>13, <1>14, <1>15, <1>16, <1>17, <1>18, <1>19, <1>20, <1>21, <1>22, <1>23, <1>24, <1>25 DEF Next

\* What a step may do to the state, the question, the answers and the host's screens, and why.
CourseStep ==
    \/ UNCHANGED <<state, position, answered, screen>>
    \/ UNCHANGED <<state, position, answered>> /\ screen' = Stage
    \/ /\ UNCHANGED screen
       /\ \/ /\ state = "none" /\ state' = "lobby"
             /\ UNCHANGED <<position, answered>>
          \/ /\ state = "lobby" /\ state' = "open" /\ position' = 0
             /\ UNCHANGED answered
          \/ /\ state = "open"
             /\ state' = "open" \/ (state' = "closed" /\ AllAnswered(answered'))
             /\ \E t \in Tables \ answered[position] :
                    answered' = [answered EXCEPT ![position] = @ \union {t}]
             /\ UNCHANGED position
          \/ /\ state = "open" /\ state' = "closed"
             /\ clock = "passed" \/ screen = Stage
             /\ UNCHANGED <<position, answered>>
          \/ /\ state = "closed" /\ state' = "open"
             /\ screen = Stage
             /\ position + 1 \in Questions /\ position' = position + 1
             /\ UNCHANGED answered
          \/ /\ state \notin {"none", "finished"} /\ state' = "finished"
             /\ UNCHANGED <<position, answered>>

LEMMA EveryStepIsACourseStep ==
    ASSUME IInv, [Next]_vars
    PROVE  CourseStep
<1> USE DEF CourseStep, progress, Finish, CloseQuestion, OpenQuestion
<1>1. ASSUME NEW c \in Configs, Create(c) PROVE CourseStep
  BY <1>1 DEF Create
<1>2. ASSUME NEW c \in Configs, Configure(c) PROVE CourseStep
  BY <1>2 DEF Configure
<1>3. ASSUME NEW u \in Users, Join(u) PROVE CourseStep
  BY <1>3 DEF Join
<1>4. ASSUME NEW u \in Users, Remove(u) PROVE CourseStep
  BY <1>4 DEF Remove
<1>5. ASSUME NEW u \in Users, Propose(u) PROVE CourseStep
  BY <1>5 DEF Propose
<1>6. CASE Seat
  BY <1>6 DEF Seat, Reseat
<1>7. CASE SeatBySubdepartment
  BY <1>7 DEF SeatBySubdepartment, Reseat
<1>8. ASSUME NEW u \in Users, NEW t \in Tables \union {NoTable}, Move(u, t) PROVE CourseStep
  BY <1>8 DEF Move
<1>9. ASSUME NEW t \in Tables, NEW u \in Users \union {NoUser}, EditTable(t, u) PROVE CourseStep
  BY <1>9 DEF EditTable
<1>10. CASE Refetch
  BY <1>10 DEF Refetch
<1>11. ASSUME NEW seen \in Stages, Advance(seen) PROVE CourseStep
  <2>0. screen = Stage
    BY <1>11 DEF Advance, IsCurrent, IInv, TypeOK, StageOK, Stage, Stages, Questions
  <2>1. CASE Start
    BY <1>11, <2>1 DEF Advance, Start
  <2>2. CASE CloseByHost
    BY <1>11, <2>0, <2>2 DEF Advance, CloseByHost
  <2>3. CASE OpenNextOrFinish
    BY <1>11, <2>0, <2>3 DEF Advance, OpenNextOrFinish, HasNext
  <2> QED
    BY <1>11, <2>1, <2>2, <2>3 DEF Advance
<1>12. CASE End
  BY <1>12 DEF End, Unfinished
<1>13. CASE FinishAbandoned
  BY <1>13 DEF FinishAbandoned, Unfinished
<1>14. CASE Tick
  BY <1>14 DEF Tick
<1>15. CASE NoticeExpiry
  BY <1>15 DEF NoticeExpiry
<1>16. CASE CloseExpired
  BY <1>16 DEF CloseExpired, StillExpired, IsLate
<1>17. CASE CloseLate
  BY <1>17 DEF CloseLate, IsLate
<1>18. ASSUME NEW u \in Users, NEW t \in Tables, Answer(u, t) PROVE CourseStep
  BY <1>18 DEF Answer, Running, MayBeInTime
<1>19. ASSUME NEW u \in Users, DeletePlayer(u) PROVE CourseStep
  BY <1>19 DEF DeletePlayer
<1>20. ASSUME NEW u \in Users, AfterDeletion(u) PROVE CourseStep
  BY <1>20 DEF AfterDeletion
<1>21. ASSUME NEW u \in Users, LoseFollowUp(u) PROVE CourseStep
  BY <1>21 DEF LoseFollowUp
<1>22. CASE DeleteHost
  BY <1>22 DEF DeleteHost, Unfinished
<1>23. CASE LookForHosted
  BY <1>23 DEF LookForHosted
<1>24. CASE DeleteHostAsLookedUp
  BY <1>24 DEF DeleteHostAsLookedUp
<1>25. CASE UNCHANGED vars
  BY <1>25 DEF vars
<1> QED
  BY <1>1, <1>2, <1>3, <1>4, <1>5, <1>6, <1>7, <1>8, <1>9, <1>10, <1>11, <1>12, <1>13, <1>14, <1>15, <1>16, <1>17, <1>18, <1>19, <1>20, <1>21, <1>22, <1>23, <1>24, <1>25 DEF Next

\* No step shows the host what is still to come, or leaves a running quiz without a question.
LEMMA StageStep ==
    ASSUME IInv, [Next]_vars
    PROVE  StageOK'
<1>1. CourseStep
  BY EveryStepIsACourseStep
<1>2. position \in Int /\ screen \in Int /\ NumQuestions \in Nat \ {0}
  BY SettingsAssumption DEF IInv, TypeOK, Questions, Stages
<1>3. StageOK
  BY DEF IInv
<1> QED
  BY <1>1, <1>2, <1>3 DEF CourseStep, StageOK, Stage, Questions

\* Whoever sits at a table is one of its players, so a captain need only sit at its table.
LEMMA CaptainsBySeat ==
    ASSUME TypeOK',
           \A u \in Users : player'[u] # "out" => u \in accounts',
           \A u \in Users : seat'[u] # NoTable => player'[u] = "in" /\ seat'[u] \in tables',
           \A t \in Tables : captain'[t] # NoUser => seat'[captain'[t]] = t
    PROVE  CaptainsSitAtTheirTable'
<1> SUFFICES ASSUME NEW t \in Tables, captain'[t] # NoUser
             PROVE  captain'[t] \in accounts' /\ player'[captain'[t]] = "in" /\ seat'[captain'[t]] = t
  BY DEF CaptainsSitAtTheirTable
<1>1. captain'[t] \in Users
  BY DEF TypeOK
<1> QED
  BY <1>1, IdsAssumption

\* What a step must leave alone for the seating to stay in order.
People == <<accounts, host, player, seat, tables, captain>>

LEMMA SeatingUntouched ==
    ASSUME SeatingOK, UNCHANGED People, state' = state \/ (state # "none" /\ state' # "none")
    PROVE  SeatingOK'
BY DEF SeatingOK, CaptainsSitAtTheirTable, People

\* Every action keeps seats and captaincies in order.
LEMMA SeatingStep ==
    ASSUME IInv, TypeOK', [Next]_vars
    PROVE  SeatingOK'
<1> USE IdsAssumption
<1> USE DEF people, deletion, progress
<1>a. TypeOK /\ SeatingOK
  BY DEF IInv
<1>b. /\ player \in [Users -> {"out", "in", "removed"}] /\ seat \in [Users -> Tables \union {NoTable}]
      /\ captain \in [Tables -> Users \union {NoUser}] /\ tables \subseteq Tables
      /\ captain' \in [Tables -> Users \union {NoUser}] /\ seat' \in [Users -> Tables \union {NoTable}]
  BY <1>a DEF TypeOK
<1>c. /\ player[Host] = "out"
      /\ state # "none" /\ Host \in accounts => host = Host
      /\ state = "none" => \A u \in Users : player[u] = "out"
      /\ \A u \in Users : player[u] # "out" => u \in accounts
      /\ \A u \in Users : seat[u] # NoTable => player[u] = "in" /\ seat[u] \in tables
      /\ \A t \in Tables : captain[t] # NoUser => seat[captain[t]] = t
  BY <1>a DEF SeatingOK, CaptainsSitAtTheirTable
<1>1. ASSUME NEW c \in Configs, Create(c) PROVE SeatingOK'
  <2>1. UNCHANGED <<accounts, player, seat, tables, captain>> /\ host' = Host /\ state = "none"
    BY <1>1 DEF Create
  <2> QED
    BY <1>a, <2>1 DEF SeatingOK, CaptainsSitAtTheirTable
<1>2. ASSUME NEW c \in Configs, Configure(c) PROVE SeatingOK'
  BY <1>2, <1>a, SeatingUntouched DEF Configure, People
<1>3. ASSUME NEW u \in Users, Join(u) PROVE SeatingOK'
  <2>1. UNCHANGED <<accounts, host, state, seat, tables, captain>> /\ u # Host /\ state # "none"
    BY <1>3, <1>c DEF Join, Unfinished
  <2>2. \A v \in Users : player'[v] = IF v = u THEN "in" ELSE player[v]
    BY <1>3, <1>b DEF Join
  <2>3. u \in accounts
    BY <1>3, <1>b DEF Join
  <2> QED
    BY <1>c, <2>1, <2>2, <2>3, CaptainsBySeat DEF SeatingOK
<1>4. ASSUME NEW u \in Users, Remove(u) PROVE SeatingOK'
  <2>1. /\ \A v \in Users : seat'[v] = IF v = u THEN NoTable ELSE seat[v]
        /\ \A v \in Users \ {u} : player'[v] = player[v]
    BY <1>4, <1>b DEF Remove
  <2>2. player[u] = "out" => player'[u] = "out"
    BY <1>4, <1>b DEF Remove
  <2>3. UNCHANGED <<accounts, host, state, tables>> /\ state # "none"
    BY <1>4 DEF Remove, Unfinished
  <2>4. \A t \in Tables : captain'[t] # NoUser => seat'[captain'[t]] = t
    <3> DEFINE kept == StripCaptain(u, NoTable)
               new == Recaptain(kept, seat', {seat[u]})
    <3>1. captain' = new
      BY <1>4 DEF Remove
    <3>2. /\ kept \in [Tables -> Users \union {NoUser}]
          /\ \A t \in Tables : kept[t] # NoUser => kept[t] = captain[t] /\ kept[t] # u
      BY <1>b, StripCaptainClears
    <3> HIDE DEF kept
    <3>3. \A t \in Tables : new[t] # NoUser => seat'[new[t]] = t \/ (kept[t] # NoUser /\ new[t] = kept[t])
      BY <1>b, <3>2, RecaptainFillsTables
    <3> HIDE DEF new
    <3> SUFFICES ASSUME NEW t \in Tables, new[t] # NoUser, kept[t] # NoUser, new[t] = kept[t]
                 PROVE  seat'[new[t]] = t
      BY <3>1, <3>3
    <3>4. kept[t] \in Users \ {u} /\ kept[t] = captain[t] /\ seat[captain[t]] = t
      BY <1>b, <1>c, <3>2
    <3> QED
      BY <2>1, <3>4
  <2>5. \A v \in Users : player'[v] # "out" => v \in accounts'
    BY <1>c, <2>1, <2>2, <2>3
  <2>6. \A v \in Users : seat'[v] # NoTable => player'[v] = "in" /\ seat'[v] \in tables'
    BY <1>c, <2>1, <2>3
  <2>7. player'[Host] = "out"
    BY <1>c, <2>1, <2>2
  <2> QED
    BY <1>c, <2>3, <2>4, <2>5, <2>6, <2>7, CaptainsBySeat DEF SeatingOK
<1>5. ASSUME NEW u \in Users, Propose(u) PROVE SeatingOK'
  BY <1>5, <1>a, SeatingUntouched DEF Propose, People
<1>6. CASE Seat
  <2>1. PICK ts \in SUBSET Tables :
         \E places \in [Players -> ts \union {NoTable}], picked \in [ts -> Players \union {NoUser}] :
             /\ \A t \in ts : picked[t] # NoUser => places[picked[t]] = t
             /\ Reseat(ts, [u \in Users |-> IF u \in Players THEN places[u] ELSE NoTable], picked)
    BY ONLY <1>6, Zenon DEF Seat
  <2>2. PICK places \in [Players -> ts \union {NoTable}], picked \in [ts -> Players \union {NoUser}] :
             /\ \A t \in ts : picked[t] # NoUser => places[picked[t]] = t
             /\ Reseat(ts, [u \in Users |-> IF u \in Players THEN places[u] ELSE NoTable], picked)
    BY <2>1
  <2> DEFINE seats == [u \in Users |-> IF u \in Players THEN places[u] ELSE NoTable]
  <2>3. tables' = ts /\ seat' = seats /\ UNCHANGED <<accounts, host, state, player>>
    BY <2>2 DEF Reseat
  <2>4. \A u \in Users : seats[u] # NoTable => player[u] = "in" /\ seats[u] \in ts
    BY DEF Players
  <2>5. \A t \in Tables : captain'[t] = IF t \notin ts THEN NoUser
                                       ELSE IF picked[t] # NoUser THEN picked[t]
                                       ELSE Best({u \in Users : seats[u] = t})
    BY <2>2 DEF Reseat
  <2>6. \A t \in ts : picked[t] # NoUser => seats[picked[t]] = t
    BY <2>2 DEF Players
  <2>7. \A t \in Tables : captain'[t] # NoUser => seat'[captain'[t]] = t
    <3> SUFFICES ASSUME NEW t \in Tables, captain'[t] # NoUser PROVE seats[captain'[t]] = t
      BY <2>3
    <3> DEFINE M == {u \in Users : seats[u] = t}
    <3>1. Best(M) # NoUser => seats[Best(M)] = t
      BY BestIsAMember
    <3> HIDE DEF seats
    <3> QED
      BY <2>5, <2>6, <3>1
  <2> HIDE DEF seats
  <2> QED
    BY <1>c, <2>3, <2>4, <2>7, CaptainsBySeat DEF SeatingOK
<1>7. CASE SeatBySubdepartment
  <2> DEFINE seats == [u \in Users |-> IF player[u] = "in" THEN Department[u] ELSE NoTable]
             ts == {seats[u] : u \in Players}
  <2>1. Reseat(ts, seats, [t \in Tables |-> NoUser])
    BY <1>7 DEF SeatBySubdepartment
  <2>2. tables' = ts /\ seat' = seats /\ UNCHANGED <<accounts, host, state, player>>
    BY <2>1 DEF Reseat
  <2>3. \A u \in Users : seats[u] # NoTable => player[u] = "in" /\ seats[u] \in ts
    BY DEF Players
  <2>4. \A t \in Tables : captain'[t] = IF t \notin ts THEN NoUser ELSE Best({u \in Users : seats[u] = t})
    BY <2>1 DEF Reseat
  <2>5. \A t \in Tables : captain'[t] # NoUser => seat'[captain'[t]] = t
    BY <1>b, <2>2, <2>4, BestIsAMember
  <2> HIDE DEF seats, ts
  <2> QED
    BY <1>c, <2>2, <2>3, <2>5, CaptainsBySeat DEF SeatingOK
<1>8. ASSUME NEW u \in Users, NEW t \in Tables \union {NoTable}, Move(u, t) PROVE SeatingOK'
  <2>1. \A v \in Users : seat'[v] = IF v = u THEN t ELSE seat[v]
    BY <1>8, <1>b DEF Move
  <2>2. player[u] = "in" /\ t \in tables \union {NoTable}
        /\ UNCHANGED <<accounts, host, state, player, tables>>
    BY <1>8 DEF Move
  <2>3. \A x \in Tables : captain'[x] # NoUser => seat'[captain'[x]] = x
    <3> DEFINE kept == StripCaptain(u, t)
               new == Recaptain(kept, seat', {seat[u], t})
    <3>1. captain' = new
      BY <1>8 DEF Move
    <3>2. /\ kept \in [Tables -> Users \union {NoUser}]
          /\ \A x \in Tables : kept[x] # NoUser => kept[x] = captain[x] /\ (kept[x] = u => x = t)
      BY <1>b, StripCaptainClears
    <3> HIDE DEF kept
    <3>3. \A x \in Tables : new[x] # NoUser => seat'[new[x]] = x \/ (kept[x] # NoUser /\ new[x] = kept[x])
      BY <1>b, <3>2, RecaptainFillsTables
    <3> HIDE DEF new
    <3> SUFFICES ASSUME NEW x \in Tables, new[x] # NoUser, kept[x] # NoUser, new[x] = kept[x]
                 PROVE  seat'[new[x]] = x
      BY <3>1, <3>3
    <3>4. kept[x] \in Users /\ (kept[x] = u => x = t) /\ kept[x] = captain[x] /\ seat[captain[x]] = x
      BY <1>b, <1>c, <3>2
    <3> QED
      BY <2>1, <3>4
  <2> QED
    BY <1>c, <2>1, <2>2, <2>3, CaptainsBySeat DEF SeatingOK
<1>9. ASSUME NEW t \in Tables, NEW u \in Users \union {NoUser}, EditTable(t, u) PROVE SeatingOK'
  <2>1. \A x \in Tables : captain'[x] = captain[x] \/ (x = t /\ captain'[x] = u)
    BY <1>9, <1>b DEF EditTable
  <2>2. UNCHANGED <<accounts, host, state, player, seat, tables>> /\ (u # NoUser => seat[u] = t)
    BY <1>9, <1>b DEF EditTable
  <2> QED
    BY <1>c, <2>1, <2>2, CaptainsBySeat DEF SeatingOK
<1>10. CASE Refetch
  BY <1>10, <1>a, SeatingUntouched DEF Refetch, People
<1>11. ASSUME NEW seen \in Stages, Advance(seen) PROVE SeatingOK'
  <2>1. UNCHANGED People /\ state # "none"
    BY <1>11 DEF Advance, People, Unfinished
  <2>2. state' # "none"
    BY <1>11 DEF Advance, Start, CloseByHost, OpenNextOrFinish, OpenQuestion, CloseQuestion, Finish
  <2> QED
    BY <1>a, <2>1, <2>2, SeatingUntouched
<1>12. CASE End
  BY <1>12, <1>a, SeatingUntouched DEF End, Finish, People, Unfinished
<1>13. CASE FinishAbandoned
  BY <1>13, <1>a, SeatingUntouched DEF FinishAbandoned, Finish, People, Unfinished
<1>14. CASE Tick
  BY <1>14, <1>a, SeatingUntouched DEF Tick, People
<1>15. CASE NoticeExpiry
  BY <1>15, <1>a, SeatingUntouched DEF NoticeExpiry, People
<1>16. CASE CloseExpired
  BY <1>16, <1>a, SeatingUntouched DEF CloseExpired, StillExpired, IsLate, CloseQuestion, People
<1>17. CASE CloseLate
  BY <1>17, <1>a, SeatingUntouched DEF CloseLate, IsLate, CloseQuestion, People
<1>18. ASSUME NEW u \in Users, NEW t \in Tables, Answer(u, t) PROVE SeatingOK'
  BY <1>18, <1>a, SeatingUntouched DEF Answer, Running, MayBeInTime, People
<1>19. ASSUME NEW u \in Users, DeletePlayer(u) PROVE SeatingOK'
  <2>1. /\ \A v \in Users : player'[v] = IF v = u THEN "out" ELSE player[v]
        /\ \A v \in Users : seat'[v] = IF v = u THEN NoTable ELSE seat[v]
    BY <1>19, <1>b DEF DeletePlayer
  <2>2. accounts' = accounts \ {u} /\ u # Host /\ UNCHANGED <<host, state, tables>>
    BY <1>19 DEF DeletePlayer
  <2>3. \A t \in Tables : captain'[t] # NoUser => captain'[t] = captain[t] /\ captain'[t] # u
    BY <1>19, <1>b, StripCaptainClears DEF DeletePlayer
  <2>4. \A t \in Tables : captain'[t] # NoUser => seat'[captain'[t]] = t
    <3> SUFFICES ASSUME NEW t \in Tables, captain'[t] # NoUser PROVE seat'[captain'[t]] = t
      OBVIOUS
    <3>1. captain[t] \in Users \ {u} /\ captain'[t] = captain[t] /\ seat[captain[t]] = t
      BY <1>b, <1>c, <2>3
    <3> QED
      BY <2>1, <3>1
  <2> QED
    BY <1>c, <2>1, <2>2, <2>4, CaptainsBySeat DEF SeatingOK
<1>20. ASSUME NEW u \in Users, AfterDeletion(u) PROVE SeatingOK'
  <2>1. UNCHANGED <<accounts, host, state, player, seat, tables>>
    BY <1>20 DEF AfterDeletion
  <2>2. \A t \in Tables : captain'[t] # NoUser => seat[captain'[t]] = t
    BY <1>20, <1>b, <1>c, RecaptainFillsTables DEF AfterDeletion, FollowUp
  <2> QED
    BY <1>c, <2>1, <2>2, CaptainsBySeat DEF SeatingOK
<1>21. ASSUME NEW u \in Users, LoseFollowUp(u) PROVE SeatingOK'
  BY <1>21, <1>a, SeatingUntouched DEF LoseFollowUp, People
<1>22. CASE DeleteHost
  <2>1. accounts' = accounts \ {Host} /\ UNCHANGED <<player, seat, tables, captain>> /\ state' # "none"
    BY <1>22 DEF DeleteHost, Finish
  <2> QED
    BY <1>a, <1>c, <2>1 DEF SeatingOK, CaptainsSitAtTheirTable
<1>23. CASE LookForHosted
  BY <1>23, <1>a, SeatingUntouched DEF LookForHosted, People
<1>24. CASE DeleteHostAsLookedUp
  <2>1. accounts' = accounts \ {Host} /\ UNCHANGED <<state, player, seat, tables, captain>>
    BY <1>24 DEF DeleteHostAsLookedUp
  <2> QED
    BY <1>a, <1>c, <2>1 DEF SeatingOK, CaptainsSitAtTheirTable
<1>25. CASE UNCHANGED vars
  BY <1>25, <1>a, SeatingUntouched DEF vars, People
<1> QED
  BY <1>1, <1>2, <1>3, <1>4, <1>5, <1>6, <1>7, <1>8, <1>9, <1>10, <1>11, <1>12, <1>13, <1>14, <1>15, <1>16, <1>17, <1>18, <1>19, <1>20, <1>21, <1>22, <1>23, <1>24, <1>25 DEF Next

\* Accounts only go, and a follow-up is owed only for one that goes.
LEMMA OwedStep ==
    ASSUME OwedAreGone, [Next]_vars
    PROVE  OwedAreGone'
<1> USE DEF OwedAreGone, deletion
<1>1. ASSUME NEW c \in Configs, Create(c) PROVE OwedAreGone'
  BY <1>1 DEF Create
<1>2. ASSUME NEW c \in Configs, Configure(c) PROVE OwedAreGone'
  BY <1>2 DEF Configure
<1>3. ASSUME NEW u \in Users, Join(u) PROVE OwedAreGone'
  BY <1>3 DEF Join
<1>4. ASSUME NEW u \in Users, Remove(u) PROVE OwedAreGone'
  BY <1>4 DEF Remove
<1>5. ASSUME NEW u \in Users, Propose(u) PROVE OwedAreGone'
  BY <1>5 DEF Propose
<1>6. CASE Seat
  BY <1>6 DEF Seat, Reseat
<1>7. CASE SeatBySubdepartment
  BY <1>7 DEF SeatBySubdepartment, Reseat
<1>8. ASSUME NEW u \in Users, NEW t \in Tables \union {NoTable}, Move(u, t) PROVE OwedAreGone'
  BY <1>8 DEF Move
<1>9. ASSUME NEW t \in Tables, NEW u \in Users \union {NoUser}, EditTable(t, u) PROVE OwedAreGone'
  BY <1>9 DEF EditTable
<1>10. CASE Refetch
  BY <1>10 DEF Refetch
<1>11. ASSUME NEW seen \in Stages, Advance(seen) PROVE OwedAreGone'
  BY <1>11 DEF Advance
<1>12. CASE End
  BY <1>12 DEF End
<1>13. CASE FinishAbandoned
  BY <1>13 DEF FinishAbandoned
<1>14. CASE Tick
  BY <1>14 DEF Tick
<1>15. CASE NoticeExpiry
  BY <1>15 DEF NoticeExpiry
<1>16. CASE CloseExpired
  BY <1>16 DEF CloseExpired
<1>17. CASE CloseLate
  BY <1>17 DEF CloseLate
<1>18. ASSUME NEW u \in Users, NEW t \in Tables, Answer(u, t) PROVE OwedAreGone'
  BY <1>18 DEF Answer
<1>19. ASSUME NEW u \in Users, DeletePlayer(u) PROVE OwedAreGone'
  BY <1>19 DEF DeletePlayer
<1>20. ASSUME NEW u \in Users, AfterDeletion(u) PROVE OwedAreGone'
  BY <1>20 DEF AfterDeletion
<1>21. ASSUME NEW u \in Users, LoseFollowUp(u) PROVE OwedAreGone'
  BY <1>21 DEF LoseFollowUp
<1>22. CASE DeleteHost
  BY <1>22 DEF DeleteHost
<1>23. CASE LookForHosted
  BY <1>23 DEF LookForHosted
<1>24. CASE DeleteHostAsLookedUp
  BY <1>24 DEF DeleteHostAsLookedUp
<1>25. CASE UNCHANGED vars
  BY <1>25 DEF vars
<1> QED
  BY <1>1, <1>2, <1>3, <1>4, <1>5, <1>6, <1>7, <1>8, <1>9, <1>10, <1>11, <1>12, <1>13, <1>14, <1>15, <1>16, <1>17, <1>18, <1>19, <1>20, <1>21, <1>22, <1>23, <1>24, <1>25 DEF Next

\* The inductive invariant holds throughout.
THEOREM InvariantHolds == Spec => []IInv
<1>1. Init => IInv
  BY InitHolds
<1>2. IInv /\ [Next]_vars => IInv'
  <2> SUFFICES ASSUME IInv, [Next]_vars PROVE IInv'
    OBVIOUS
  <2>1. TypeOK'
    BY TypeStep
  <2>2. StageOK'
    BY StageStep
  <2>3. SeatingOK'
    BY <2>1, SeatingStep
  <2>4. OwedAreGone'
    BY OwedStep DEF IInv
  <2> QED
    BY <2>1, <2>2, <2>3, <2>4 DEF IInv
<1> QED
  BY <1>1, <1>2, PTL DEF Spec

-------------------------------------------------------------------------------
(* What follows from it                                                    *)

\* Every variable keeps its type; in particular the question asked is always one of the quiz's.
THEOREM TypeCorrect == Spec => []TypeOK
<1>1. IInv => TypeOK
  BY DEF IInv
<1> QED
  BY <1>1, InvariantHolds, PTL

\* Whoever captain_id names is at that table and may answer for it (answer trusts it).
THEOREM CaptainsAreSeated == Spec => []CaptainsSitAtTheirTable
<1>1. IInv => CaptainsSitAtTheirTable
  BY DEF IInv, SeatingOK
<1> QED
  BY <1>1, InvariantHolds, PTL

\* No delayed or doubled press of the host's button skips a result (advance and its `seen`).
THEOREM ResultsAreShown == Spec => RevealsAreSeen
<1>1. IInv /\ [Next]_vars => (state = "closed" /\ state' = "open" => screen = Stage)
  BY EveryStepIsACourseStep DEF CourseStep
<1>2. IInv /\ [Next]_vars => [state = "closed" /\ state' = "open" => screen = Stage]_vars
  BY <1>1
<1> QED
  BY <1>2, InvariantHolds, PTL DEF Spec, RevealsAreSeen

\* No press, poll or answer that was meant for an earlier question closes the open one.
THEOREM QuestionsCloseForAReason == Spec => ClosesForAReason
<1>1. IInv /\ [Next]_vars =>
          (state = "open" /\ state' = "closed" =>
               clock = "passed" \/ screen = Stage \/ AllAnswered(answered'))
  BY EveryStepIsACourseStep DEF CourseStep
<1>2. IInv /\ [Next]_vars =>
          [state = "open" /\ state' = "closed" =>
               clock = "passed" \/ screen = Stage \/ AllAnswered(answered')]_vars
  BY <1>1
<1> QED
  BY <1>2, InvariantHolds, PTL DEF Spec, ClosesForAReason

\* The session, with its clock, its people and its deletions, keeps what LiveFlow promises.
THEOREM Implementation == Spec => ImplementsFlow
<1>1. Init => Flow!Init
  BY DEF Init, Flow!Init, Questions, Flow!Questions
<1>2. IInv /\ [Next]_vars => [Flow!Next]_Flow!vars
  <2> SUFFICES ASSUME IInv, [Next]_vars PROVE [Flow!Next]_Flow!vars
    OBVIOUS
  <2>1. CourseStep
    BY EveryStepIsACourseStep
  <2> QED
    BY <2>1 DEF CourseStep, Flow!Next, Flow!vars, Flow!Start, Flow!Collect, Flow!Close, Flow!OpenNext,
                Flow!Finish, Questions, Flow!Questions
<1> QED
  BY <1>1, <1>2, InvariantHolds, PTL DEF Spec, ImplementsFlow, Flow!Spec

-------------------------------------------------------------------------------
(* Tables with people have a captain                                       *)

\* seat: the host's tables, whatever captains were picked.
LEMMA SeatIsAReseating ==
    ASSUME Seat
    PROVE  \E ts \in SUBSET Tables, seats \in [Users -> Tables \union {NoTable}] : \E picked :
               Reseat(ts, seats, picked) /\ \A u \in Users : seats[u] # NoTable => seats[u] \in ts
<1>1. PICK ts \in SUBSET Tables :
         \E places \in [Players -> ts \union {NoTable}], picked \in [ts -> Players \union {NoUser}] :
             /\ \A t \in ts : picked[t] # NoUser => places[picked[t]] = t
             /\ Reseat(ts, [u \in Users |-> IF u \in Players THEN places[u] ELSE NoTable], picked)
  BY Zenon DEF Seat
<1>2. PICK places \in [Players -> ts \union {NoTable}], picked \in [ts -> Players \union {NoUser}] :
         Reseat(ts, [u \in Users |-> IF u \in Players THEN places[u] ELSE NoTable], picked)
  BY <1>1
<1> DEFINE seats == [u \in Users |-> IF u \in Players THEN places[u] ELSE NoTable]
<1>3. seats \in [Users -> Tables \union {NoTable}] /\ \A u \in Users : seats[u] # NoTable => seats[u] \in ts
  BY DEF Players
<1>4. Reseat(ts, seats, picked)
  BY <1>2
<1> HIDE DEF seats
<1> QED
  BY <1>3, <1>4

\* After a seating every table with people has a captain, picked or best-ranked.
LEMMA ReseatingFillsTables ==
    ASSUME NEW ts \in SUBSET Tables, NEW seats \in [Users -> Tables \union {NoTable}], NEW picked,
           Reseat(ts, seats, picked), \A u \in Users : seats[u] # NoTable => seats[u] \in ts
    PROVE  SeatedTablesHaveCaptain'
<1> SUFFICES ASSUME NEW u \in Users, seats[u] # NoTable
             PROVE  captain'[seats[u]] # NoUser
  BY DEF SeatedTablesHaveCaptain, Reseat
<1> DEFINE M == {v \in Users : seats[v] = seats[u]}
<1>1. Best(M) \in Users
  BY BestIsAMember
<1>2. captain'[seats[u]] = IF picked[seats[u]] # NoUser THEN picked[seats[u]] ELSE Best(M)
  BY DEF Reseat
<1> QED
  BY <1>1, <1>2, IdsAssumption

\* No action leaves a table with people without a captain, but a deletion whose follow-up is owed.
LEMMA CaptainedStep ==
    ASSUME IInv, TypeOK', SeatedTablesHaveCaptain, [Next]_vars
    PROVE  SeatedTablesHaveCaptain'
<1> USE DEF people, deletion, progress
<1>h. SeatedTablesHaveCaptain
  OBVIOUS
<1>a. /\ TypeOK
      /\ player \in [Users -> {"out", "in", "removed"}]
      /\ seat \in [Users -> Tables \union {NoTable}] /\ seat' \in [Users -> Tables \union {NoTable}]
      /\ captain \in [Tables -> Users \union {NoUser}] /\ captain' \in [Tables -> Users \union {NoUser}]
      /\ tables \subseteq Tables
  BY DEF IInv, TypeOK
<1>b. /\ state = "none" => \A u \in Users : player[u] = "out"
      /\ \A u \in Users : seat[u] # NoTable => player[u] = "in" /\ seat[u] \in tables
  BY DEF IInv, SeatingOK
<1>s. \A t \in Tables : captain[t] # NoUser => seat[captain[t]] = t
  BY DEF IInv, SeatingOK, CaptainsSitAtTheirTable
<1>c. ASSUME UNCHANGED <<state, seat, captain, owed, lost>>
      PROVE  SeatedTablesHaveCaptain'
  BY <1>c, <1>h DEF SeatedTablesHaveCaptain, Unfinished
<1>1. ASSUME NEW c \in Configs, Create(c) PROVE SeatedTablesHaveCaptain'
  <2>1. state = "none" /\ UNCHANGED seat
    BY <1>1 DEF Create
  <2> QED
    BY <1>b, <1>s, <2>1 DEF SeatedTablesHaveCaptain
<1>2. ASSUME NEW c \in Configs, Configure(c) PROVE SeatedTablesHaveCaptain'
  BY <1>2, <1>c DEF Configure
<1>3. ASSUME NEW u \in Users, Join(u) PROVE SeatedTablesHaveCaptain'
  BY <1>3, <1>c DEF Join
<1>4. ASSUME NEW u \in Users, Remove(u) PROVE SeatedTablesHaveCaptain'
  <2>1. Unfinished /\ UNCHANGED <<state, owed, lost>>
    BY <1>4 DEF Remove
  <2>2. \A v \in Users : seat'[v] = IF v = u THEN NoTable ELSE seat[v]
    BY <1>4, <1>a DEF Remove
  <2> DEFINE kept == StripCaptain(u, NoTable)
  <2>3. captain' = Recaptain(kept, seat', {seat[u]})
    BY <1>4 DEF Remove
  <2>4. kept \in [Tables -> Users \union {NoUser}] /\ \A t \in Tables : captain[t] # u => kept[t] = captain[t]
    BY <1>a DEF StripCaptain
  <2> HIDE DEF kept
  <2>5. /\ \A t \in Tables : kept[t] # NoUser => captain'[t] = kept[t]
        /\ \A v \in Users : seat'[v] = seat[u] /\ seat'[v] \in Tables => captain'[seat'[v]] # NoUser
    BY <1>a, <2>3, <2>4, RecaptainFillsTables
  <2> QED
    <3> SUFFICES ASSUME Unfinished, owed = {}, ~lost, NEW v \in Users, seat'[v] # NoTable
                 PROVE  captain'[seat'[v]] # NoUser
      BY <2>1 DEF SeatedTablesHaveCaptain, Unfinished
    <3>1. seat'[v] = seat[v] /\ seat[v] \in Tables /\ captain[seat[v]] # NoUser
      BY <1>a, <1>h, <2>2 DEF SeatedTablesHaveCaptain
    <3>2. CASE seat[v] = seat[u]
      BY <2>5, <3>1, <3>2
    <3>3. CASE seat[v] # seat[u]
      BY <1>s, <2>4, <2>5, <3>1, <3>3
    <3> QED
      BY <3>2, <3>3
<1>5. ASSUME NEW u \in Users, Propose(u) PROVE SeatedTablesHaveCaptain'
  BY <1>5, <1>c DEF Propose
<1>6. CASE Seat
  <2>1. PICK ts \in SUBSET Tables, seats \in [Users -> Tables \union {NoTable}] :
            \E picked : Reseat(ts, seats, picked) /\ \A u \in Users : seats[u] # NoTable => seats[u] \in ts
    BY <1>6, SeatIsAReseating
  <2>2. PICK picked :
            Reseat(ts, seats, picked) /\ \A u \in Users : seats[u] # NoTable => seats[u] \in ts
    BY <2>1
  <2> QED
    BY <2>2, ReseatingFillsTables
<1>7. CASE SeatBySubdepartment
  <2>1. PICK ts \in SUBSET Tables, seats \in [Users -> Tables \union {NoTable}] :
            \E picked : Reseat(ts, seats, picked) /\ \A u \in Users : seats[u] # NoTable => seats[u] \in ts
    BY <1>7, <1>a, SettingsAssumption DEF SeatBySubdepartment, Players
  <2>2. PICK picked :
            Reseat(ts, seats, picked) /\ \A u \in Users : seats[u] # NoTable => seats[u] \in ts
    BY <2>1
  <2> QED
    BY <2>2, ReseatingFillsTables
<1>8. ASSUME NEW u \in Users, NEW t \in Tables \union {NoTable}, Move(u, t) PROVE SeatedTablesHaveCaptain'
  <2>1. Unfinished /\ UNCHANGED <<state, owed, lost>>
    BY <1>8 DEF Move
  <2>2. \A v \in Users : seat'[v] = IF v = u THEN t ELSE seat[v]
    BY <1>8, <1>a DEF Move
  <2> DEFINE kept == StripCaptain(u, t)
  <2>3. captain' = Recaptain(kept, seat', {seat[u], t})
    BY <1>8 DEF Move
  <2>4. kept \in [Tables -> Users \union {NoUser}] /\ \A x \in Tables : captain[x] # u => kept[x] = captain[x]
    BY <1>a DEF StripCaptain
  <2> HIDE DEF kept
  <2>5. /\ \A x \in Tables : kept[x] # NoUser => captain'[x] = kept[x]
        /\ \A v \in Users : seat'[v] \in {seat[u], t} /\ seat'[v] \in Tables => captain'[seat'[v]] # NoUser
    BY <1>a, <2>3, <2>4, RecaptainFillsTables
  <2> QED
    <3> SUFFICES ASSUME Unfinished, owed = {}, ~lost, NEW v \in Users, seat'[v] # NoTable
                 PROVE  captain'[seat'[v]] # NoUser
      BY <2>1 DEF SeatedTablesHaveCaptain, Unfinished
    <3>1. seat'[v] \in Tables
      BY <1>a
    <3>2. CASE seat'[v] \in {seat[u], t}
      BY <2>5, <3>1, <3>2
    <3>3. CASE seat'[v] \notin {seat[u], t}
      <4>1. seat'[v] = seat[v] /\ captain[seat[v]] # NoUser
        BY <1>h, <2>2, <3>3 DEF SeatedTablesHaveCaptain
      <4> QED
        BY <1>s, <2>4, <2>5, <3>1, <3>3, <4>1
    <3> QED
      BY <3>2, <3>3
<1>9. ASSUME NEW t \in Tables, NEW u \in Users \union {NoUser}, EditTable(t, u) PROVE SeatedTablesHaveCaptain'
  <2>1. UNCHANGED <<state, owed, lost, seat>>
    BY <1>9 DEF EditTable
  <2>2. \A x \in Tables : captain[x] # NoUser => captain'[x] # NoUser
    BY <1>9, <1>a DEF EditTable
  <2> QED
    BY <1>a, <1>h, <2>1, <2>2 DEF SeatedTablesHaveCaptain, Unfinished
<1>10. CASE Refetch
  BY <1>10, <1>c DEF Refetch
<1>11. ASSUME NEW seen \in Stages, Advance(seen) PROVE SeatedTablesHaveCaptain'
  <2>1. Unfinished /\ UNCHANGED <<seat, captain, owed, lost>>
    BY <1>11 DEF Advance
  <2> QED
    BY <1>h, <2>1 DEF SeatedTablesHaveCaptain
<1>12. CASE End
  <2>1. Unfinished /\ UNCHANGED <<seat, captain, owed, lost>>
    BY <1>12 DEF End
  <2> QED
    BY <1>h, <2>1 DEF SeatedTablesHaveCaptain
<1>13. CASE FinishAbandoned
  <2>1. Unfinished /\ UNCHANGED <<seat, captain, owed, lost>>
    BY <1>13 DEF FinishAbandoned
  <2> QED
    BY <1>h, <2>1 DEF SeatedTablesHaveCaptain
<1>14. CASE Tick
  BY <1>14, <1>c DEF Tick
<1>15. CASE NoticeExpiry
  BY <1>15, <1>c DEF NoticeExpiry
<1>16. CASE CloseExpired
  <2>1. (Unfinished' => Unfinished) /\ UNCHANGED <<seat, captain, owed, lost>>
    BY <1>16 DEF CloseExpired, StillExpired, IsLate, CloseQuestion, Unfinished
  <2> QED
    BY <1>h, <2>1 DEF SeatedTablesHaveCaptain
<1>17. CASE CloseLate
  <2>1. (Unfinished' => Unfinished) /\ UNCHANGED <<seat, captain, owed, lost>>
    BY <1>17 DEF CloseLate, IsLate, CloseQuestion, Unfinished
  <2> QED
    BY <1>h, <2>1 DEF SeatedTablesHaveCaptain
<1>18. ASSUME NEW u \in Users, NEW t \in Tables, Answer(u, t) PROVE SeatedTablesHaveCaptain'
  <2>1. (Unfinished' => Unfinished) /\ UNCHANGED <<seat, captain, owed, lost>>
    BY <1>18 DEF Answer, Running, MayBeInTime, Unfinished
  <2> QED
    BY <1>h, <2>1 DEF SeatedTablesHaveCaptain
<1>19. ASSUME NEW u \in Users, DeletePlayer(u) PROVE SeatedTablesHaveCaptain'
  <2>1. UNCHANGED <<state, lost>> /\ owed' = IF Unfinished /\ player[u] # "out" THEN owed \union {u} ELSE owed
    BY <1>19 DEF DeletePlayer
  <2>2. CASE Unfinished /\ player[u] # "out"
    BY <2>1, <2>2 DEF SeatedTablesHaveCaptain
  <2>3. CASE ~Unfinished
    BY <2>1, <2>3 DEF SeatedTablesHaveCaptain, Unfinished
  <2>4. CASE player[u] = "out"
    <3>1. \A v \in Users : seat'[v] = seat[v]
      BY <1>19, <1>a, <1>b, <2>4 DEF DeletePlayer
    <3>2. \A t \in Tables : captain[t] # u
      BY <1>a, <1>b, <1>s, <2>4, IdsAssumption
    <3>3. \A t \in Tables : captain'[t] = captain[t]
      BY <1>19, <1>a, <3>2 DEF DeletePlayer, StripCaptain
    <3> QED
      BY <1>a, <1>h, <2>1, <3>1, <3>3 DEF SeatedTablesHaveCaptain, Unfinished
  <2> QED
    BY <2>2, <2>3, <2>4
<1>20. ASSUME NEW u \in Users, AfterDeletion(u) PROVE SeatedTablesHaveCaptain'
  <2>1. UNCHANGED <<state, seat, tables, lost>>
    BY <1>20 DEF AfterDeletion
  <2>2. CASE Unfinished
    <3>1. captain' = Recaptain(captain, seat, {t \in tables : captain[t] = NoUser})
      BY <1>20, <2>2 DEF AfterDeletion, FollowUp
    <3>2. \A t \in Tables : captain[t] # NoUser => captain'[t] = captain[t]
      BY <1>a, <3>1, RecaptainFillsTables
    <3>3. \A v \in Users : seat[v] \in tables /\ captain[seat[v]] = NoUser => captain'[seat[v]] # NoUser
      BY <1>a, <3>1, RecaptainFillsTables
    <3> QED
      BY <1>a, <1>b, <2>1, <3>2, <3>3 DEF SeatedTablesHaveCaptain
  <2>3. CASE ~Unfinished
    BY <2>1, <2>3 DEF SeatedTablesHaveCaptain, Unfinished
  <2> QED
    BY <2>2, <2>3
<1>21. ASSUME NEW u \in Users, LoseFollowUp(u) PROVE SeatedTablesHaveCaptain'
  <2>1. lost' = TRUE
    BY <1>21 DEF LoseFollowUp
  <2> QED
    BY <2>1 DEF SeatedTablesHaveCaptain
<1>22. CASE DeleteHost
  <2>1. (Unfinished' => Unfinished) /\ UNCHANGED <<seat, captain, owed, lost>>
    BY <1>22 DEF DeleteHost, Finish, Unfinished
  <2> QED
    BY <1>h, <2>1 DEF SeatedTablesHaveCaptain
<1>23. CASE LookForHosted
  BY <1>23, <1>c DEF LookForHosted
<1>24. CASE DeleteHostAsLookedUp
  BY <1>24, <1>c DEF DeleteHostAsLookedUp
<1>25. CASE UNCHANGED vars
  BY <1>25, <1>c DEF vars
<1> QED
  BY <1>1, <1>2, <1>3, <1>4, <1>5, <1>6, <1>7, <1>8, <1>9, <1>10, <1>11, <1>12, <1>13, <1>14, <1>15, <1>16, <1>17, <1>18, <1>19, <1>20, <1>21, <1>22, <1>23, <1>24, <1>25 DEF Next

\* Every table with people at it can answer, unless a deletion's follow-up is still to come.
THEOREM TablesKeepCaptains == Spec => []SeatedTablesHaveCaptain
<1>1. Init => SeatedTablesHaveCaptain
  BY DEF Init, SeatedTablesHaveCaptain, Unfinished
<1>2. IInv /\ IInv' /\ SeatedTablesHaveCaptain /\ [Next]_vars => SeatedTablesHaveCaptain'
  BY CaptainedStep DEF IInv
<1> QED
  BY <1>1, <1>2, InvariantHolds, PTL DEF Spec

\* A table with people can answer, and only by someone who sits at it.
THEOREM TablesStayLed == Spec => []TablesAreLed
<1>1. CaptainsSitAtTheirTable /\ SeatedTablesHaveCaptain => TablesAreLed
  BY DEF TablesAreLed
<1> QED
  BY <1>1, CaptainsAreSeated, TablesKeepCaptains, PTL

-------------------------------------------------------------------------------
(* The version                                                             *)

\* What a step on an unfinished session does to its version, which screens and caches compare.
VersionTells == Unfinished /\ Shown' # Shown => version' > version \/ owed' \ owed # {}

\* No action but a player's deletion changes what the room sees under the same version.
LEMMA VersionStep ==
    ASSUME IInv, [Next]_vars
    PROVE  VersionTells
<1> USE DEF VersionTells, Shown, people, deletion, progress, Touch, Finish, CloseQuestion, OpenQuestion
<1>a. /\ version \in Nat
      /\ player \in [Users -> {"out", "in", "removed"}]
      /\ seat \in [Users -> Tables \union {NoTable}]
      /\ captain \in [Tables -> Users \union {NoUser}]
  BY DEF IInv, TypeOK
<1>b. /\ \A u \in Users : player[u] # "out" => u \in accounts
      /\ \A u \in Users : seat[u] # NoTable => player[u] = "in"
      /\ \A t \in Tables : captain[t] # NoUser => player[captain[t]] = "in"
  BY DEF IInv, SeatingOK, CaptainsSitAtTheirTable
<1>c. owed \intersect accounts = {}
  BY DEF IInv, OwedAreGone
<1>1. ASSUME NEW c \in Configs, Create(c) PROVE VersionTells
  BY <1>1 DEF Create, Unfinished
<1>2. ASSUME NEW c \in Configs, Configure(c) PROVE VersionTells
  BY <1>2, <1>a DEF Configure
<1>3. ASSUME NEW u \in Users, Join(u) PROVE VersionTells
  BY <1>3, <1>a DEF Join
<1>4. ASSUME NEW u \in Users, Remove(u) PROVE VersionTells
  BY <1>4, <1>a DEF Remove
<1>5. ASSUME NEW u \in Users, Propose(u) PROVE VersionTells
  BY <1>5 DEF Propose
<1>6. CASE Seat
  BY <1>6, <1>a DEF Seat, Reseat
<1>7. CASE SeatBySubdepartment
  BY <1>7, <1>a DEF SeatBySubdepartment, Reseat
<1>8. ASSUME NEW u \in Users, NEW t \in Tables \union {NoTable}, Move(u, t) PROVE VersionTells
  BY <1>8, <1>a DEF Move
<1>9. ASSUME NEW t \in Tables, NEW u \in Users \union {NoUser}, EditTable(t, u) PROVE VersionTells
  BY <1>9, <1>a DEF EditTable
<1>10. CASE Refetch
  BY <1>10 DEF Refetch
<1>11. ASSUME NEW seen \in Stages, Advance(seen) PROVE VersionTells
  <2>1. version' = version + 1
    BY <1>11 DEF Advance, Start, CloseByHost, OpenNextOrFinish
  <2> QED
    BY <1>a, <2>1
<1>12. CASE End
  BY <1>12, <1>a DEF End
<1>13. CASE FinishAbandoned
  BY <1>13, <1>a DEF FinishAbandoned
<1>14. CASE Tick
  BY <1>14 DEF Tick
<1>15. CASE NoticeExpiry
  BY <1>15 DEF NoticeExpiry
<1>16. CASE CloseExpired
  <2>1. version' = version + 1 \/ UNCHANGED Shown
    BY <1>16 DEF CloseExpired
  <2> QED
    BY <1>a, <2>1
<1>17. CASE CloseLate
  BY <1>17, <1>a DEF CloseLate
<1>18. ASSUME NEW u \in Users, NEW t \in Tables, Answer(u, t) PROVE VersionTells
  BY <1>18, <1>a DEF Answer
<1>19. ASSUME NEW u \in Users, DeletePlayer(u) PROVE VersionTells
  <2>1. u \in accounts /\ UNCHANGED <<state, position, config, tables, answered>>
    BY <1>19 DEF DeletePlayer
  <2>2. CASE Unfinished /\ player[u] # "out"
    <3>1. u \in owed' \ owed
      BY <1>19, <1>c, <2>1, <2>2 DEF DeletePlayer
    <3> QED
      BY <3>1
  <2>3. CASE player[u] = "out"
    <3>1. player' = player /\ seat' = seat
      BY <1>19, <1>a, <1>b, <2>3 DEF DeletePlayer
    <3>2. \A t \in Tables : captain[t] # u
      BY <1>a, <1>b, <2>3, IdsAssumption
    <3>3. captain' = captain
      BY <1>19, <1>a, <3>2 DEF DeletePlayer, StripCaptain
    <3> QED
      BY <2>1, <3>1, <3>3
  <2> QED
    BY <2>2, <2>3
<1>20. ASSUME NEW u \in Users, AfterDeletion(u) PROVE VersionTells
  <2>1. Unfinished => version' = version + 1
    BY <1>20 DEF AfterDeletion, FollowUp
  <2> QED
    BY <1>a, <2>1
<1>21. ASSUME NEW u \in Users, LoseFollowUp(u) PROVE VersionTells
  BY <1>21 DEF LoseFollowUp
<1>22. CASE DeleteHost
  <2>1. Unfinished => version' = version + 1
    BY <1>22 DEF DeleteHost
  <2> QED
    BY <1>a, <2>1
<1>23. CASE LookForHosted
  BY <1>23 DEF LookForHosted
<1>24. CASE DeleteHostAsLookedUp
  BY <1>24 DEF DeleteHostAsLookedUp
<1>25. CASE UNCHANGED vars
  BY <1>25 DEF vars
<1> QED
  BY <1>1, <1>2, <1>3, <1>4, <1>5, <1>6, <1>7, <1>8, <1>9, <1>10, <1>11, <1>12, <1>13, <1>14, <1>15, <1>16, <1>17, <1>18, <1>19, <1>20, <1>21, <1>22, <1>23, <1>24, <1>25 DEF Next

\* A screen or a cache that compares versions never takes an older room for the current one.
THEOREM VersionsTellRoomsApart == Spec => ChangesMoveTheVersion
<1>1. IInv /\ [Next]_vars =>
          [Unfinished /\ Shown' # Shown => version' > version \/ owed' \ owed # {}]_vars
  BY VersionStep DEF VersionTells
<1> QED
  BY <1>1, InvariantHolds, PTL DEF Spec, ChangesMoveTheVersion

-------------------------------------------------------------------------------
(* Sharing                                                                 *)

\* u has a committed attempt at question q.
HasAttempt(u, q) == \E a \in attempts : a.user = u /\ a.question = q

\* Only answers that were sent list people or are shared, and a list that a sharer made or a row
\* that it took is of answers whose result was out.
OnlyKnownAnswers ==
    /\ granted \subseteq Answered
    /\ \A k \in Answers \ Answered : members[k] = {}
    /\ \A p \in Sharers : \A k \in queue[p] : k \in Answered /\ MayBeKnown(k[1])
    /\ \A p \in Sharers : taken[p] # NoAnswer => taken[p] \in Answered /\ MayBeKnown(taken[p][1])

\* An answer's row is held by one sharer or by the deletion, and is not shared already; a deletion
\* lists no answers before its update of the lists begins.
RowsAreHeldOnce ==
    /\ scrubbing \/ listed = {}
    /\ \A p \in Sharers : taken[p] \notin granted \union scrubbed
    /\ \A p, q \in Sharers : taken[p] = taken[q] /\ taken[p] # NoAnswer => p = q

\* Without a row, a sharer has read and written nothing; with one, it writes about that answer.
WritesAboutItsRow ==
    /\ \A p \in Sharers : taken[p] = NoAnswer => scored[p] = {} /\ todo[p] = {} /\ written[p] = {}
    /\ \A p \in Sharers : \A a \in written[p] : a.question = taken[p][1]

\* A player's row is held by one sharer, once.
PlayersAreHeldOnce ==
    \A p, q \in Sharers : \A a \in written[p], b \in written[q] : a.user = b.user => p = q /\ a = b

\* What a sharer is about to commit as a first attempt still is one.
RepeatsAreKnown ==
    \A p \in Sharers : \A a \in written[p] : ~a.repeat => ~HasAttempt(a.user, a.question)

\* Each member of a row that a sharer holds is still to come, was seen to, or has no account.
AllMembersAreSeenTo ==
    \A p \in Sharers : taken[p] # NoAnswer =>
        /\ \A u \in scored[p] \intersect accounts : HasAttempt(u, taken[p][1])
        /\ \A u \in members[taken[p]] \intersect accounts :
               u \in todo[p] \/ u \in Holds(p) \/ HasAttempt(u, taken[p][1])

\* Players are locked in the order of their ids.
LockedInOrder ==
    \A p \in Sharers : \A a \in written[p], u \in todo[p] : a.user < u

\* The result of a question is out when XP has moved for it.
AttemptsAreKnown == \A a \in attempts : MayBeKnown(a.question)

SInv ==
    /\ ShareTypeOK /\ OnlyKnownAnswers
    /\ RowsAreHeldOnce /\ WritesAboutItsRow /\ PlayersAreHeldOnce
    /\ RepeatsAreKnown /\ AllMembersAreSeenTo /\ LockedInOrder
    /\ AttemptsAreKnown /\ FullXpOnce /\ NobodyIsForgotten

-------------------------------------------------------------------------------
(* What the session's steps mean for a sharer                              *)

\* The settings are fixed once the quiz runs, no deleted account comes back, and answers are final.
Settled ==
    /\ config' = config \/ state \in {"none", "lobby"}
    /\ accounts' \subseteq accounts
    /\ \A q \in Questions : answered[q] \subseteq answered'[q]

\* A handler that neither answers nor deletes a player is a step of the session that sends no answer.
LEMMA HandlerStep ==
    ASSUME Handler
    PROVE  Next /\ UNCHANGED answered /\ Settled
<1> DEFINE Fixed == UNCHANGED answered /\ Settled
<1> USE DEF Settled, deletion, progress, Finish, CloseQuestion, OpenQuestion
<1>1. ASSUME NEW c \in Configs, Create(c) \/ Configure(c) PROVE Fixed
  BY <1>1 DEF Create, Configure
<1>2. ASSUME NEW u \in Users, Join(u) \/ Remove(u) \/ Propose(u) PROVE Fixed
  BY <1>2 DEF Join, Remove, Propose
<1>3. ASSUME Seat PROVE Fixed
  BY <1>3 DEF Seat, Reseat
<1>4. ASSUME SeatBySubdepartment PROVE Fixed
  BY <1>4 DEF SeatBySubdepartment, Reseat
<1>5. ASSUME NEW u \in Users, NEW t \in Tables \union {NoTable}, Move(u, t) PROVE Fixed
  BY <1>5 DEF Move
<1>6. ASSUME NEW t \in Tables, NEW u \in Users \union {NoUser}, EditTable(t, u) PROVE Fixed
  BY <1>6 DEF EditTable
<1>7. ASSUME Refetch PROVE Fixed
  BY <1>7 DEF Refetch
<1>8. ASSUME NEW seen \in Stages, Advance(seen) PROVE Fixed
  BY <1>8 DEF Advance, Start, CloseByHost, OpenNextOrFinish
<1>9. ASSUME End \/ FinishAbandoned \/ Tick PROVE Fixed
  BY <1>9 DEF End, FinishAbandoned, Tick
<1>10. ASSUME NoticeExpiry \/ CloseExpired \/ CloseLate PROVE Fixed
  BY <1>10 DEF NoticeExpiry, CloseExpired, CloseLate
<1>11. ASSUME NEW u \in Users, AfterDeletion(u) \/ LoseFollowUp(u) PROVE Fixed
  BY <1>11 DEF AfterDeletion, LoseFollowUp
<1>12. ASSUME DeleteHost \/ LookForHosted \/ DeleteHostAsLookedUp PROVE Fixed
  BY <1>12 DEF DeleteHost, LookForHosted, DeleteHostAsLookedUp
<1> HIDE DEF Fixed, Settled
<1>13. Fixed
  BY <1>1, <1>2, <1>3, <1>4, <1>5, <1>6, <1>7, <1>8, <1>9, <1>10, <1>11, <1>12 DEF Handler
<1>14. Next
  BY DEF Handler, Next
<1> QED
  BY <1>13, <1>14 DEF Fixed

\* Sharing is no step of the session, and deleting and answering are its own steps.
LEMMA LiveStepIsAStep ==
    ASSUME TypeOK, [LiveNext]_allVars
    PROVE  [Next]_vars /\ Settled
<1> USE DEF Settled
<1>1. CASE Handler
  BY <1>1, HandlerStep
<1>2. ASSUME NEW u \in Users, NEW t \in Tables, AnswerAndList(u, t) PROVE [Next]_vars /\ Settled
  <2>1. Next
    BY <1>2 DEF AnswerAndList, Next
  <2>2. Settled
    BY <1>2 DEF AnswerAndList, Answer, deletion, TypeOK
  <2> QED
    BY <2>1, <2>2
<1>3. CASE CommitDeletion
  <2>1. DeletePlayer(leaver) /\ leaver \in Users
    BY <1>3 DEF CommitDeletion, DeletePlayer, TypeOK
  <2>2. Next
    BY <2>1 DEF Next
  <2>3. Settled
    BY <2>1 DEF DeletePlayer, progress
  <2> QED
    BY <2>2, <2>3
<1>4. CASE UNCHANGED vars
  BY <1>4 DEF vars
<1>5. ASSUME NEW p \in Sharers, ShareStep(p) \/ CrashShare(p) PROVE UNCHANGED vars
  BY <1>5 DEF ShareStep, ListPending, CommitShare, SkipAnswer, TakeAnswer, SkipPlayer, ScorePlayer,
      CrashShare, Rollback
<1>6. ASSUME NEW u \in Users, LockAccount(u) PROVE UNCHANGED vars
  BY <1>6 DEF LockAccount
<1>7. ASSUME StartScrub \/ (\E k \in Answers : ScrubRow(k)) \/ CrashDeletion PROVE UNCHANGED vars
  BY <1>7 DEF StartScrub, ScrubRow, CrashDeletion
<1>8. ASSUME NEW ps \in SUBSET Sharers, BreakCycle(ps) PROVE UNCHANGED vars
  BY <1>8 DEF BreakCycle, Rollback
<1>9. CASE UNCHANGED allVars
  BY <1>4, <1>9 DEF allVars
<1> QED
  BY <1>1, <1>2, <1>3, <1>4, <1>5, <1>6, <1>7, <1>8, <1>9 DEF LiveNext, DeletionStep

\* Sharing and deleting people step by step never do what the session alone could not, so all that the
\* theorems above show of a session holds of it.
THEOREM SharingKeepsTheSession == LiveSpec => Spec
<1>1. Init => TypeOK
  BY InitHolds DEF IInv
<1>2. TypeOK /\ [LiveNext]_allVars => [Next]_vars
  BY LiveStepIsAStep
<1>3. IInv => TypeOK
  BY DEF IInv
<1>4. IInv /\ [Next]_vars => IInv'
  BY TypeStep, StageStep, SeatingStep, OwedStep DEF IInv
<1> QED
  BY <1>1, <1>2, <1>3, <1>4, InitHolds, PTL DEF LiveSpec, Spec

-------------------------------------------------------------------------------
(* The session's steps keep what sharing relies on                         *)

\* A result that is out stays out.
LEMMA KnownStaysKnown ==
    ASSUME IInv, [Next]_vars, Settled, NEW q \in Questions, MayBeKnown(q)
    PROVE  MayBeKnown(q)'
<1>1. CourseStep
  BY EveryStepIsACourseStep
<1>2. position \in Int /\ q \in Nat /\ (state \in {"none", "lobby"} => position = -1)
  BY DEF IInv, TypeOK, StageOK, Questions
<1>3. state \notin {"none", "lobby"}
  BY <1>2 DEF MayBeKnown, ResultOut
<1>4. config' = config
  BY <1>3 DEF Settled
<1> QED
  BY <1>1, <1>2, <1>3, <1>4 DEF CourseStep, MayBeKnown, ResultOut

LEMMA AnsweredAreAnswers == Answered \subseteq Answers
BY DEF Answered

\* What a step of the session may do to the answers: add one that nobody shares yet.
AddsAnswers ==
    /\ accounts' \subseteq accounts
    /\ \A k \in Answered : k \in Answered' /\ members'[k] = members[k]
    /\ \A k \in Answers \ Answered' : members'[k] = {}
    /\ \A q \in Questions : MayBeKnown(q) => MayBeKnown(q)'
    /\ UNCHANGED <<granted, attempts, queue, taken, scored, todo, written, leaver, scrubbing, listed,
                   scrubbed, crashes>>

\* Adding answers keeps the invariant.
LEMMA AddingAnswersKeeps ==
    ASSUME SInv, ShareTypeOK', AddsAnswers
    PROVE  SInv'
<1> USE DEF AddsAnswers
<1>a. /\ Answered \subseteq Answers /\ \A k \in Answers : k[1] \in Questions
      /\ \A a \in attempts : a.question \in Questions
  BY DEF SInv, ShareTypeOK, Answered, Answers, Attempt
<1>1. OnlyKnownAnswers'
  BY <1>a DEF SInv, ShareTypeOK, OnlyKnownAnswers
<1>2. RowsAreHeldOnce' /\ WritesAboutItsRow' /\ PlayersAreHeldOnce' /\ LockedInOrder' /\ FullXpOnce'
  BY DEF SInv, RowsAreHeldOnce, WritesAboutItsRow, PlayersAreHeldOnce, LockedInOrder, FullXpOnce
<1>3. RepeatsAreKnown'
  BY DEF SInv, RepeatsAreKnown, HasAttempt
<1>4. AllMembersAreSeenTo'
  BY DEF SInv, AllMembersAreSeenTo, OnlyKnownAnswers, HasAttempt, Holds
<1>5. AttemptsAreKnown'
  BY <1>a DEF SInv, AttemptsAreKnown
<1>6. NobodyIsForgotten'
  BY DEF SInv, NobodyIsForgotten, OnlyKnownAnswers
<1> QED
  BY <1>1, <1>2, <1>3, <1>4, <1>5, <1>6 DEF SInv

\* A handler's step and a captain's answer keep it.
LEMMA SessionKeeps ==
    ASSUME IInv, SInv, [Next]_vars, Settled,
           Handler \/ \E u \in Users, t \in Tables : AnswerAndList(u, t)
    PROVE  SInv'
<1>a. \A q \in Questions : MayBeKnown(q) => MayBeKnown(q)'
  BY KnownStaysKnown
<1>b. ShareTypeOK /\ accounts' \subseteq accounts
  BY DEF SInv, Settled
<1>c. \A k \in Answers \ Answered : members[k] = {}
  BY DEF SInv, OnlyKnownAnswers
<1>1. CASE Handler
  <2>1. UNCHANGED answered /\ UNCHANGED shareVars
    BY <1>1, HandlerStep DEF Handler
  <2>2. AddsAnswers
    BY <1>a, <1>b, <1>c, <2>1 DEF AddsAnswers, Answered, shareVars, rows, locals, removal
  <2>3. ShareTypeOK'
    BY <1>b, <2>1 DEF ShareTypeOK, Answered, shareVars, rows, locals, removal
  <2> QED
    BY <2>2, <2>3, AddingAnswersKeeps
<1>2. ASSUME NEW u \in Users, NEW t \in Tables, AnswerAndList(u, t) PROVE SInv'
  <2> DEFINE new == <<position, t>>
  <2>1. /\ new \in Answers \ Answered
        /\ answered' = [answered EXCEPT ![position] = @ \union {t}]
    BY <1>2 DEF AnswerAndList, Answer, Running, MayBeInTime, IInv, StageOK, Answers, Answered
  <2>2. Answered' = Answered \union {new}
    BY <2>1 DEF Answered, Answers, IInv, TypeOK
  <2>3. /\ members' \in [Answers -> SUBSET Users]
        /\ \A k \in Answers : k # new => members'[k] = members[k]
    BY <1>2, <1>b, <2>1 DEF AnswerAndList, ShareTypeOK
  <2>4. UNCHANGED <<granted, attempts, queue, taken, scored, todo, written, leaver, scrubbing, listed,
                    scrubbed, crashes>>
    BY <1>2 DEF AnswerAndList, locals, removal
  <2>5. sent' \in Seq(Answers)
    BY <1>2, <1>b, <2>1 DEF AnswerAndList, ShareTypeOK
  <2> HIDE DEF new
  <2>6. AddsAnswers
    BY <1>a, <1>b, <1>c, <2>1, <2>2, <2>3, <2>4 DEF AddsAnswers, Answered
  <2>8. listed' \subseteq {k \in Answered' : leaver' \in members'[k]}
    <3>1. \A k \in listed : k \in Answered /\ k # new /\ k \in Answers /\ leaver \in members[k]
      BY <1>b, <2>1, AnsweredAreAnswers DEF ShareTypeOK
    <3> QED
      BY <2>2, <2>3, <2>4, <3>1
  <2>7. ShareTypeOK'
    BY <1>b, <2>3, <2>4, <2>5, <2>8 DEF ShareTypeOK
  <2> QED
    BY <2>6, <2>7, AddingAnswersKeeps
<1> QED
  BY <1>1, <1>2

-------------------------------------------------------------------------------
(* A sharer's steps keep it                                                *)

\* What a step leaves alone that is not the session's.
LEMMA SessionUntouched ==
    ASSUME UNCHANGED vars
    PROVE  /\ Answered' = Answered /\ accounts' = accounts
           /\ \A q : MayBeKnown(q)' <=> MayBeKnown(q)
BY DEF vars, Answered, MayBeKnown, ResultOut

\* The list of what may be shared, and going past an answer on it.
LEMMA QueueKeeps ==
    ASSUME SInv, NEW p \in Sharers,
           ListPending(p) \/ \E k \in Answers : SkipAnswer(p, k)
    PROVE  SInv'
<1>1. UNCHANGED <<vars, rows, taken, scored, todo, written, removal, crashes>>
  BY DEF ListPending, SkipAnswer
<1>2. /\ queue' \in [Sharers -> SUBSET Answers]
      /\ \A r \in Sharers : queue'[r] \subseteq queue[r] \union Pending
  BY DEF ListPending, SkipAnswer, SInv, ShareTypeOK, Pending, Answered
<1>3. ShareTypeOK'
  BY <1>1, <1>2, SessionUntouched DEF SInv, ShareTypeOK, rows, removal
<1>4. OnlyKnownAnswers'
  BY <1>1, <1>2, SessionUntouched DEF SInv, OnlyKnownAnswers, Pending, rows
<1>5. RowsAreHeldOnce' /\ WritesAboutItsRow' /\ PlayersAreHeldOnce' /\ LockedInOrder' /\ FullXpOnce'
  BY <1>1 DEF SInv, RowsAreHeldOnce, WritesAboutItsRow, PlayersAreHeldOnce, LockedInOrder,
      FullXpOnce, rows, removal
<1>6. RepeatsAreKnown' /\ AllMembersAreSeenTo' /\ NobodyIsForgotten'
  BY <1>1, SessionUntouched DEF SInv, RepeatsAreKnown, AllMembersAreSeenTo, NobodyIsForgotten,
      HasAttempt, Holds, rows
<1>7. AttemptsAreKnown'
  BY <1>1, SessionUntouched DEF SInv, AttemptsAreKnown, rows
<1> QED
  BY <1>3, <1>4, <1>5, <1>6, <1>7 DEF SInv

\* Taking an answer's row, which nobody holds and nobody has shared.
LEMMA TakeKeeps ==
    ASSUME SInv, NEW p \in Sharers, NEW k \in Answers, TakeAnswer(p, k)
    PROVE  SInv'
<1>1. UNCHANGED <<vars, rows, written, removal, crashes>>
  BY DEF TakeAnswer
<1>2. /\ taken[p] = NoAnswer /\ k # NoAnswer /\ k \in queue[p]
      /\ k \notin granted \union scrubbed /\ \A r \in Sharers : taken[r] # k
  BY SharersAssumption DEF TakeAnswer, IsNext, AlreadyGranted, HeldBySharer, HeldByDeletion, Answers
<1>3. /\ queue' = [queue EXCEPT ![p] = @ \ {k}]
      /\ taken' = [taken EXCEPT ![p] = k]
      /\ todo' = [todo EXCEPT ![p] = members[k]]
  BY DEF TakeAnswer
<1> DEFINE seen == {a.user : a \in {b \in attempts : b.question = k[1]}}
<1>4. /\ scored' = [scored EXCEPT ![p] = seen]
      /\ seen \subseteq Users /\ \A u \in seen : HasAttempt(u, k[1])
  BY DEF TakeAnswer, SInv, ShareTypeOK, Attempt, HasAttempt
<1> HIDE DEF seen
<1>5. written[p] = {}
  BY <1>2 DEF SInv, WritesAboutItsRow
<1>6. ShareTypeOK'
  BY <1>1, <1>3, <1>4, SessionUntouched DEF SInv, ShareTypeOK, rows, removal
<1>7. OnlyKnownAnswers'
  BY <1>1, <1>2, <1>3, SessionUntouched DEF SInv, ShareTypeOK, OnlyKnownAnswers, rows
<1>8. RowsAreHeldOnce'
  BY <1>1, <1>2, <1>3 DEF SInv, ShareTypeOK, RowsAreHeldOnce, rows, removal
<1>9. WritesAboutItsRow'
  BY <1>1, <1>2, <1>3, <1>4, <1>5 DEF SInv, ShareTypeOK, WritesAboutItsRow
<1>10. LockedInOrder'
  BY <1>1, <1>3, <1>5 DEF SInv, ShareTypeOK, LockedInOrder
<1>11. PlayersAreHeldOnce' /\ FullXpOnce' /\ RepeatsAreKnown' /\ NobodyIsForgotten'
  BY <1>1, SessionUntouched DEF SInv, PlayersAreHeldOnce, FullXpOnce, RepeatsAreKnown,
      NobodyIsForgotten, HasAttempt, rows
<1>12. AllMembersAreSeenTo'
  <2>1. UNCHANGED <<attempts, members, written>>
    BY <1>1 DEF rows
  <2>2. \A u, q : HasAttempt(u, q)' <=> HasAttempt(u, q)
    BY <2>1 DEF HasAttempt
  <2>3. \A r \in Sharers : Holds(r)' = Holds(r)
    BY <2>1 DEF Holds
  <2>4. \A r \in Sharers : taken'[r] # NoAnswer =>
            /\ \A u \in scored'[r] \intersect accounts : HasAttempt(u, taken'[r][1])
            /\ \A u \in members[taken'[r]] \intersect accounts :
                   u \in todo'[r] \/ u \in Holds(r) \/ HasAttempt(u, taken'[r][1])
    BY <1>3, <1>4 DEF SInv, ShareTypeOK, AllMembersAreSeenTo
  <2> QED
    BY <1>1, <2>1, <2>2, <2>3, <2>4, SessionUntouched DEF AllMembersAreSeenTo
<1>13. AttemptsAreKnown'
  BY <1>1, SessionUntouched DEF SInv, AttemptsAreKnown, rows
<1> QED
  BY <1>6, <1>7, <1>8, <1>9, <1>10, <1>11, <1>12, <1>13 DEF SInv

\* Going past a member who was scored before or has no account.
LEMMA SkipPlayerKeeps ==
    ASSUME SInv, NEW p \in Sharers, NEW u \in Users, SkipPlayer(p, u)
    PROVE  SInv'
<1>1. UNCHANGED <<vars, rows, queue, taken, scored, written, removal, crashes>>
  BY DEF SkipPlayer
<1>2. /\ taken[p] # NoAnswer /\ todo' = [todo EXCEPT ![p] = @ \ {u}]
      /\ u \in accounts => HasAttempt(u, taken[p][1])
  BY DEF SkipPlayer, SInv, AllMembersAreSeenTo
<1>3. ShareTypeOK'
  BY <1>1, <1>2, SessionUntouched DEF SInv, ShareTypeOK, rows, removal
<1>4. OnlyKnownAnswers' /\ AttemptsAreKnown'
  BY <1>1, SessionUntouched DEF SInv, OnlyKnownAnswers, AttemptsAreKnown, rows
<1>5. WritesAboutItsRow' /\ LockedInOrder'
  BY <1>1, <1>2 DEF SInv, ShareTypeOK, WritesAboutItsRow, LockedInOrder
<1>6. RowsAreHeldOnce' /\ PlayersAreHeldOnce' /\ FullXpOnce' /\ RepeatsAreKnown' /\ NobodyIsForgotten'
  BY <1>1, SessionUntouched DEF SInv, RowsAreHeldOnce, PlayersAreHeldOnce, FullXpOnce, RepeatsAreKnown,
      NobodyIsForgotten, HasAttempt, rows, removal
<1>7. AllMembersAreSeenTo'
  <2>1. \A v \in Users, r \in Sharers : v \in todo[r] => v \in todo'[r] \/ (r = p /\ v = u)
    BY <1>2 DEF SInv, ShareTypeOK
  <2>2. \A r \in Sharers : taken[r] # NoAnswer => taken[r] \in Answers
    BY DEF SInv, ShareTypeOK
  <2> QED
    BY <1>1, <1>2, <2>1, <2>2, SessionUntouched DEF SInv, ShareTypeOK, AllMembersAreSeenTo, HasAttempt,
        Holds, rows
<1> QED
  BY <1>3, <1>4, <1>5, <1>6, <1>7 DEF SInv

\* Scoring a member, whose row nobody else holds: what is committed by now decides on a repeat.
LEMMA ScoreKeeps ==
    ASSUME SInv, NEW p \in Sharers, NEW u \in Users, ScorePlayer(p, u)
    PROVE  SInv'
<1> DEFINE new == [user |-> u, question |-> taken[p][1], table |-> taken[p][2], repeat |-> Repeat(p, u)]
<1>1. UNCHANGED <<vars, rows, queue, taken, scored, removal, crashes>>
  BY DEF ScorePlayer
<1>2. /\ taken[p] # NoAnswer /\ taken[p] \in Answers
      /\ \A v \in todo[p] : u <= v
      /\ \A r \in Sharers : \A a \in written[r] : a.user # u
      /\ written' = [written EXCEPT ![p] = @ \union {new}]
      /\ todo' = [todo EXCEPT ![p] = @ \ {u}]
  BY DEF ScorePlayer, NextMember, PlayerFree, Holds, SInv, ShareTypeOK
<1>3. /\ new \in Attempt /\ new.user = u /\ new.question = taken[p][1]
      /\ ~new.repeat => ~HasAttempt(u, taken[p][1])
  <2>1. Repeat(p, u) \in BOOLEAN
    BY Zenon DEF Repeat
  <2>2. taken[p][1] \in Questions /\ taken[p][2] \in Tables
    BY <1>2 DEF Answers
  <2>3. ~new.repeat => ~HasAttempt(u, taken[p][1])
    BY Zenon DEF Repeat, HasAttempt
  <2> QED
    BY <2>1, <2>2, <2>3 DEF Attempt
<1> HIDE DEF new
<1>4. ShareTypeOK'
  BY <1>1, <1>2, <1>3, SessionUntouched DEF SInv, ShareTypeOK, rows, removal
<1>5. OnlyKnownAnswers' /\ AttemptsAreKnown'
  BY <1>1, SessionUntouched DEF SInv, OnlyKnownAnswers, AttemptsAreKnown, rows
<1>6. \A r \in Sharers : \A a \in written'[r] : a \in written[r] \/ (r = p /\ a = new)
  BY <1>2 DEF SInv, ShareTypeOK
<1>7. WritesAboutItsRow'
  BY <1>1, <1>2, <1>3, <1>6 DEF SInv, ShareTypeOK, WritesAboutItsRow
<1>8. LockedInOrder'
  <2>1. \A r \in Sharers : \A v \in todo'[r] : v \in todo[r] /\ (r = p => u < v)
    BY <1>2, IdsAssumption DEF SInv, ShareTypeOK
  <2> QED
    BY <1>3, <1>6, <2>1 DEF SInv, LockedInOrder
<1>9. PlayersAreHeldOnce'
  BY <1>2, <1>3, <1>6 DEF SInv, PlayersAreHeldOnce
<1>10. RepeatsAreKnown'
  <2>1. \A v, q : HasAttempt(v, q)' <=> HasAttempt(v, q)
    BY <1>1 DEF HasAttempt, rows
  <2> QED
    BY <1>3, <1>6, <2>1 DEF SInv, RepeatsAreKnown
<1>11. RowsAreHeldOnce' /\ FullXpOnce' /\ NobodyIsForgotten'
  BY <1>1, SessionUntouched DEF SInv, RowsAreHeldOnce, FullXpOnce, NobodyIsForgotten, rows, removal
<1>12. AllMembersAreSeenTo'
  <2>1. \A r \in Sharers : Holds(r) \subseteq Holds(r)' /\ (r = p => u \in Holds(r)')
    BY <1>2, <1>3 DEF SInv, ShareTypeOK, Holds
  <2>2. \A v \in Users, r \in Sharers : v \in todo[r] => v \in todo'[r] \/ (r = p /\ v = u)
    BY <1>2 DEF SInv, ShareTypeOK
  <2>3. \A v, q : HasAttempt(v, q)' <=> HasAttempt(v, q)
    BY <1>1 DEF HasAttempt, rows
  <2>4. UNCHANGED <<members, taken, scored, accounts>>
    BY <1>1, SessionUntouched DEF rows
  <2> QED
    BY <2>1, <2>2, <2>3, <2>4 DEF SInv, ShareTypeOK, AllMembersAreSeenTo
<1> QED
  BY <1>4, <1>5, <1>7, <1>8, <1>9, <1>10, <1>11, <1>12 DEF SInv

\* What holds of a sharer's locals after its transaction: nothing of it is left.
LEMMA Released ==
    ASSUME SInv, NEW p \in Sharers, Release(p)
    PROVE  /\ taken' \in [Sharers -> Answers \union {NoAnswer}]
           /\ scored' \in [Sharers -> SUBSET Users] /\ todo' \in [Sharers -> SUBSET Users]
           /\ written' \in [Sharers -> SUBSET Attempt]
           /\ taken'[p] = NoAnswer /\ scored'[p] = {} /\ todo'[p] = {} /\ written'[p] = {}
           /\ \A r \in Sharers \ {p} : /\ taken'[r] = taken[r] /\ scored'[r] = scored[r]
                                       /\ todo'[r] = todo[r] /\ written'[r] = written[r]
BY DEF SInv, ShareTypeOK, Release

\* The commit: nobody else has written about these players, and all members were seen to.
LEMMA CommitKeeps ==
    ASSUME SInv, NEW p \in Sharers, CommitShare(p)
    PROVE  SInv'
<1> DEFINE k == taken[p]
<1>1. /\ UNCHANGED <<vars, members, sent, queue, removal, crashes>> /\ Release(p)
      /\ k # NoAnswer /\ todo[p] = {}
      /\ granted' = granted \union {k} /\ attempts' = attempts \union written[p]
  BY DEF CommitShare, AllMembersDone
<1>2. /\ k \in Answered /\ MayBeKnown(k[1]) /\ k \notin granted \union scrubbed
      /\ \A a \in written[p] : a.question = k[1]
  BY <1>1 DEF SInv, OnlyKnownAnswers, RowsAreHeldOnce, WritesAboutItsRow
<1>3. \A v, q : HasAttempt(v, q) => HasAttempt(v, q)'
  BY <1>1 DEF HasAttempt
<1>4. ShareTypeOK'
  BY <1>1, <1>2, Released, AnsweredAreAnswers, SessionUntouched DEF SInv, ShareTypeOK, removal
<1>5. OnlyKnownAnswers' /\ AttemptsAreKnown'
  <2>1. AttemptsAreKnown'
    BY <1>1, <1>2, SessionUntouched DEF SInv, AttemptsAreKnown
  <2>2. OnlyKnownAnswers'
    BY <1>1, <1>2, Released, SessionUntouched DEF SInv, OnlyKnownAnswers
  <2> QED
    BY <2>1, <2>2
<1>6. RowsAreHeldOnce'
  <2>1. NoAnswer \notin granted' \union scrubbed'
    BY <1>1, <1>4, SharersAssumption, AnsweredAreAnswers, SessionUntouched DEF ShareTypeOK, Answers
  <2> QED
    BY <1>1, <2>1, Released DEF SInv, RowsAreHeldOnce, removal
<1>7. WritesAboutItsRow' /\ PlayersAreHeldOnce' /\ LockedInOrder'
  BY <1>1, Released DEF SInv, WritesAboutItsRow, PlayersAreHeldOnce, LockedInOrder
<1>8. RepeatsAreKnown'
  <2> SUFFICES ASSUME NEW r \in Sharers, NEW a, a \in written'[r], ~a.repeat,
                      NEW b, b \in attempts', b.user = a.user, b.question = a.question
               PROVE  FALSE
    BY DEF RepeatsAreKnown, HasAttempt
  <2>1. r # p /\ a \in written[r]
    BY <1>1, Released
  <2>2. b \notin attempts
    BY <2>1 DEF SInv, RepeatsAreKnown, HasAttempt
  <2> QED
    BY <1>1, <2>1, <2>2 DEF SInv, PlayersAreHeldOnce
<1>9. FullXpOnce'
  BY <1>1 DEF SInv, FullXpOnce, RepeatsAreKnown, PlayersAreHeldOnce, HasAttempt
<1>10. AllMembersAreSeenTo'
  <2>1. \A r \in Sharers \ {p} : Holds(r)' = Holds(r)
    BY <1>1, Released DEF Holds
  <2>2. UNCHANGED <<members, accounts>>
    BY <1>1, SessionUntouched
  <2> QED
    BY <1>1, <1>3, <2>1, <2>2, Released DEF SInv, AllMembersAreSeenTo
<1>11. NobodyIsForgotten'
  <2>1. \A u \in members[k] \intersect accounts : \E a \in attempts' : a.user = u /\ a.question = k[1]
    BY <1>1, <1>2 DEF SInv, AllMembersAreSeenTo, HasAttempt, Holds
  <2>2. \A j \in granted : \A u \in members[j] \intersect accounts : HasAttempt(u, j[1])'
    BY <1>3 DEF SInv, NobodyIsForgotten, HasAttempt
  <2>3. UNCHANGED <<members, accounts>>
    BY <1>1, SessionUntouched
  <2> QED
    BY <1>1, <2>1, <2>2, <2>3 DEF NobodyIsForgotten, HasAttempt
<1> QED
  BY <1>4, <1>5, <1>6, <1>7, <1>8, <1>9, <1>10, <1>11 DEF SInv

\* A crash and an undone transaction leave nothing behind.
LEMMA RollbackKeeps ==
    ASSUME SInv, NEW p \in Sharers, Rollback(p), crashes' \in 0 .. MaxCrashes
    PROVE  SInv'
<1>1. /\ UNCHANGED <<vars, rows, removal>> /\ Release(p)
      /\ queue' = [queue EXCEPT ![p] = {}]
  BY DEF Rollback
<1>2. UNCHANGED <<members, sent, granted, attempts, leaver, scrubbing, listed, scrubbed>>
  BY <1>1 DEF rows, removal
<1>3. ShareTypeOK'
  BY <1>1, <1>2, Released, SessionUntouched DEF SInv, ShareTypeOK
<1>4. OnlyKnownAnswers' /\ AttemptsAreKnown'
  <2>1. \A r \in Sharers : queue'[r] \subseteq queue[r]
    BY <1>1 DEF SInv, ShareTypeOK
  <2>2. OnlyKnownAnswers'
    BY <1>1, <1>2, <2>1, Released, SessionUntouched DEF SInv, OnlyKnownAnswers
  <2>3. AttemptsAreKnown'
    BY <1>1, <1>2, SessionUntouched DEF SInv, AttemptsAreKnown
  <2> QED
    BY <2>2, <2>3
<1>5. RowsAreHeldOnce'
  <2>1. NoAnswer \notin granted \union scrubbed
    BY SharersAssumption, AnsweredAreAnswers DEF SInv, ShareTypeOK, Answers
  <2> QED
    BY <1>1, <1>2, <2>1, Released DEF SInv, RowsAreHeldOnce
<1>6. WritesAboutItsRow' /\ PlayersAreHeldOnce' /\ LockedInOrder'
  BY <1>1, Released DEF SInv, WritesAboutItsRow, PlayersAreHeldOnce, LockedInOrder
<1>7. RepeatsAreKnown' /\ FullXpOnce' /\ NobodyIsForgotten'
  BY <1>1, <1>2, Released, SessionUntouched DEF SInv, RepeatsAreKnown, FullXpOnce, NobodyIsForgotten,
      HasAttempt
<1>8. AllMembersAreSeenTo'
  <2>1. \A r \in Sharers \ {p} : Holds(r)' = Holds(r)
    BY <1>1, Released DEF Holds
  <2>2. \A v, q : HasAttempt(v, q)' <=> HasAttempt(v, q)
    BY <1>2 DEF HasAttempt
  <2> QED
    BY <1>1, <1>2, <2>1, <2>2, Released, SessionUntouched DEF SInv, AllMembersAreSeenTo
<1> QED
  BY <1>3, <1>4, <1>5, <1>6, <1>7, <1>8 DEF SInv

-------------------------------------------------------------------------------
(* A deletion's steps keep it                                              *)

\* Locking the account and the rows that list it, and giving all of it back.
LEMMA LocksKeep ==
    ASSUME SInv,
           UNCHANGED <<vars, rows, locals>>,
           leaver' \in Users \union {NoUser}, scrubbing' \in BOOLEAN, crashes' \in 0 .. MaxCrashes,
           listed' \subseteq {k \in Answered : leaver' \in members[k]}, scrubbed' \subseteq listed',
           scrubbing' \/ listed' = {},
           \A k \in scrubbed' \ scrubbed : k \in Answers /\ ~HeldBySharer(k)
    PROVE  SInv'
<1>1. ShareTypeOK'
  BY SessionUntouched DEF SInv, ShareTypeOK, rows, locals
<1>2. OnlyKnownAnswers' /\ AttemptsAreKnown'
  BY SessionUntouched DEF SInv, OnlyKnownAnswers, AttemptsAreKnown, rows, locals
<1>3. RowsAreHeldOnce'
  BY DEF SInv, RowsAreHeldOnce, HeldBySharer, rows, locals
<1>4. WritesAboutItsRow' /\ PlayersAreHeldOnce' /\ LockedInOrder' /\ FullXpOnce'
  BY DEF SInv, WritesAboutItsRow, PlayersAreHeldOnce, LockedInOrder, FullXpOnce, rows, locals
<1>5. RepeatsAreKnown' /\ AllMembersAreSeenTo' /\ NobodyIsForgotten'
  BY SessionUntouched DEF SInv, RepeatsAreKnown, AllMembersAreSeenTo, NobodyIsForgotten, HasAttempt,
      Holds, rows, locals
<1> QED
  BY <1>1, <1>2, <1>3, <1>4, <1>5 DEF SInv

\* The account goes, with its attempts and from the lists that the update had found.
LEMMA CommitDeletionKeeps ==
    ASSUME IInv, SInv, [Next]_vars, Settled, CommitDeletion
    PROVE  SInv'
<1>1. /\ UNCHANGED <<sent, granted, queue, taken, scored, todo, written, crashes>>
      /\ members' = [k \in Answers |-> IF k \in listed THEN members[k] \ {leaver} ELSE members[k]]
      /\ attempts' = {a \in attempts : a.user # leaver}
      /\ leaver' = NoUser /\ scrubbing' = FALSE /\ listed' = {} /\ scrubbed' = {}
  BY DEF CommitDeletion, EndDeletion, locals
<1>2. accounts' = accounts \ {leaver} /\ answered' = answered
  BY DEF CommitDeletion, DeletePlayer, progress
<1>3. Answered' = Answered
  BY <1>2 DEF Answered
<1>4. \A k \in Answers : k[1] \in Questions
  BY DEF Answers
<1>5. \A q \in Questions : MayBeKnown(q) => MayBeKnown(q)'
  BY KnownStaysKnown
<1>6. members' \in [Answers -> SUBSET Users] /\ \A k \in Answers : members'[k] \subseteq members[k]
  BY <1>1 DEF SInv, ShareTypeOK
<1>7. \A u \in accounts' : \A q : HasAttempt(u, q) => HasAttempt(u, q)'
  BY <1>1, <1>2 DEF HasAttempt
<1>8. attempts' \subseteq attempts
  BY <1>1
<1>9. ShareTypeOK'
  <2>1. scrubbing' \in BOOLEAN
    BY <1>1
  <2> QED
    BY <1>1, <1>6, <1>8, <2>1 DEF SInv, ShareTypeOK
<1>10. OnlyKnownAnswers'
  BY <1>1, <1>3, <1>4, <1>5, <1>6 DEF SInv, ShareTypeOK, OnlyKnownAnswers, Answered
<1>11. RowsAreHeldOnce' /\ WritesAboutItsRow' /\ PlayersAreHeldOnce' /\ LockedInOrder'
  BY <1>1 DEF SInv, RowsAreHeldOnce, WritesAboutItsRow, PlayersAreHeldOnce, LockedInOrder
<1>12. RepeatsAreKnown' /\ FullXpOnce'
  BY <1>1, <1>8 DEF SInv, RepeatsAreKnown, FullXpOnce, HasAttempt
<1>13. AllMembersAreSeenTo'
  BY <1>1, <1>2, <1>6, <1>7 DEF SInv, ShareTypeOK, AllMembersAreSeenTo, Holds
<1>14. AttemptsAreKnown'
  BY <1>5, <1>8 DEF SInv, ShareTypeOK, Attempt, AttemptsAreKnown
<1>15. NobodyIsForgotten'
  <2>1. \A k \in granted : k \in Answers /\ \A u \in members[k] \intersect accounts : HasAttempt(u, k[1])
    BY DEF SInv, ShareTypeOK, NobodyIsForgotten, HasAttempt
  <2>2. \A k \in granted : \A u \in members'[k] \intersect accounts' : HasAttempt(u, k[1])'
    BY <1>2, <1>6, <1>7, <2>1
  <2> QED
    BY <1>1, <2>2 DEF NobodyIsForgotten, HasAttempt
<1> QED
  BY <1>9, <1>10, <1>11, <1>12, <1>13, <1>14, <1>15 DEF SInv

-------------------------------------------------------------------------------
(* The inductive invariant                                                 *)

LEMMA ShareInitHolds == Init /\ ShareInit => SInv
<1> SUFFICES ASSUME Init, ShareInit PROVE SInv
  OBVIOUS
<1> USE DEF ShareInit, NobodyShares, NobodyIsDeleted
<1>1. ShareTypeOK
  <2>1. scrubbing \in BOOLEAN
    BY Zenon
  <2>2. crashes \in 0 .. MaxCrashes
    BY SharersAssumption
  <2> QED
    BY <2>1, <2>2 DEF ShareTypeOK
<1>2. OnlyKnownAnswers /\ RowsAreHeldOnce /\ WritesAboutItsRow /\ AttemptsAreKnown
  BY DEF OnlyKnownAnswers, RowsAreHeldOnce, WritesAboutItsRow, AttemptsAreKnown
<1>3. PlayersAreHeldOnce /\ RepeatsAreKnown /\ AllMembersAreSeenTo /\ LockedInOrder
  BY DEF PlayersAreHeldOnce, RepeatsAreKnown, AllMembersAreSeenTo, LockedInOrder
<1>4. FullXpOnce /\ NobodyIsForgotten
  BY DEF FullXpOnce, NobodyIsForgotten
<1> QED
  BY <1>1, <1>2, <1>3, <1>4 DEF SInv

\* Every step of the session, of a sharer and of a deletion keeps it.
LEMMA ShareStepKeeps ==
    ASSUME IInv, SInv, [LiveNext]_allVars
    PROVE  SInv'
<1>a. [Next]_vars /\ Settled
  BY LiveStepIsAStep DEF IInv
<1>b. /\ leaver \in Users \union {NoUser} /\ scrubbing \in BOOLEAN /\ crashes \in 0 .. MaxCrashes
      /\ listed \subseteq {k \in Answered : leaver \in members[k]} /\ scrubbed \subseteq listed
      /\ scrubbing \/ listed = {}
  BY DEF SInv, ShareTypeOK, RowsAreHeldOnce
<1>1. CASE Handler \/ \E u \in Users, t \in Tables : AnswerAndList(u, t)
  BY <1>1, <1>a, SessionKeeps
<1>2. ASSUME NEW p \in Sharers, ShareStep(p) PROVE SInv'
  <2>1. CASE ListPending(p) \/ \E k \in Answers : SkipAnswer(p, k)
    BY <2>1, QueueKeeps
  <2>2. ASSUME NEW k \in Answers, TakeAnswer(p, k) PROVE SInv'
    BY <2>2, TakeKeeps
  <2>3. ASSUME NEW u \in Users, SkipPlayer(p, u) PROVE SInv'
    BY <2>3, SkipPlayerKeeps
  <2>4. ASSUME NEW u \in Users, ScorePlayer(p, u) PROVE SInv'
    BY <2>4, ScoreKeeps
  <2>5. CASE CommitShare(p)
    BY <2>5, CommitKeeps
  <2> QED
    BY <1>2, <2>1, <2>2, <2>3, <2>4, <2>5 DEF ShareStep
<1>3. ASSUME NEW p \in Sharers, CrashShare(p) PROVE SInv'
  <2>1. Rollback(p) /\ crashes' \in 0 .. MaxCrashes
    BY <1>3, <1>b, SharersAssumption DEF CrashShare
  <2> QED
    BY <2>1, RollbackKeeps
<1>4. ASSUME NEW u \in Users, LockAccount(u) PROVE SInv'
  <2>1. \A k \in Answered : NoUser \notin members[k]
    BY IdsAssumption, AnsweredAreAnswers DEF SInv, ShareTypeOK
  <2>2. listed = {} /\ scrubbed = {}
    BY <1>4, <1>b, <2>1 DEF LockAccount
  <2> QED
    BY <1>4, <1>b, <2>2, LocksKeep DEF LockAccount
<1>5. CASE StartScrub
  <2>1. listed' \subseteq {k \in Answered : leaver' \in members[k]} /\ scrubbing' \in BOOLEAN
    BY <1>5 DEF StartScrub, AnswersThatList
  <2>2. scrubbed = {}
    BY <1>5, <1>b DEF StartScrub, SInv, RowsAreHeldOnce
  <2> QED
    BY <1>5, <1>b, <2>1, <2>2, LocksKeep DEF StartScrub
<1>6. ASSUME NEW k \in Answers, ScrubRow(k) PROVE SInv'
  BY <1>6, <1>b, LocksKeep DEF ScrubRow
<1>7. CASE CommitDeletion
  BY <1>7, <1>a, CommitDeletionKeeps
<1>8. CASE CrashDeletion
  <2>1. crashes' \in 0 .. MaxCrashes
    BY <1>8, <1>b, SharersAssumption DEF CrashDeletion
  <2>2. EndDeletion /\ UNCHANGED <<vars, rows, locals>>
    BY <1>8 DEF CrashDeletion
  <2>3. scrubbing' \in BOOLEAN
    BY <2>2 DEF EndDeletion
  <2> QED
    BY <1>b, <2>1, <2>2, <2>3, LocksKeep DEF EndDeletion
<1>9. ASSUME NEW ps \in SUBSET Sharers, BreakCycle(ps) PROVE SInv'
  <2>1. crashes' \in 0 .. MaxCrashes
    BY <1>9, <1>b DEF BreakCycle
  <2>2. ASSUME NEW p \in ps, Rollback(p) PROVE SInv'
    BY <2>1, <2>2, RollbackKeeps
  <2>3. ASSUME EndDeletion, UNCHANGED <<vars, rows, locals>> PROVE SInv'
    <3>1. scrubbing' \in BOOLEAN
      BY <2>3 DEF EndDeletion
    <3> QED
      BY <1>b, <2>1, <2>3, <3>1, LocksKeep DEF EndDeletion
  <2> QED
    BY <1>9, <2>2, <2>3 DEF BreakCycle
<1>10. CASE UNCHANGED allVars
  BY <1>10, <1>b, LocksKeep DEF allVars, shareVars, removal
<1> QED
  BY <1>1, <1>2, <1>3, <1>4, <1>5, <1>6, <1>7, <1>8, <1>9, <1>10 DEF LiveNext, DeletionStep

\* What sharing relies on holds throughout.
THEOREM SharingInvariantHolds == LiveSpec => []SInv
<1>1. IInv /\ SInv /\ [LiveNext]_allVars => SInv'
  BY ShareStepKeeps
<1> QED
  BY <1>1, ShareInitHolds, SharingKeepsTheSession, InvariantHolds, PTL DEF LiveSpec

-------------------------------------------------------------------------------
(* What follows from it                                                    *)

\* Every variable of sharing and deleting keeps its type, and no crash is counted beyond the bound.
THEOREM SharingTypeCorrect == LiveSpec => []ShareTypeOK
<1>1. SInv => ShareTypeOK
  BY DEF SInv
<1> QED
  BY <1>1, SharingInvariantHolds, PTL

\* XP for a question moves only once its result is out (share, lines 121 to 124), and the result
\* stays out: nobody can read off their XP whether an answer that is still open is right.
THEOREM ResultsComeFirst == LiveSpec => []XpFollowsTheResult
<1>1. IInv /\ SInv => XpFollowsTheResult
  <2> SUFFICES ASSUME IInv, SInv, NEW a \in attempts
               PROVE  \/ state = "finished"
                      \/ config.feedback = "each" /\ a.question < position
                      \/ config.feedback = "each" /\ a.question = position /\ state = "closed"
    BY DEF XpFollowsTheResult
  <2>1. a.question \in Int /\ position \in Int
    BY DEF IInv, SInv, TypeOK, ShareTypeOK, Attempt, Questions
  <2>2. MayBeKnown(a.question)
    BY DEF SInv, AttemptsAreKnown
  <2> QED
    BY <2>1, <2>2 DEF MayBeKnown, ResultOut
<1> QED
  BY <1>1, SharingInvariantHolds, SharingKeepsTheSession, InvariantHolds, PTL

\* Nobody is paid the full XP of a question twice, however many sharers run, crash and repeat each
\* other's work: whoever writes an attempt holds the player's row since before it decided on a repeat.
THEOREM NobodyIsPaidTwice == LiveSpec => []FullXpOnce
<1>1. SInv => FullXpOnce
  BY DEF SInv
<1> QED
  BY <1>1, SharingInvariantHolds, PTL

\* An answer that is marked as shared has reached every member who still has an account.
THEOREM SharedReachesEveryone == LiveSpec => []NobodyIsForgotten
<1>1. SInv => NobodyIsForgotten
  BY DEF SInv
<1> QED
  BY <1>1, SharingInvariantHolds, PTL

\* Two sharers never wait for each other: each holds only players with lower ids than those it has
\* still to lock (answer sorts member_ids).
THEOREM NoDeadlockAmongSharers == LiveSpec => []SharersNeverDeadlock
<1>1. SInv => SharersNeverDeadlock
  <2> SUFFICES ASSUME SInv, NEW p \in Sharers, NEW q \in Sharers,
                      NEW a \in written[q], AwaitsPlayer(p, a.user),
                      NEW b \in written[p], AwaitsPlayer(q, b.user)
               PROVE  FALSE
    BY DEF SharersNeverDeadlock, Holds
  <2>1. a.user \in todo[p] /\ b.user \in todo[q]
    BY DEF AwaitsPlayer, NextMember
  <2>2. b.user < a.user /\ a.user < b.user
    BY <2>1 DEF SInv, LockedInOrder
  <2>3. a.user \in Nat /\ b.user \in Nat
    <3>1. a \in Attempt /\ b \in Attempt
      BY DEF SInv, ShareTypeOK
    <3> QED
      BY <3>1, IdsAssumption DEF Attempt
  <2>4. \A i, j \in Nat : ~(i < j /\ j < i)
    OBVIOUS
  <2> QED
    BY <2>2, <2>3, <2>4
<1> QED
  BY <1>1, SharingInvariantHolds, PTL
=================================================================================
