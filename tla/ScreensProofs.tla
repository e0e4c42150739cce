----------------------------- MODULE ScreensProofs -----------------------------
(***************************************************************************)
(* Proofs about the screens of a live quiz, for any number of screens,     *)
(* workers, changes and faults.                                            *)
(*                                                                         *)
(* Nothing that is kept or under way is ahead of the session, a room is    *)
(* never behind the version it is filed under, and a request reads its     *)
(* version after whatever its screen shows was built.                      *)
(***************************************************************************)
EXTENDS Screens, TLAPS

\* A room or what a screen shows: all of its version, and nothing that is not there yet.
Fresh(r) == r.version \in Nat /\ r.data \in Nat /\ r.version <= r.data /\ r.data <= version

RoomsAreFresh ==
    /\ rooms = [w \in Workers |-> rooms[w]]
    /\ \A w \in Workers : rooms[w] # None => Fresh(rooms[w])

ScreensAreFresh ==
    /\ screen = [s \in Screens |-> screen[s]]
    /\ \A s \in Screens : screen[s] # None => Fresh(screen[s])

FetchesAreLater ==
    /\ fetch = [s \in Screens |-> fetch[s]]
    /\ \A s \in Screens : fetch[s] # None =>
          /\ fetch[s].worker \in Workers /\ fetch[s].version \in Nat /\ fetch[s].version <= version
          /\ screen[s] # None => screen[s].data <= fetch[s].version

IInv == version \in Nat /\ RoomsAreFresh /\ ScreensAreFresh /\ FetchesAreLater

\* What a step may do to the screens.
NoneGoesBack ==
    \A s \in Screens : screen'[s] # None =>
        /\ screen'[s].data >= screen'[s].version
        /\ screen[s] # None =>
              /\ screen'[s].version >= screen[s].version /\ screen'[s].data >= screen[s].data

LEMMA ScreensStay == IInv /\ UNCHANGED screen => NoneGoesBack
BY DEF IInv, ScreensAreFresh, Fresh, NoneGoesBack

\* The session, the rooms and the fetches as a step leaves them.
RoomsStayFresh ==
    /\ version' \in Nat /\ version' >= version
    /\ rooms' = [w \in Workers |-> rooms'[w]]
    /\ \A w \in Workers : rooms'[w] = rooms[w] \/ rooms'[w] = None

FetchesStayLater ==
    /\ fetch' = [s \in Screens |-> fetch'[s]]
    /\ \A s \in Screens :
          \/ fetch'[s] = fetch[s]
          \/ fetch'[s] = None
          \/ \E w \in Workers : fetch'[s] = [worker |-> w, version |-> version]

\* A step that shows nothing.
LEMMA OthersKeep ==
    ASSUME IInv, UNCHANGED screen, RoomsStayFresh, FetchesStayLater
    PROVE  IInv' /\ NoneGoesBack
<1>1. version \in Nat /\ version' \in Nat /\ version' >= version
  BY DEF IInv, RoomsStayFresh
<1>2. RoomsAreFresh'
  BY <1>1 DEF IInv, RoomsAreFresh, RoomsStayFresh, Fresh
<1>3. ScreensAreFresh'
  BY <1>1 DEF IInv, ScreensAreFresh, Fresh
<1>4. FetchesAreLater'
  <2> SUFFICES ASSUME NEW s \in Screens, fetch'[s] # None
               PROVE  /\ fetch'[s].worker \in Workers /\ fetch'[s].version \in Nat /\ fetch'[s].version <= version'
                      /\ screen[s] # None => screen[s].data <= fetch'[s].version
    BY DEF FetchesAreLater, FetchesStayLater
  <2>1. CASE fetch'[s] = fetch[s]
    BY <1>1, <2>1 DEF IInv, FetchesAreLater, ScreensAreFresh, Fresh
  <2>2. CASE \E w \in Workers : fetch'[s] = [worker |-> w, version |-> version]
    BY <1>1, <2>2 DEF IInv, ScreensAreFresh, Fresh
  <2> QED
    BY <2>1, <2>2 DEF FetchesStayLater
<1> QED
  BY <1>1, <1>2, <1>3, <1>4, ScreensStay DEF IInv

LEMMA Fetches ==
    ASSUME IInv, NEW s \in Screens, Fetch(s) \/ UNCHANGED fetch \/ fetch' = [fetch EXCEPT ![s] = None]
    PROVE  FetchesStayLater
<1>1. fetch = [t \in Screens |-> fetch[t]]
  BY DEF IInv, FetchesAreLater
<1>2. CASE UNCHANGED fetch
  BY <1>1, <1>2 DEF FetchesStayLater
<1>3. ASSUME NEW c, fetch' = [fetch EXCEPT ![s] = c],
             c = None \/ \E w \in Workers : c = [worker |-> w, version |-> version]
      PROVE  FetchesStayLater
  <2> DEFINE f == [t \in Screens |-> IF t = s THEN c ELSE fetch[t]]
  <2>1. fetch' = f
    BY <1>1, <1>3
  <2>2. f = [t \in Screens |-> f[t]]
    OBVIOUS
  <2>3. \A t \in Screens : fetch'[t] = IF t = s THEN c ELSE fetch[t]
    BY <2>1
  <2> QED
    BY <1>3, <2>1, <2>2, <2>3 DEF FetchesStayLater
<1> QED
  BY <1>2, <1>3 DEF Fetch

\* A request is answered from a room of its version, or with one that is built.
LEMMA Shows ==
    ASSUME IInv, NEW s \in Screens, Show(s)
    PROVE  IInv' /\ NoneGoesBack
<1> DEFINE w == fetch[s].worker
           v == fetch[s].version
           r == IF Cached(w, v) THEN rooms[w] ELSE Built(v)
           shown == [version |-> v, data |-> r.data]
<1>1. /\ w \in Workers /\ v \in Nat /\ v <= version /\ version \in Nat /\ version' = version
      /\ screen[s] # None => screen[s].data <= v
  BY DEF IInv, FetchesAreLater, Show
<1>2. Fresh(r) /\ r.version = v
  <2>1. CASE Cached(w, v)
    BY <1>1, <2>1 DEF Cached, IInv, RoomsAreFresh
  <2>2. CASE ~ Cached(w, v)
    BY <1>1, <2>2 DEF Built, Fresh
  <2> QED
    BY <2>1, <2>2
<1>3. screen' = [screen EXCEPT ![s] = shown] /\ rooms' = [rooms EXCEPT ![w] = Kept(w, r)]
      /\ fetch' = [fetch EXCEPT ![s] = None]
  BY DEF Show
<1>4. Kept(w, r) = r \/ Kept(w, r) = rooms[w]
  BY DEF Kept
<1>5. shown.version = v /\ shown.data = r.data
  OBVIOUS
<1>6. PICK keep : keep = Kept(w, r)
  OBVIOUS
<1>7. r.data \in Nat /\ v <= r.data /\ r.data <= version /\ r.version = v /\ r.version \in Nat
  BY <1>2 DEF Fresh
<1> HIDE DEF r, shown, w, v
<1>8. screen = [t \in Screens |-> screen[t]] /\ rooms = [x \in Workers |-> rooms[x]]
      /\ fetch = [t \in Screens |-> fetch[t]]
  BY DEF IInv, ScreensAreFresh, RoomsAreFresh, FetchesAreLater
<1>9. /\ screen' = [t \in Screens |-> screen'[t]]
      /\ \A t \in Screens : screen'[t] = IF t = s THEN shown ELSE screen[t]
  <2> DEFINE f == [t \in Screens |-> IF t = s THEN shown ELSE screen[t]]
  <2>1. screen' = f
    BY <1>3, <1>8
  <2>2. f = [t \in Screens |-> f[t]]
    OBVIOUS
  <2> QED
    BY <2>1, <2>2
<1>10. /\ rooms' = [x \in Workers |-> rooms'[x]]
       /\ \A x \in Workers : rooms'[x] = IF x = w THEN keep ELSE rooms[x]
  <2> DEFINE f == [x \in Workers |-> IF x = w THEN keep ELSE rooms[x]]
  <2>1. rooms' = f
    BY <1>3, <1>6, <1>8
  <2>2. f = [x \in Workers |-> f[x]]
    OBVIOUS
  <2> QED
    BY <2>1, <2>2
<1>11. FetchesStayLater
  BY <1>3, Fetches
<1>12. RoomsAreFresh'
  BY <1>1, <1>4, <1>6, <1>7, <1>10 DEF IInv, RoomsAreFresh, Fresh
<1>13. ScreensAreFresh'
  BY <1>1, <1>5, <1>7, <1>9 DEF IInv, ScreensAreFresh, Fresh
<1>14. FetchesAreLater'
  <2>1. \A t \in Screens : fetch'[t] = IF t = s THEN None ELSE fetch[t]
    BY <1>3, <1>8
  <2> QED
    BY <1>1, <1>9, <1>11, <2>1 DEF IInv, FetchesAreLater, FetchesStayLater
<1>15. NoneGoesBack
  <2> SUFFICES ASSUME NEW t \in Screens, screen'[t] # None
               PROVE  /\ screen'[t].data >= screen'[t].version
                      /\ screen[t] # None =>
                            /\ screen'[t].version >= screen[t].version /\ screen'[t].data >= screen[t].data
    BY DEF NoneGoesBack
  <2>1. screen[t] # None => /\ screen[t].version \in Nat /\ screen[t].data \in Nat
                            /\ screen[t].version <= screen[t].data
    BY DEF IInv, ScreensAreFresh, Fresh
  <2>2. CASE t = s
    BY <1>1, <1>5, <1>7, <1>9, <2>1, <2>2
  <2>3. CASE t # s
    BY <1>9, <2>1, <2>3
  <2> QED
    BY <2>2, <2>3
<1> QED
  BY <1>1, <1>12, <1>13, <1>14, <1>15 DEF IInv

LEMMA EveryStep ==
    ASSUME IInv, [Next]_vars
    PROVE  IInv' /\ NoneGoesBack
<1>1. /\ version \in Nat /\ rooms = [w \in Workers |-> rooms[w]] /\ fetch = [s \in Screens |-> fetch[s]]
  BY DEF IInv, RoomsAreFresh, FetchesAreLater
<1>2. UNCHANGED <<version, rooms>> => RoomsStayFresh
  BY <1>1 DEF RoomsStayFresh
<1>3. UNCHANGED fetch => FetchesStayLater
  BY <1>1 DEF FetchesStayLater
<1>4. CASE Change
  <2>1. RoomsStayFresh
    BY <1>1, <1>4 DEF Change, RoomsStayFresh
  <2> QED
    BY <1>3, <1>4, <2>1, OthersKeep DEF Change
<1>5. ASSUME NEW s \in Screens, Open(s) \/ StartPoll(s) \/ EndPoll(s) \/ Look(s) \/ Close(s)
                                \/ Load(s) \/ Timer(s) \/ Retry(s)
      PROVE  IInv' /\ NoneGoesBack
  <2>1. UNCHANGED <<version, rooms, screen>>
    BY <1>5 DEF Open, StartPoll, EndPoll, Look, Close, Load, Timer, Retry
  <2>2. Fetch(s) \/ UNCHANGED fetch
    BY <1>5 DEF Open, StartPoll, EndPoll, Look, Close, Load, Timer, Retry, Sent
  <2> QED
    BY <1>2, <2>1, <2>2, Fetches, OthersKeep
<1>6. ASSUME NEW w \in Workers, Expire(w) \/ Forget(w) \/ Restart(w)
      PROVE  IInv' /\ NoneGoesBack
  <2>1. UNCHANGED <<version, screen>>
    BY <1>6 DEF Expire, Forget, Restart
  <2>2. RoomsStayFresh
    <3>1. CASE UNCHANGED rooms
      BY <1>2, <2>1, <3>1
    <3>2. CASE rooms' = [rooms EXCEPT ![w] = None]
      <4> DEFINE f == [x \in Workers |-> IF x = w THEN None ELSE rooms[x]]
      <4>1. rooms' = f
        BY <1>1, <3>2
      <4>2. f = [x \in Workers |-> f[x]]
        OBVIOUS
      <4> QED
        BY <1>1, <2>1, <4>1, <4>2 DEF RoomsStayFresh
    <3> QED
      BY <1>6, <3>1, <3>2 DEF Expire, Forget, Restart
  <2>3. FetchesStayLater
    <3>1. CASE UNCHANGED fetch
      BY <1>3, <3>1
    <3>2. CASE Restart(w)
      <4> DEFINE f == [s \in Screens |-> IF fetch[s] # None /\ fetch[s].worker = w
                                         THEN [worker |-> w, version |-> version] ELSE fetch[s]]
      <4>1. fetch' = f
        BY <3>2 DEF Restart
      <4>2. f = [s \in Screens |-> f[s]]
        OBVIOUS
      <4> QED
        BY <4>1, <4>2 DEF FetchesStayLater
    <3> QED
      BY <1>6, <3>1, <3>2 DEF Expire, Forget
  <2> QED
    BY <2>1, <2>2, <2>3, OthersKeep
<1>7. CASE UNCHANGED vars
  BY <1>2, <1>3, <1>7, OthersKeep DEF vars
<1> QED
  BY <1>4, <1>5, <1>6, <1>7, Shows DEF Next

\* Nothing is ahead of the session, and a request is no older than what its screen shows.
THEOREM InvariantHolds == Spec => []IInv
<1>1. Init => IInv
  BY DEF Init, IInv, RoomsAreFresh, ScreensAreFresh, FetchesAreLater
<1>2. IInv /\ [Next]_vars => IInv'
  BY EveryStep
<1> QED
  BY <1>1, <1>2, PTL DEF Spec

\* A screen never goes back, and shows all that its version holds, whichever workers answer, restart and
\* keep rooms, and however late (services/live.py: view, _room; api/routes/live.py: _latest, watch).
THEOREM NoScreenGoesBack == Spec => ScreensNeverGoBack
<1>1. IInv /\ [Next]_vars =>
          \A s \in Screens : screen'[s] # None =>
              /\ screen'[s].data >= screen'[s].version
              /\ screen[s] # None =>
                    /\ screen'[s].version >= screen[s].version /\ screen'[s].data >= screen[s].data
  BY EveryStep DEF NoneGoesBack
<1> QED
  BY <1>1, InvariantHolds, PTL DEF Spec, ScreensNeverGoBack
===============================================================================
