-------------------------------- MODULE Screens --------------------------------
(***************************************************************************)
(* How the screens of a live quiz keep up with it (api/routes/live.py,     *)
(* services/live.py, web/src/lib/live.ts).  Every change moves the         *)
(* session's version.  A worker reads it at most every half second for all *)
(* the event streams it serves, and each stream passes on what differs     *)
(* from what it sent last; the screen then fetches the session, from       *)
(* whichever worker answers, where one room is built for each version and  *)
(* kept.  A proposal moves a counter of its table's that is announced in   *)
(* the same way; it is never part of a room, and is left out.              *)
(*                                                                         *)
(* The last version is that of the finished quiz.  Of what a room holds    *)
(* the model keeps the last change it includes: the room is read after the *)
(* version it is filed under, so it may include later ones.  An event and  *)
(* the fetch it starts are one step, and so are reading the room and       *)
(* showing it: waiting there changes nothing for the others.               *)
(***************************************************************************)
EXTENDS Naturals

CONSTANTS
    Screens,
    Workers,
    LastVersion,    \* the version of the finished quiz
    MaxFaults,      \* a bound: streams dropped, workers restarted, fetches that fail
    None

ASSUME ScreensAssumption == LastVersion \in Nat \ {0} /\ MaxFaults \in Nat

VARIABLES
    version,    \* the session's, in the database
    watch,      \* of each worker, its last snapshot, or None
    polling,    \* of each worker, whether a poll is out
    rooms,      \* of each worker, the room it keeps
    stream,     \* of each screen, its event stream, or None
    fetch,      \* of each screen, the request that is out, or None
    screen,     \* of each screen, what it shows, or None
    faults

vars == <<version, watch, polling, rooms, stream, fetch, screen, faults>>

Init ==
    /\ version = 0
    /\ watch = [w \in Workers |-> None] /\ polling = [w \in Workers |-> FALSE]
    /\ rooms = [w \in Workers |-> None]
    /\ stream = [s \in Screens |-> None]
    /\ fetch = [s \in Screens |-> None] /\ screen = [s \in Screens |-> None]
    /\ faults = 0

-------------------------------------------------------------------------------
(* The quiz                                                                *)

Change ==
    /\ version < LastVersion
    /\ version' = version + 1
    /\ UNCHANGED <<watch, polling, rooms, stream, fetch, screen, faults>>

-------------------------------------------------------------------------------
(* Event streams                                                           *)

Over(s) == screen[s] # None /\ screen[s].version = LastVersion

\* Once the state has loaded.
Open(s) ==
    /\ stream[s] = None /\ screen[s] # None /\ ~ Over(s)
    /\ \E w \in Workers : stream' = [stream EXCEPT ![s] = [worker |-> w, last |-> None, poll |-> None]]
    /\ UNCHANGED <<version, watch, polling, rooms, fetch, screen, faults>>

\* view, reading the session, at whichever worker gets the request.
Fetch(s) == \E w \in Workers : fetch' = [fetch EXCEPT ![s] = [worker |-> w, version |-> version]]

\* A slip: a stream that is new passes on only what changes from then on.
SentIfKnown(s, token) ==
    /\ stream' = [stream EXCEPT ![s].last = token, ![s].poll = None]
    /\ IF stream[s].last \notin {None, token} THEN Fetch(s) ELSE UNCHANGED fetch

\* The stream sends what it did not send last, and the screen fetches: in place of a fetch that is out.
Sent(s, token) ==
    /\ stream' = [stream EXCEPT ![s].last = token, ![s].poll = None]
    /\ IF token # stream[s].last THEN Fetch(s) ELSE UNCHANGED fetch

\* _latest: there is no snapshot yet, or it is half a second old and nobody is reading another.
MayPoll(w) == watch[w] # None => ~ polling[w]

\* A stream wakes up, once a second, and reads the session (watch).
StartPoll(s) ==
    /\ stream[s] # None /\ stream[s].poll = None /\ MayPoll(stream[s].worker)
    /\ polling' = [polling EXCEPT ![stream[s].worker] = TRUE]
    /\ stream' = [stream EXCEPT ![s].poll = version]
    /\ UNCHANGED <<version, watch, rooms, fetch, screen, faults>>

\* It has what it read, which may be older than what another stream has read and passed on since.
EndPoll(s) ==
    /\ stream[s] # None /\ stream[s].poll # None
    /\ polling' = [polling EXCEPT ![stream[s].worker] = FALSE]
    /\ watch' = [watch EXCEPT ![stream[s].worker] = stream[s].poll]
    /\ Sent(s, stream[s].poll)
    /\ UNCHANGED <<version, rooms, screen, faults>>

\* It finds a snapshot that is recent, or that somebody is replacing.
Look(s) ==
    /\ stream[s] # None /\ stream[s].poll = None /\ watch[stream[s].worker] # None
    /\ Sent(s, watch[stream[s].worker])
    /\ UNCHANGED <<version, watch, polling, rooms, screen, faults>>

\* The connection drops, or STREAM_SECONDS are over, or the screen shows that the quiz is.
Close(s) ==
    /\ stream[s] # None
    /\ Over(s) \/ faults < MaxFaults
    /\ faults' = IF Over(s) THEN faults ELSE faults + 1
    /\ stream' = [stream EXCEPT ![s] = None]
    /\ polling' = IF stream[s].poll # None THEN [polling EXCEPT ![stream[s].worker] = FALSE] ELSE polling
    /\ UNCHANGED <<version, watch, rooms, fetch, screen>>

-------------------------------------------------------------------------------
(* Fetches                                                                 *)

\* The page is opened.
Load(s) ==
    /\ screen[s] = None /\ fetch[s] = None
    /\ Fetch(s)
    /\ UNCHANGED <<version, watch, polling, rooms, stream, screen, faults>>

\* The timer covers a stream that is down or stuck; it takes no fetch's place, and stops when the quiz
\* is over.
Timer(s) ==
    /\ screen[s] # None /\ ~ Over(s) /\ fetch[s] = None
    /\ Fetch(s)
    /\ UNCHANGED <<version, watch, polling, rooms, stream, screen, faults>>

\* A slip: whatever room is kept is served.
KeptAtAll(w, v) == rooms[w] # None

\* _room, cached: the room kept is of the version that the request read.
Cached(w, v) == rooms[w] # None /\ rooms[w].version = v

\* _build.
Built(v) == [version |-> v, data |-> version]

\* A room that is built is kept unless that of a newer version is.
Kept(w, r) == IF rooms[w] # None /\ rooms[w].version > r.version THEN rooms[w] ELSE r

\* view goes on, with the room, and the answer arrives.
Show(s) ==
    /\ fetch[s] # None
    /\ LET w == fetch[s].worker
           v == fetch[s].version
           r == IF Cached(w, v) THEN rooms[w] ELSE Built(v)
       IN /\ screen' = [screen EXCEPT ![s] = [version |-> v, data |-> r.data]]
          /\ rooms' = [rooms EXCEPT ![w] = Kept(w, r)]
    /\ fetch' = [fetch EXCEPT ![s] = None]
    /\ UNCHANGED <<version, watch, polling, stream, faults>>

\* The answer does not arrive, and the screen tries again.
Retry(s) ==
    /\ fetch[s] # None /\ faults < MaxFaults
    /\ faults' = faults + 1
    /\ Fetch(s)
    /\ UNCHANGED <<version, watch, polling, rooms, stream, screen>>

\* ROOM_TTL is over: what is kept is not served any more.
Expire(w) ==
    /\ rooms[w] # None
    /\ rooms' = [rooms EXCEPT ![w] = None]
    /\ UNCHANGED <<version, watch, polling, stream, fetch, screen, faults>>

\* A worker forgets the snapshot of a session that no stream of its own follows any more.
Forget(w) ==
    /\ watch[w] # None /\ \A s \in Screens : stream[s] # None => stream[s].worker # w
    /\ watch' = [watch EXCEPT ![w] = None]
    /\ UNCHANGED <<version, polling, rooms, stream, fetch, screen, faults>>

\* A worker restarts, with what it kept and the streams and requests it served.
Restart(w) ==
    /\ faults < MaxFaults
    /\ faults' = faults + 1
    /\ watch' = [watch EXCEPT ![w] = None] /\ polling' = [polling EXCEPT ![w] = FALSE]
    /\ rooms' = [rooms EXCEPT ![w] = None]
    /\ stream' = [s \in Screens |-> IF stream[s] # None /\ stream[s].worker = w THEN None ELSE stream[s]]
    /\ fetch' = [s \in Screens |-> IF fetch[s] # None /\ fetch[s].worker = w
                                     THEN [worker |-> w, version |-> version] ELSE fetch[s]]
    /\ UNCHANGED <<version, screen>>

Next ==
    \/ Change
    \/ \E s \in Screens :
          \/ Open(s) \/ StartPoll(s) \/ EndPoll(s) \/ Look(s) \/ Close(s)
          \/ Load(s) \/ Timer(s) \/ Show(s) \/ Retry(s)
    \/ \E w \in Workers : Expire(w) \/ Forget(w) \/ Restart(w)

\* A stream of this worker starts a poll.
Polls(w) == \E s \in Screens : stream[s] # None /\ stream[s].worker = w /\ StartPoll(s)

\* Streams reconnect and wake up, requests are answered, time passes.  The quiz need not go on, and the
\* timer need not run: the streams alone are enough.
Fairness ==
    /\ \A w \in Workers : WF_vars(Polls(w))
    /\ \A s \in Screens :
          WF_vars(Open(s)) /\ WF_vars(EndPoll(s)) /\ WF_vars(Look(s)) /\ WF_vars(Load(s)) /\ WF_vars(Show(s))

Spec == Init /\ [][Next]_vars /\ Fairness

-------------------------------------------------------------------------------
(* Properties                                                              *)

\* A screen shows all that the version it fetched holds, and never less than it showed before, whichever
\* workers answer and however late: the rooms that are kept, and requests that overtake each other, take
\* nothing back.
ScreensNeverGoBack ==
    [][\A s \in Screens : screen'[s] # None =>
          /\ screen'[s].data >= screen'[s].version
          /\ screen[s] # None =>
                /\ screen'[s].version >= screen[s].version /\ screen'[s].data >= screen[s].data]_vars

\* When the quiz stands still, every screen comes to show it as it is, through dropped streams, restarted
\* workers, failed fetches and snapshots that arrive out of order.
EveryScreenCatchesUp ==
    <>[](\A s \in Screens : screen[s] # None /\ screen[s].version = version)
===============================================================================
