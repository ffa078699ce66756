----------------------------- MODULE ClientState -----------------------------
(***************************************************************************)
(* Who the browser is and how far it is: the client id and LSN that        *)
(* SyncStatePersister caches and saves, that WebSocketConnector asks with, *)
(* and that SyncManager loads, sets and resets (apps/web/src/sync).        *)
(*                                                                         *)
(* Ids and LSNs are numbers; LSN 0 is "0/0".  Sockets are those of the     *)
(* browser; one that is closed can stand for a later one.  The server      *)
(* never closes a socket, so a close the browser has not asked for is      *)
(* abnormal (neither 1000 nor 1005).  The ten-second timer of connect()    *)
(* has no effect: WebSocket.close refuses its code 1001 with an exception. *)
(* An operator named X_Y is X with a plausible defect.                     *)
(***************************************************************************)
EXTENDS Integers, Sequences

CONSTANTS
    MaxSockets,     \* as many sockets as may exist at a time
    MaxAttempts,    \* maxReconnectAttempts
    MaxResets,      \* bound: calls of resetLSN
    MaxMessages,    \* bound: messages of the server that change the state
    MaxUser,        \* bound: acts of the user, resets included
    MaxFaults,      \* bound: broken sockets, times offline, failing storage calls
    MaxRestarts     \* bound: restarts of the application

ASSUME BoundsNat ==
    {MaxSockets, MaxAttempts, MaxResets, MaxMessages, MaxUser, MaxFaults, MaxRestarts}
        \subseteq Nat

Socket == 1..MaxSockets
None == 0

VARIABLES
    ready,      \* SyncManager.isInitialized
    autoTimer,  \* SyncContext will call autoConnectToServer
    auto,       \* autoConnect and autoReconnectEnabled
    online,     \* navigator.onLine
    conn,       \* WebSocketConnector and its sockets
    params,     \* the id and LSN WebSocketConnector asks with
    cache,      \* currentStateData
    pending,    \* pendingMetadataSave
    debounce,   \* saveDebounceTimer
    saves,      \* performSave calls in progress, in the order of their statements
    rows,       \* table sync_metadata
    reset,      \* calls of resetLSN
    got,        \* history: the LSNs received, each with the id of its socket
    stay,       \* history: the user has not disconnected since he last connected
    newest, ids, acts, faults, restarts  \* bounds: the last message and id, and counters

saveVars == <<pending, debounce, saves, rows>>
bounds   == <<newest, acts, faults, restarts>>
vars == <<ready, autoTimer, auto, online, conn, params, cache, saveVars, reset, got, stay,
          ids, bounds>>

State == [id : Nat, lsn : Nat]
Closed == [st |-> "none", id |-> 0, lsn |-> 0]

\* flaws is a history variable: what went wrong, as the properties say.
NewConnector == [sock |-> [s \in Socket |-> Closed], cur |-> None, leaving |-> FALSE,
                 timer |-> FALSE, attempts |-> 0, awaited |-> {}, flaws |-> {}]

Init ==
    /\ ready = FALSE /\ autoTimer = FALSE /\ auto = TRUE /\ online = TRUE
    /\ conn = NewConnector
    /\ params = [id |-> 0, lsn |-> 0] /\ cache = [id |-> 0, lsn |-> 0]
    /\ pending = FALSE /\ debounce = FALSE /\ saves = << >> /\ rows = << >>
    /\ reset = [n \in 1..MaxResets |-> "none"]
    /\ got = {} /\ stay = TRUE
    /\ newest = 0 /\ ids = 0 /\ acts = 0 /\ faults = 0 /\ restarts = 0

\* A save of resetLSN call n, or of nobody who waits (0); row 0 is a new row.
Save == [data : State, found : BOOLEAN, row : Nat, by : 0..MaxResets]

TypeOK ==
    /\ {ready, autoTimer, auto, online, pending, debounce, stay} \subseteq BOOLEAN
    /\ conn \in [sock : [Socket -> [st : {"none", "connecting", "open", "leaving"},
                                    id : Nat, lsn : Nat]],
                 cur : Socket \cup {None}, leaving : BOOLEAN, timer : BOOLEAN,
                 attempts : 0..MaxAttempts, awaited : SUBSET Socket,
                 flaws : SUBSET {"overlap", "reset", "twice", "gaveUp"}]
    /\ conn.cur # None => conn.sock[conn.cur].st \in {"connecting", "open"} /\ ~conn.leaving
    /\ \A s \in conn.awaited : conn.sock[s].st = "leaving"
    /\ params \in State /\ cache \in State
    /\ saves \in Seq(Save) /\ rows \in Seq(State)
    /\ \A i \in DOMAIN saves : saves[i].row <= Len(rows)
    /\ reset \in [1..MaxResets -> {"none", "flush", "save", "done"}]
    /\ got \subseteq State
    /\ {newest, ids, acts, faults, restarts} \subseteq Nat

Fault == faults < MaxFaults /\ faults' = faults + 1

-----------------------------------------------------------------------------
(* WebSocketConnector, as functions of its state.                          *)

IsConnected(c) == c.cur # None /\ c.sock[c.cur].st = "open"

\* Sockets whose messages are handled, and those that may get there.
Live(c) == { s \in Socket : c.sock[s].st \in {"connecting", "open"} }

Resetting == \E n \in DOMAIN reset : reset[n] \in {"flush", "save"}

\* new WebSocket takes the place of another that is still connecting, or that
\* was opened while this call waited.
Opening(c, p) ==
    LET s == CHOOSE t \in Socket : c.sock[t].st = "none" IN
    [c EXCEPT !.sock[s] = [st |-> "connecting", id |-> p.id, lsn |-> p.lsn],
              !.cur = s, !.leaving = FALSE,
              !.flaws = (@ \ {"gaveUp"})
                          \cup (IF Live(c) # {} THEN {"overlap"} ELSE {})
                          \cup (IF Resetting /\ p = params THEN {"reset"} ELSE {})]

Disconnecting_NotClosed(c) ==
    IF c.leaving THEN c ELSE [c EXCEPT !.timer = FALSE, !.cur = None]

\* disconnect: a second one is ignored until the first socket is closed.
Disconnecting(c) ==
    IF c.leaving THEN c
    ELSE IF c.cur = None THEN [c EXCEPT !.timer = FALSE]
    ELSE [c EXCEPT !.timer = FALSE, !.leaving = TRUE, !.cur = None, !.sock[c.cur].st = "leaving"]

\* connect: an open socket is closed first, and waited for.
Connecting(c, p) ==
    IF IsConnected(c) THEN [Disconnecting(c) EXCEPT !.awaited = @ \cup {c.cur}]
                      ELSE Opening(c, p)

\* attemptReconnect
Retrying(c) ==
    IF ~auto \/ c.leaving THEN c
    ELSE IF c.attempts < MaxAttempts THEN [c EXCEPT !.attempts = @ + 1, !.timer = TRUE]
    ELSE [c EXCEPT !.flaws = @ \cup {"gaveUp"}]

\* handleClose, of whichever socket: it forgets the current one.
Lost(c, s) ==
    LET d == [c EXCEPT !.sock[s] = Closed] IN
    IF c.leaving THEN d ELSE Retrying([d EXCEPT !.cur = None])

Left_StillAwaited(c, s) ==
    LET d == [c EXCEPT !.sock[s] = Closed, !.leaving = FALSE] IN
    IF s \in c.awaited THEN Opening(d, params) ELSE d

Left_NeverResolves(c, s) ==
    [c EXCEPT !.sock[s] = Closed, !.leaving = FALSE, !.awaited = @ \ {s}]

\* The end of disconnect; a connect that waited for it goes on.
Left(c, s) ==
    LET d == [c EXCEPT !.sock[s] = Closed, !.leaving = FALSE, !.awaited = @ \ {s}] IN
    IF s \in c.awaited THEN Opening(d, params) ELSE d

-----------------------------------------------------------------------------
(* SyncStatePersister.                                                     *)

PerformSave(data, by) ==
    saves' = Append(saves, [data |-> data, found |-> FALSE, row |-> 0, by |-> by])

\* The SELECT.  Two saves that both find nothing make two rows, and of two rows
\* either may come first.
SaveFind ==
    /\ \E i \in DOMAIN saves :
          /\ ~saves[i].found /\ \A j \in 1..(i-1) : saves[j].found
          /\ \E r \in (IF rows = << >> THEN {0} ELSE DOMAIN rows) :
                saves' = [saves EXCEPT ![i].found = TRUE, ![i].row = r]
    /\ UNCHANGED <<ready, autoTimer, auto, online, conn, params, cache, pending, debounce,
                   rows, reset, got, stay, ids, bounds>>

\* resetLSN goes on after each of its saves, whatever became of it: it saves
\* what resetSyncState began with, then takes the parameters from the cache.
ResetGoesOn(n, rest, data) ==
    IF n = 0
    THEN saves' = rest /\ UNCHANGED <<reset, params, conn>>
    ELSE IF reset[n] = "flush"
    THEN /\ saves' = Append(rest, [data |-> data, found |-> FALSE, row |-> 0, by |-> n])
         /\ reset' = [reset EXCEPT ![n] = "save"]
         /\ UNCHANGED <<params, conn>>
    ELSE /\ saves' = rest
         /\ reset' = [reset EXCEPT ![n] = "done"]
         /\ params' = cache
         /\ conn' = IF auto THEN Connecting(conn, cache) ELSE conn

WriteRow(s) ==
    IF s.row = 0 THEN Append(rows, s.data) ELSE [rows EXCEPT ![s.row] = s.data]

SaveWrite ==
    /\ saves # << >> /\ Head(saves).found
    /\ rows' = WriteRow(Head(saves))
    /\ pending' = FALSE
    /\ ResetGoesOn(Head(saves).by, Tail(saves), Head(saves).data)
    /\ UNCHANGED <<ready, autoTimer, auto, online, cache, debounce, got, stay, ids, bounds>>

SaveError_Forgets ==
    /\ saves # << >> /\ Fault
    /\ pending' = FALSE
    /\ ResetGoesOn(Head(saves).by, Tail(saves), Head(saves).data)
    /\ UNCHANGED <<ready, autoTimer, auto, online, cache, debounce, rows, got, stay, ids,
                   newest, acts, restarts>>

SaveError ==
    /\ saves # << >> /\ Fault
    /\ pending' = TRUE
    /\ ResetGoesOn(Head(saves).by, Tail(saves), Head(saves).data)
    /\ UNCHANGED <<ready, autoTimer, auto, online, cache, debounce, rows, got, stay, ids,
                   newest, acts, restarts>>

\* 500 ms after the last saveState that nothing has flushed.
Debounced ==
    /\ debounce /\ debounce' = FALSE
    /\ IF pending THEN PerformSave(cache, 0) ELSE UNCHANGED saves
    /\ UNCHANGED <<ready, autoTimer, auto, online, conn, params, cache, pending, rows, reset,
                   got, stay, ids, bounds>>

-----------------------------------------------------------------------------
(* SyncManager: start, reset, and what the user may ask for.               *)

\* initialize loads the saved state; a new client, or one whose state cannot be
\* read, invents an id, whose save is refused as the persister is not
\* initialised yet.  Then connect.
Initialize ==
    /\ ~ready /\ ready' = TRUE /\ autoTimer' = TRUE
    /\ \/ /\ rows # << >>
          /\ \E r \in DOMAIN rows : cache' = rows[r]
          /\ UNCHANGED <<ids, pending, faults>>
       \/ /\ IF rows = << >> THEN UNCHANGED faults ELSE Fault
          /\ ids' = ids + 1 /\ cache' = [id |-> ids', lsn |-> 0]
          /\ pending' = TRUE
    /\ params' = cache'
    /\ conn' = Opening(conn, cache')
    /\ UNCHANGED <<auto, online, debounce, saves, rows, reset, got, stay, newest, acts, restarts>>

\* autoConnectToServer, a second after the start.
AutoConnect ==
    /\ autoTimer /\ autoTimer' = FALSE
    /\ conn' = IF auto /\ conn.cur = None THEN Opening(conn, params) ELSE conn
    /\ UNCHANGED <<ready, auto, online, params, cache, saveVars, reset, got, stay, ids, bounds>>

MayReset(n) ==
    /\ ready /\ acts < MaxUser
    /\ reset[n] = "none" /\ (n > 1 => reset[n-1] # "none")

ResetLSN_StaysConnected(n) ==
    /\ MayReset(n) /\ acts' = acts + 1
    /\ ids' = ids + 1 /\ cache' = [id |-> ids', lsn |-> 0]
    /\ debounce' = FALSE
    /\ reset' = [reset EXCEPT ![n] = IF pending THEN "flush" ELSE "save"]
    /\ PerformSave(cache', n)
    /\ UNCHANGED <<ready, autoTimer, auto, online, params, conn, pending, rows, got, stay,
                   newest, faults, restarts>>

\* resetLSN up to its first await: disconnect is not waited for, the cache is
\* new at once, and flush saves it if a save was pending.
ResetLSN(n) ==
    /\ MayReset(n) /\ acts' = acts + 1
    /\ conn' = [(IF conn.cur # None THEN Disconnecting(conn) ELSE conn) EXCEPT
                   !.flaws = @ \cup (IF Resetting THEN {"twice"} ELSE {})]
    /\ ids' = ids + 1 /\ cache' = [id |-> ids', lsn |-> 0]
    /\ debounce' = FALSE
    /\ reset' = [reset EXCEPT ![n] = IF pending THEN "flush" ELSE "save"]
    /\ PerformSave(cache', n)
    /\ UNCHANGED <<ready, autoTimer, auto, online, params, pending, rows, got, stay,
                   newest, faults, restarts>>

User ==
    /\ ready /\ acts < MaxUser /\ acts' = acts + 1
    /\ \/ /\ conn' = Connecting(conn, params) /\ stay' = TRUE
          /\ UNCHANGED auto
       \/ /\ conn' = Disconnecting(conn) /\ stay' = FALSE
          /\ UNCHANGED auto
       \/ /\ auto' = ~auto
          /\ conn' = IF auto' /\ conn.cur = None THEN Opening(conn, params) ELSE conn
          /\ UNCHANGED stay
    /\ UNCHANGED <<ready, autoTimer, online, params, cache, saveVars, reset, got, ids,
                   newest, faults, restarts>>

-----------------------------------------------------------------------------
(* Events of the browser.                                                  *)

connOnly == <<ready, autoTimer, auto, params, cache, saveVars, reset, got, stay, ids,
              newest, acts, restarts>>

HandleOpen(s) ==
    /\ online /\ conn.sock[s].st = "connecting"
    /\ conn' = [conn EXCEPT !.sock[s].st = "open", !.attempts = 0]
    /\ UNCHANGED <<connOnly, online, faults>>

HandleClose(s) ==
    /\ conn.sock[s].st \in {"connecting", "open"}
    /\ IF online THEN Fault ELSE UNCHANGED faults
    /\ conn' = Lost(conn, s)
    /\ UNCHANGED <<connOnly, online>>

\* The close disconnect has asked for, or two seconds without it.
DisconnectDone(s) ==
    /\ conn.sock[s].st = "leaving"
    /\ conn' = Left(conn, s)
    /\ UNCHANGED <<connOnly, online, faults>>

ReconnectTimer ==
    /\ conn.timer
    /\ conn' = Connecting([conn EXCEPT !.timer = FALSE], params)
    /\ UNCHANGED <<connOnly, online, faults>>

HandleOffline ==
    /\ online /\ Fault
    /\ online' = FALSE
    /\ conn' = [conn EXCEPT !.timer = FALSE]
    /\ UNCHANGED connOnly

\* An open socket is trusted, one that is connecting is waited for.
HandleOnline ==
    /\ ~online /\ online' = TRUE
    /\ conn' = IF ready /\ auto /\ ~conn.leaving /\ conn.cur = None
               THEN Opening([conn EXCEPT !.attempts = 0, !.timer = FALSE], params)
               ELSE conn
    /\ UNCHANGED <<connOnly, faults>>

\* A message that brings an LSN, on whichever socket: it is cached, saved and
\* flushed at once.
HandleLSNUpdate(s) ==
    /\ conn.sock[s].st = "open" /\ newest < MaxMessages
    /\ newest' = newest + 1
    /\ got' = got \cup {[id |-> conn.sock[s].id, lsn |-> newest']}
    /\ cache' = [cache EXCEPT !.lsn = newest']
    /\ pending' = TRUE /\ debounce' = FALSE
    /\ PerformSave(cache', 0)
    /\ UNCHANGED <<ready, autoTimer, auto, online, conn, params, rows, reset, stay, ids,
                   acts, faults, restarts>>

\* One that changes the sync state only: it is saved a little later.
HandleStateChange(s) ==
    /\ conn.sock[s].st = "open" /\ newest < MaxMessages
    /\ newest' = newest + 1
    /\ pending' = TRUE /\ debounce' = TRUE
    /\ UNCHANGED <<ready, autoTimer, auto, online, conn, params, cache, saves, rows, reset,
                   got, stay, ids, acts, faults, restarts>>

\* The page is closed and opened again.
Restart ==
    /\ ready /\ restarts < MaxRestarts /\ restarts' = restarts + 1
    /\ ready' = FALSE /\ autoTimer' = FALSE /\ auto' = TRUE
    /\ conn' = [NewConnector EXCEPT !.flaws = conn.flaws]
    /\ pending' = FALSE /\ debounce' = FALSE /\ saves' = << >>
    /\ reset' = [n \in DOMAIN reset |-> IF reset[n] = "none" THEN "none" ELSE "done"]
    /\ stay' = TRUE
    /\ UNCHANGED <<online, params, cache, rows, got, ids, newest, acts, faults>>

-----------------------------------------------------------------------------
Next ==
    \/ Initialize \/ AutoConnect \/ User \/ Restart
    \/ \E n \in 1..MaxResets : ResetLSN(n)
    \/ \E s \in Socket :
          \/ HandleOpen(s) \/ HandleClose(s) \/ DisconnectDone(s)
          \/ HandleLSNUpdate(s) \/ HandleStateChange(s)
    \/ ReconnectTimer \/ HandleOffline \/ HandleOnline
    \/ SaveFind \/ SaveWrite \/ SaveError \/ Debounced

Spec == Init /\ [][Next]_vars

\* The application starts, timers fire, statements are answered, and the browser
\* decides whether a socket opens or fails, and closes it when asked to.
FairSpec ==
    /\ Spec
    /\ WF_vars(Initialize) /\ WF_vars(AutoConnect) /\ WF_vars(ReconnectTimer)
    /\ WF_vars(SaveFind \/ SaveWrite \/ SaveError)
    /\ \A s \in Socket :
          /\ WF_vars(HandleOpen(s) \/ (conn.sock[s].st = "connecting" /\ HandleClose(s)))
          /\ WF_vars(DisconnectDone(s))

-----------------------------------------------------------------------------
(* Correctness.                                                            *)

\* What may bring the messages of two clients together: a second socket opened
\* over a first, and a socket opened with the old id while resetLSN waits, which
\* stops no reconnect timer.
Mixed == {"overlap", "reset"} \cap conn.flaws # {}

\* An LSN is cached, saved or asked with only under the id of the client that
\* received it: with another id it would skip that client's initial sync.
LsnOfItsClient ==
    ~Mixed =>
        \A p \in {cache, params} \cup { rows[i] : i \in DOMAIN rows }
                 \cup { [id |-> conn.sock[s].id, lsn |-> conn.sock[s].lsn] : s \in Socket } :
            p.lsn = 0 \/ p \in got

\* When nothing is left to be saved, what a restart loads is what the client has,
\* unless two first saves made two rows or two calls of resetLSN overlapped: each
\* of them saves what it began with, and the earlier one may be the last.
SavedIsCurrent ==
    ready /\ saves = << >> /\ ~pending /\ ~debounce /\ ~Mixed /\ "twice" \notin conn.flaws =>
        \E i \in DOMAIN rows : rows[i] = cache

\* A socket whose messages are handled and on which nothing is sent comes only
\* from a connect over a socket that was not closed.
NoStraySocket ==
    "overlap" \notin conn.flaws => Live(conn) \subseteq {conn.cur}

\* If the network stays up, the connection on auto and the user does not
\* disconnect, the client is connected again and again, unless it gives up after
\* the maximal number of attempts and nothing opens a socket afterwards.
Wanted == auto /\ online /\ stay
Reconnects == <>[]Wanted => []<>(IsConnected(conn) \/ "gaveUp" \in conn.flaws)
=============================================================================
