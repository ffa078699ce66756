--------------------------- MODULE ClientStateProofs ---------------------------
(***************************************************************************)
(* Proofs about ClientState for any number of sockets, attempts, resets    *)
(* and faults: no socket goes astray, no LSN comes under the id of another *)
(* client, and what a restart loads is what the client had - each unless   *)
(* one of the flaws that the module names has occurred.                    *)
(*                                                                         *)
(* Every action is a move of the connector (Moves) together with a change  *)
(* of the saved state; the first part is about moves, the second about the *)
(* state, and the last about the types of both.                            *)
(***************************************************************************)
EXTENDS ClientState, TLAPS

Who(c, t) == [id |-> c.sock[t].id, lsn |-> c.sock[t].lsn]
Nobody == [id |-> 0, lsn |-> 0]

-----------------------------------------------------------------------------
(* Moves of the connector.                                                 *)

\* A connector is a record of these fields; one that is leaving has no current
\* socket, and other sockets are alive only after an overlap.
Sound(c) ==
    /\ c = [sock |-> c.sock, cur |-> c.cur, leaving |-> c.leaving, timer |-> c.timer,
            attempts |-> c.attempts, awaited |-> c.awaited, flaws |-> c.flaws]
    /\ c.sock \in [Socket -> [st : {"none", "connecting", "open", "leaving"},
                              id : Nat, lsn : Nat]]
    /\ c.leaving => c.cur = None
    /\ "overlap" \notin c.flaws => Live(c) \subseteq {c.cur}

\* From c to d: flaws are not forgotten, and a socket is what it was, or free, or
\* new and opened with one of P - with the parameters during a reset only as a
\* flaw.
Moves(c, d, P) ==
    /\ Sound(d)
    /\ c.flaws \ {"gaveUp"} \subseteq d.flaws
    /\ \A t \in Socket : Who(d, t) \in {Who(c, t), Nobody} \cup P
    /\ \A t \in Live(d) :
          \/ t \in Live(c) /\ Who(d, t) = Who(c, t)
          \/ Who(d, t) \in P /\ (params \in P /\ Resetting => "reset" \in d.flaws)

\* Moves follow one another.
LEMMA MovesCompose ==
    ASSUME NEW c, NEW d, NEW e, NEW P, Moves(c, d, P), Moves(d, e, P)
    PROVE  Moves(c, e, P)
  BY DEF Moves

\* Or there is none.
LEMMA NoMove ==
    ASSUME NEW c, Sound(c), NEW P
    PROVE  Moves(c, c, P)
  BY DEF Moves

\* What may be opened is what is opened, if there is something.
LEMMA MovesMore ==
    ASSUME NEW c, NEW d, NEW P, NEW Q, P \subseteq Q, Moves(c, d, P),
           P = {} \/ Q = P
    PROVE  Moves(c, d, Q)
  BY DEF Moves

\* Fields that have nothing to do with the sockets.
LEMMA SameSockets ==
    ASSUME NEW c, Sound(c), NEW d, NEW P,
           d = [sock |-> c.sock, cur |-> c.cur, leaving |-> c.leaving, timer |-> d.timer,
                attempts |-> d.attempts, awaited |-> d.awaited, flaws |-> d.flaws],
           c.flaws \ {"gaveUp"} \subseteq d.flaws
    PROVE  Moves(c, d, P)
<1>1. d.sock = c.sock /\ d.cur = c.cur /\ d.leaving = c.leaving
  OBVIOUS
<1>2. Live(d) = Live(c) /\ \A t : Who(d, t) = Who(c, t)
  BY <1>1 DEF Live, Who
<1>3. Sound(d)
  BY <1>1, <1>2 DEF Sound
<1> QED
  BY <1>2, <1>3 DEF Moves

\* A new socket.
LEMMA OpeningMoves ==
    ASSUME NEW c, Sound(c), NEW p \in State
    PROVE  Moves(c, Opening(c, p), {p})
<1> DEFINE s == CHOOSE t \in Socket : c.sock[t].st = "none"
           d == Opening(c, p)
           new == [st |-> "connecting", id |-> p.id, lsn |-> p.lsn]
           F == (c.flaws \ {"gaveUp"})
                  \cup (IF Live(c) # {} THEN {"overlap"} ELSE {})
                  \cup (IF Resetting /\ p = params THEN {"reset"} ELSE {})
<1>1. d = [c EXCEPT !.sock[s] = new, !.cur = s, !.leaving = FALSE, !.flaws = F]
  BY DEF Opening
<1>2. new \in [st : {"none", "connecting", "open", "leaving"}, id : Nat, lsn : Nat]
  BY DEF State
<1>3. p = [id |-> p.id, lsn |-> p.lsn]
  BY DEF State
<1> HIDE DEF s, new, F
<1>4. /\ d = [sock |-> d.sock, cur |-> d.cur, leaving |-> d.leaving, timer |-> d.timer,
              attempts |-> d.attempts, awaited |-> d.awaited, flaws |-> d.flaws]
      /\ d.sock = [c.sock EXCEPT ![s] = new] /\ d.cur = s /\ d.leaving = FALSE /\ d.flaws = F
  BY <1>1 DEF Sound
<1> HIDE DEF d
<1>5. /\ d.sock \in [Socket -> [st : {"none", "connecting", "open", "leaving"},
                                id : Nat, lsn : Nat]]
      /\ \A t \in Socket : d.sock[t] = IF t = s THEN new ELSE c.sock[t]
  BY <1>2, <1>4 DEF Sound
<1>6. \A t \in Socket : IF t = s THEN Who(d, t) = p
                        ELSE Who(d, t) = Who(c, t) /\ (t \in Live(d) <=> t \in Live(c))
  BY <1>3, <1>5 DEF Who, Live, new
<1>7. "overlap" \notin d.flaws => Live(c) = {} /\ Live(d) \subseteq {d.cur}
  BY <1>4, <1>6 DEF F, Live
<1>8. Sound(d)
  BY <1>4, <1>5, <1>7 DEF Sound
<1>9. Live(d) \subseteq Socket /\ (Resetting /\ params = p => "reset" \in d.flaws)
  BY <1>4 DEF Live, F
<1>10. c.flaws \ {"gaveUp"} \subseteq d.flaws
  BY <1>4 DEF F
<1>11. Moves(c, d, {p})
  BY <1>6, <1>8, <1>9, <1>10 DEF Moves
<1> QED
  BY <1>11 DEF d

\* disconnect leaves no socket alive that was not astray.
LEMMA DisconnectingMoves ==
    ASSUME NEW c, Sound(c)
    PROVE  /\ Moves(c, Disconnecting(c), {})
           /\ "overlap" \notin c.flaws /\ c.cur # None => Live(Disconnecting(c)) = {}
<1> DEFINE d == Disconnecting(c)
<1>1. CASE c.leaving
  BY <1>1, NoMove DEF Disconnecting, Sound
<1>2. CASE ~c.leaving /\ c.cur = None
  <2>1. d = [c EXCEPT !.timer = FALSE]
    BY <1>2 DEF Disconnecting
  <2>2. d = [sock |-> c.sock, cur |-> c.cur, leaving |-> c.leaving, timer |-> d.timer,
             attempts |-> d.attempts, awaited |-> d.awaited, flaws |-> d.flaws]
        /\ d.flaws = c.flaws
    <3> HIDE DEF d
    <3> QED
      BY <2>1 DEF Sound
  <2> HIDE DEF d
  <2>3. Moves(c, d, {})
    BY <2>2, SameSockets
  <2> QED
    BY <1>2, <2>3 DEF d
<1>3. CASE ~c.leaving /\ c.cur # None
  <2> DEFINE k == c.cur
  <2>1. d = [c EXCEPT !.timer = FALSE, !.leaving = TRUE, !.cur = None, !.sock[k].st = "leaving"]
    BY <1>3 DEF Disconnecting
  <2> HIDE DEF d, k
  <2>2. /\ d = [sock |-> d.sock, cur |-> d.cur, leaving |-> d.leaving, timer |-> d.timer,
                attempts |-> d.attempts, awaited |-> d.awaited, flaws |-> d.flaws]
        /\ d.sock = [c.sock EXCEPT ![k].st = "leaving"] /\ d.cur = None /\ d.leaving = TRUE
        /\ d.flaws = c.flaws
    BY <2>1 DEF Sound
  <2>3. /\ d.sock \in [Socket -> [st : {"none", "connecting", "open", "leaving"},
                                  id : Nat, lsn : Nat]]
        /\ \A t \in Socket \ {k} : d.sock[t] = c.sock[t]
        /\ k \in Socket => /\ d.sock[k].st = "leaving"
                           /\ d.sock[k].id = c.sock[k].id /\ d.sock[k].lsn = c.sock[k].lsn
    <3> DEFINE R == [st : {"none", "connecting", "open", "leaving"}, id : Nat, lsn : Nat]
               r == [c.sock[k] EXCEPT !.st = "leaving"]
    <3>1. c.sock \in [Socket -> R]
      BY DEF Sound
    <3>2. k \in Socket => /\ r \in R /\ r.st = "leaving"
                          /\ r.id = c.sock[k].id /\ r.lsn = c.sock[k].lsn
      BY <3>1
    <3>3. d.sock = [c.sock EXCEPT ![k] = r]
      BY <2>2
    <3> HIDE DEF r, R
    <3>4. d.sock \in [Socket -> R] /\ \A t \in Socket \ {k} : d.sock[t] = c.sock[t]
      BY <3>1, <3>2, <3>3
    <3>5. k \in Socket => d.sock[k] = r
      BY <3>1, <3>3
    <3> QED
      BY <3>2, <3>4, <3>5 DEF R
  <2>4. \A t \in Socket : Who(d, t) = Who(c, t)
    BY <2>3 DEF Who
  <2>5. Live(d) = Live(c) \ {k}
    BY <2>3 DEF Live
  <2>6. "overlap" \notin c.flaws => Live(d) = {}
    BY <2>5 DEF Sound, k
  <2>7. Sound(d)
    BY <2>2, <2>3, <2>6 DEF Sound
  <2>8. Live(d) \subseteq Socket
    BY DEF Live
  <2>9. Moves(c, d, {})
    BY <2>2, <2>4, <2>5, <2>7, <2>8 DEF Moves
  <2> QED
    BY <2>6, <2>9 DEF d
<1> QED
  BY <1>1, <1>2, <1>3

\* connect, after closing an open socket or at once.
LEMMA ConnectingMoves ==
    ASSUME NEW c, Sound(c), NEW p \in State
    PROVE  Moves(c, Connecting(c, p), {p})
<1> DEFINE e == Disconnecting(c)
           A == e.awaited \cup {c.cur}
           d == [e EXCEPT !.awaited = A]
<1>1. Moves(c, e, {p}) /\ Sound(e)
  BY DisconnectingMoves, MovesMore DEF Moves
<1>2. Moves(e, d, {p})
  <2> HIDE DEF e, A
  <2>1. d = [sock |-> e.sock, cur |-> e.cur, leaving |-> e.leaving, timer |-> d.timer,
             attempts |-> d.attempts, awaited |-> d.awaited, flaws |-> d.flaws]
        /\ d.flaws = e.flaws
    BY <1>1 DEF Sound
  <2> HIDE DEF d
  <2> QED
    BY <1>1, <2>1, SameSockets
<1>3. Moves(c, d, {p})
  <2> HIDE DEF e, d
  <2> QED
    BY <1>1, <1>2, MovesCompose
<1> QED
  BY <1>3, OpeningMoves DEF Connecting

\* A socket is gone.
LEMMA ClosedMoves ==
    ASSUME NEW c, Sound(c), NEW s \in Socket, NEW d, NEW P,
           d.sock = [c.sock EXCEPT ![s] = Closed],
           d = [sock |-> d.sock, cur |-> d.cur, leaving |-> d.leaving, timer |-> d.timer,
                attempts |-> d.attempts, awaited |-> d.awaited, flaws |-> d.flaws],
           d.leaving => c.leaving, c.flaws = d.flaws,
           d.cur = c.cur \/ (d.cur = None /\ s \in Live(c))
    PROVE  Moves(c, d, P)
<1>1. Closed \in [st : {"none", "connecting", "open", "leaving"}, id : Nat, lsn : Nat]
  BY DEF Closed
<1>2. /\ d.sock \in [Socket -> [st : {"none", "connecting", "open", "leaving"},
                                id : Nat, lsn : Nat]]
      /\ d.sock[s] = Closed /\ \A t \in Socket \ {s} : d.sock[t] = c.sock[t]
  <2> HIDE DEF Closed
  <2> QED
    BY <1>1 DEF Sound
<1>3. Who(d, s) = Nobody /\ \A t \in Socket \ {s} : Who(d, t) = Who(c, t)
  BY <1>2 DEF Who, Nobody, Closed
<1>4. Live(d) = Live(c) \ {s} /\ Live(d) \subseteq Socket
  BY <1>2 DEF Live, Closed
<1>5. d.leaving => d.cur = None
  BY DEF Sound
<1>6. "overlap" \notin d.flaws => Live(d) \subseteq {d.cur}
  BY <1>4 DEF Sound
<1>7. Sound(d)
  BY <1>2, <1>5, <1>6 DEF Sound
<1> QED
  BY <1>3, <1>4, <1>7 DEF Moves

\* attemptReconnect opens nothing yet.
LEMMA RetryingMoves ==
    ASSUME NEW c, Sound(c)
    PROVE  Moves(c, Retrying(c), {})
<1> DEFINE d == Retrying(c)
<1>1. \/ d = c \/ d = [c EXCEPT !.attempts = @ + 1, !.timer = TRUE]
      \/ d = [c EXCEPT !.flaws = @ \cup {"gaveUp"}]
  BY DEF Retrying
<1> HIDE DEF d
<1>2. d = [sock |-> c.sock, cur |-> c.cur, leaving |-> c.leaving, timer |-> d.timer,
           attempts |-> d.attempts, awaited |-> d.awaited, flaws |-> d.flaws]
      /\ c.flaws \subseteq d.flaws
  BY <1>1 DEF Sound
<1>3. Moves(c, d, {})
  BY <1>2, SameSockets
<1> QED
  BY <1>3 DEF d

\* handleClose, and the end of disconnect.
LEMMA LostMoves ==
    ASSUME NEW c, Sound(c), NEW s \in Live(c)
    PROVE  Moves(c, Lost(c, s), {})
<1> DEFINE d == [c EXCEPT !.sock[s] = Closed]
           e == [d EXCEPT !.cur = None]
<1>1. s \in Socket
  BY DEF Live
<1>2. /\ d.sock = [c.sock EXCEPT ![s] = Closed]
      /\ d = [sock |-> d.sock, cur |-> d.cur, leaving |-> d.leaving, timer |-> d.timer,
              attempts |-> d.attempts, awaited |-> d.awaited, flaws |-> d.flaws]
      /\ d.leaving = c.leaving /\ c.flaws = d.flaws /\ d.cur = c.cur
  BY DEF Sound
<1>3. /\ e.sock = [c.sock EXCEPT ![s] = Closed]
      /\ e = [sock |-> e.sock, cur |-> e.cur, leaving |-> e.leaving, timer |-> e.timer,
              attempts |-> e.attempts, awaited |-> e.awaited, flaws |-> e.flaws]
      /\ e.leaving = c.leaving /\ c.flaws = e.flaws /\ e.cur = None
  <2> HIDE DEF d
  <2> QED
    BY <1>2
<1>4. Lost(c, s) = IF c.leaving THEN d ELSE Retrying(e)
  BY DEF Lost
<1> HIDE DEF d, e
<1>5. Moves(c, d, {}) /\ Moves(c, e, {})
  BY <1>1, <1>2, <1>3, ClosedMoves
<1>6. Moves(c, Retrying(e), {})
  BY <1>5, RetryingMoves, MovesCompose DEF Moves
<1> QED
  BY <1>4, <1>5, <1>6

LEMMA LeftMoves ==
    ASSUME NEW c, Sound(c), NEW s \in Socket, params \in State
    PROVE  Moves(c, Left(c, s), {params})
<1> DEFINE A == c.awaited \ {s}
           d == [c EXCEPT !.sock[s] = Closed, !.leaving = FALSE, !.awaited = A]
<1>1. /\ d.sock = [c.sock EXCEPT ![s] = Closed]
      /\ d = [sock |-> d.sock, cur |-> d.cur, leaving |-> d.leaving, timer |-> d.timer,
              attempts |-> d.attempts, awaited |-> d.awaited, flaws |-> d.flaws]
      /\ d.leaving = FALSE /\ c.flaws = d.flaws /\ d.cur = c.cur
  <2> DEFINE K == [c.sock EXCEPT ![s] = Closed]
  <2>1. d = [c EXCEPT !.sock = K, !.leaving = FALSE, !.awaited = A]
    OBVIOUS
  <2> HIDE DEF A, d, K
  <2>2. d = [sock |-> K, cur |-> c.cur, leaving |-> FALSE, timer |-> c.timer,
             attempts |-> c.attempts, awaited |-> A, flaws |-> c.flaws]
    BY <2>1 DEF Sound
  <2>3. /\ d.sock = K /\ d.cur = c.cur /\ d.leaving = FALSE /\ d.timer = c.timer
        /\ d.attempts = c.attempts /\ d.awaited = A /\ d.flaws = c.flaws
    BY <2>2
  <2> QED
    BY <2>2, <2>3 DEF K
<1>2. Left(c, s) = IF s \in c.awaited THEN Opening(d, params) ELSE d
  BY DEF Left
<1> HIDE DEF d
<1>3. Moves(c, d, {params})
  BY <1>1, ClosedMoves
<1>4. Moves(c, Opening(d, params), {params})
  BY <1>3, OpeningMoves, MovesCompose DEF Moves
<1> QED
  BY <1>2, <1>3, <1>4

-----------------------------------------------------------------------------
(* The invariant.                                                          *)

SaveType == [data : State, found : BOOLEAN, row : Nat, by : 0..MaxResets]

TypeInv ==
    /\ {ready, autoTimer, pending, debounce} \subseteq BOOLEAN
    /\ cache \in State /\ params \in State /\ ids \in Nat /\ newest \in Nat
    /\ rows \in Seq(State) /\ saves \in Seq(SaveType)
    /\ \A i \in DOMAIN saves : saves[i].row <= Len(rows)
    /\ reset \in [1..MaxResets -> {"none", "flush", "save", "done"}]
    /\ Sound(conn)

Fresh(F) == [NewConnector EXCEPT !.flaws = F]

\* Before the start there is nothing.
FreshInv == ~ready =>
    /\ conn = Fresh(conn.flaws)
    /\ ~autoTimer /\ saves = << >> /\ ~pending /\ ~debounce /\ ~Resetting

Known(p) == p.lsn = 0 \/ p \in got

\* Nobody claims an LSN he has not received, and the sockets that are alive are
\* those of the present client.
ClaimsInv == ~Mixed =>
    /\ Known(cache) /\ Known(params)
    /\ \A i \in DOMAIN rows : Known(rows[i])
    /\ \A i \in DOMAIN saves : Known(saves[i].data)
    /\ \A s \in Socket : Known(Who(conn, s))
    /\ \A s \in Live(conn) : conn.sock[s].id = cache.id
    /\ ready /\ ~Resetting => params.id = cache.id

InProgress(n) == reset[n] \in {"flush", "save"}
Saved == \E i \in DOMAIN rows : rows[i] = cache

\* The last save in progress is that of the present state; without one the state
\* is saved or a save is pending.  While a reset saves, nothing arrives.
SavesInv == ~Mixed /\ "twice" \notin conn.flaws /\ ready =>
    /\ \A m, n \in 1..MaxResets : InProgress(m) /\ InProgress(n) => m = n
    /\ Resetting => Live(conn) = {}
    /\ \A i \in DOMAIN saves : saves[i].by # 0 => saves[i].data = cache /\ InProgress(saves[i].by)
    /\ \A i, j \in DOMAIN saves : saves[i].by # 0 /\ saves[i].by = saves[j].by => i = j
    /\ saves # << >> => saves[Len(saves)].data = cache
    /\ saves = << >> /\ ~pending => Saved

IInv == TypeInv /\ FreshInv /\ ClaimsInv /\ SavesInv

\* A reset is in progress.
LEMMA ResettingMeans ==
    ASSUME TypeInv
    PROVE  Resetting <=> \E n \in 1..MaxResets : InProgress(n)
  BY DEF TypeInv, Resetting, InProgress

\* Flaws stay.
LEMMA FlawsStay ==
    ASSUME NEW P, Moves(conn, conn', P)
    PROVE  /\ Mixed => Mixed'
           /\ "twice" \in conn.flaws => "twice" \in conn'.flaws
  BY DEF Moves, Mixed

\* A connector before the start.
LEMMA FreshSound ==
    ASSUME NEW F, NEW c, c = Fresh(F)
    PROVE  /\ Sound(c) /\ c.flaws = F /\ Live(c) = {} /\ ~c.timer /\ ~c.leaving /\ c.awaited = {}
           /\ \A t \in Socket : Who(c, t) = Nobody /\ c.sock[t].st = "none"
<1> DEFINE K == [s \in Socket |-> Closed]
           E == {}
<1>1. c = [sock |-> K, cur |-> None, leaving |-> FALSE,
           timer |-> FALSE, attempts |-> 0, awaited |-> E, flaws |-> F]
  BY DEF Fresh, NewConnector
<1>2. \A t \in Socket : c.sock[t] = Closed
  BY <1>1
<1>3. Closed \in [st : {"none", "connecting", "open", "leaving"}, id : Nat, lsn : Nat]
  BY DEF Closed
<1>4. c.sock \in [Socket -> [st : {"none", "connecting", "open", "leaving"}, id : Nat, lsn : Nat]]
  <2> HIDE DEF Closed
  <2> QED
    BY <1>1, <1>3
<1>5. Live(c) = {} /\ \A t \in Socket : Who(c, t) = Nobody /\ c.sock[t].st = "none"
  BY <1>2 DEF Live, Who, Nobody, Closed
<1>6. /\ c = [sock |-> c.sock, cur |-> c.cur, leaving |-> c.leaving, timer |-> c.timer,
              attempts |-> c.attempts, awaited |-> c.awaited, flaws |-> c.flaws]
      /\ c.leaving = FALSE /\ c.timer = FALSE /\ c.awaited = {} /\ c.flaws = F
  <2> HIDE DEF K, E
  <2>1. /\ c.sock = K /\ c.cur = None /\ c.leaving = FALSE /\ c.timer = FALSE
        /\ c.attempts = 0 /\ c.awaited = E /\ c.flaws = F
    BY <1>1
  <2>2. c = [sock |-> c.sock, cur |-> c.cur, leaving |-> c.leaving, timer |-> c.timer,
             attempts |-> c.attempts, awaited |-> c.awaited, flaws |-> c.flaws]
    BY <1>1, <2>1
  <2> QED
    BY <2>1, <2>2 DEF E
<1>7. Sound(c)
  BY <1>4, <1>5, <1>6 DEF Sound
<1> QED
  BY <1>5, <1>6, <1>7

-----------------------------------------------------------------------------
(* Actions that only move the connector.                                   *)

stateVars == <<ready, params, cache, pending, debounce, saves, rows, reset, got, ids, newest>>

LEMMA ConnectorKeeps ==
    ASSUME IInv, Moves(conn, conn', {params}), UNCHANGED stateVars,
           ready \/ (conn' = conn /\ autoTimer' = autoTimer), autoTimer' \in BOOLEAN
    PROVE  IInv'
<1>1. /\ ready' = ready /\ params' = params /\ cache' = cache /\ pending' = pending
      /\ debounce' = debounce /\ saves' = saves /\ rows' = rows /\ reset' = reset /\ got' = got
      /\ ids' = ids /\ newest' = newest
  BY DEF stateVars
<1>2. TypeInv /\ FreshInv /\ ClaimsInv /\ SavesInv
  BY DEF IInv
<1>3. Resetting' <=> Resetting
  BY <1>1 DEF Resetting
<1>4. TypeInv'
  BY <1>1, <1>2 DEF TypeInv, Moves
<1>5. FreshInv'
  BY <1>1, <1>2, <1>3 DEF FreshInv
<1>6. ASSUME ~Mixed' PROVE ~Mixed /\ "reset" \notin conn'.flaws
  BY <1>6, FlawsStay DEF Mixed
<1>7. ASSUME ~Mixed', NEW t \in Live(conn')
      PROVE  conn'.sock[t].id = cache.id /\ (ready => (t \in Live(conn) \/ ~Resetting))
  <2>1. CASE t \in Live(conn) /\ Who(conn', t) = Who(conn, t)
    BY <1>2, <1>6, <1>7, <2>1 DEF ClaimsInv, Who
  <2>2. CASE Who(conn', t) = params /\ ~Resetting /\ ready
    <3>1. params.id = cache.id
      BY <1>2, <1>6, <1>7, <2>2 DEF ClaimsInv
    <3> QED
      BY <2>2, <3>1 DEF Who
  <2>3. CASE ~ready
    BY <1>2, <1>6, <1>7, <2>3 DEF ClaimsInv
  <2> QED
    BY <1>6, <1>7, <2>1, <2>2, <2>3 DEF Moves
<1>8. ClaimsInv'
  <2> SUFFICES ASSUME ~Mixed' PROVE ClaimsInv'
    BY DEF ClaimsInv
  <2>1. \A p : Known(p)' <=> Known(p)
    BY <1>1 DEF Known
  <2>2. ASSUME NEW s \in Socket PROVE Known(Who(conn', s))
    <3>1. Who(conn', s) \in {Who(conn, s), Nobody, params}
      BY DEF Moves
    <3>2. Known(Nobody)
      BY DEF Known, Nobody
    <3> QED
      BY <1>2, <1>6, <3>1, <3>2 DEF ClaimsInv
  <2>3. \A s \in Socket : Known(Who(conn, s))'
    BY <2>2, <1>1 DEF Known, Who
  <2> QED
    BY <1>1, <1>2, <1>3, <1>6, <1>7, <2>3 DEF ClaimsInv, Known
<1>9. SavesInv'
  <2> SUFFICES ASSUME ~Mixed', "twice" \notin conn'.flaws, ready PROVE SavesInv'
    BY <1>1 DEF SavesInv
  <2>1. ~Mixed /\ "twice" \notin conn.flaws
    BY <1>6, FlawsStay
  <2>2. Resetting => Live(conn') = {}
    BY <1>2, <1>7, <2>1 DEF SavesInv
  <2> QED
    BY <1>1, <1>2, <1>3, <2>1, <2>2 DEF SavesInv, InProgress, Saved
<1> QED
  BY <1>4, <1>5, <1>8, <1>9 DEF IInv

\* A socket opens.
LEMMA OpenMoves ==
    ASSUME NEW c, Sound(c), NEW s \in Socket, c.sock[s].st = "connecting", NEW P
    PROVE  Moves(c, [c EXCEPT !.sock[s].st = "open", !.attempts = 0], P)
<1> DEFINE d == [c EXCEPT !.sock[s].st = "open", !.attempts = 0]
           R == [st : {"none", "connecting", "open", "leaving"}, id : Nat, lsn : Nat]
           r == [c.sock[s] EXCEPT !.st = "open"]
           K == [c.sock EXCEPT ![s] = r]
<1>1. c.sock \in [Socket -> R]
  BY DEF Sound
<1>2. r \in R /\ r.st = "open" /\ r.id = c.sock[s].id /\ r.lsn = c.sock[s].lsn
  BY <1>1
<1>3. d = [c EXCEPT !.sock = K, !.attempts = 0]
  OBVIOUS
<1> HIDE DEF d, r, R
<1>4. K \in [Socket -> R] /\ K[s] = r /\ \A t \in Socket \ {s} : K[t] = c.sock[t]
  BY <1>1, <1>2
<1> HIDE DEF K
<1>5. d = [sock |-> K, cur |-> c.cur, leaving |-> c.leaving, timer |-> c.timer,
           attempts |-> 0, awaited |-> c.awaited, flaws |-> c.flaws]
  BY <1>3 DEF Sound
<1>6. /\ d.sock = K /\ d.cur = c.cur /\ d.leaving = c.leaving /\ d.flaws = c.flaws
      /\ d.timer = c.timer /\ d.attempts = 0 /\ d.awaited = c.awaited
  BY <1>5
<1>7. \A t \in Socket : Who(d, t) = Who(c, t)
  BY <1>2, <1>4, <1>6 DEF Who
<1>8. Live(d) = Live(c) /\ Live(d) \subseteq Socket
  BY <1>2, <1>4, <1>6 DEF Live
<1>9. d.sock \in [Socket -> R]
  BY <1>4, <1>6
<1>10. Sound(d)
  BY <1>5, <1>6, <1>8, <1>9 DEF Sound, R
<1>11. Moves(c, d, P)
  BY <1>6, <1>7, <1>8, <1>10 DEF Moves
<1> QED
  BY <1>11 DEF d

\* Another state of the timer or the attempts.
LEMMA TimerMoves ==
    ASSUME NEW c, Sound(c), NEW P, NEW d,
           d = [c EXCEPT !.timer = FALSE] \/ d = [c EXCEPT !.attempts = 0, !.timer = FALSE]
    PROVE  Moves(c, d, P)
<1>1. d = [sock |-> c.sock, cur |-> c.cur, leaving |-> c.leaving, timer |-> d.timer,
           attempts |-> d.attempts, awaited |-> d.awaited, flaws |-> d.flaws]
      /\ d.flaws = c.flaws
  BY DEF Sound
<1> QED
  BY <1>1, SameSockets

ConnectorStep ==
    \/ AutoConnect \/ User \/ ReconnectTimer \/ HandleOffline \/ HandleOnline
    \/ \E s \in Socket : HandleOpen(s) \/ HandleClose(s) \/ DisconnectDone(s)

\* Opening a socket, now or after another is closed.
LEMMA ConnectorStepKeeps ==
    ASSUME IInv, ConnectorStep
    PROVE  IInv'
<1>1. TypeInv /\ FreshInv /\ Sound(conn) /\ params \in State /\ autoTimer \in BOOLEAN
  BY DEF IInv, TypeInv
<1>2. ~ready => /\ ~conn.timer /\ ~conn.leaving /\ ~autoTimer
                /\ \A t \in Socket : conn.sock[t].st = "none"
  BY <1>1, FreshSound DEF FreshInv
<1>3. /\ Moves(conn, conn, {params}) /\ Moves(conn, Opening(conn, params), {params})
      /\ Moves(conn, Connecting(conn, params), {params})
      /\ Moves(conn, Disconnecting(conn), {params})
  BY <1>1, NoMove, OpeningMoves, ConnectingMoves, DisconnectingMoves, MovesMore
<1>4. CASE AutoConnect
  <2>1. ready /\ UNCHANGED stateVars /\ autoTimer' \in BOOLEAN
    BY <1>2, <1>4 DEF AutoConnect, stateVars, saveVars, bounds
  <2>2. Moves(conn, conn', {params})
    BY <1>3, <1>4 DEF AutoConnect
  <2> QED
    BY <2>1, <2>2, ConnectorKeeps
<1>5. CASE User
  <2>1. ready /\ UNCHANGED stateVars /\ autoTimer' \in BOOLEAN
    BY <1>1, <1>5 DEF User, stateVars, saveVars
  <2>2. Moves(conn, conn', {params})
    BY <1>3, <1>5 DEF User
  <2> QED
    BY <2>1, <2>2, ConnectorKeeps
<1>6. CASE ReconnectTimer
  <2> DEFINE d == [conn EXCEPT !.timer = FALSE]
  <2>1. ready /\ UNCHANGED stateVars /\ autoTimer' \in BOOLEAN
    BY <1>1, <1>2, <1>6 DEF ReconnectTimer, connOnly, stateVars, saveVars
  <2>2. Moves(conn, d, {params})
    BY <1>1, TimerMoves
  <2>3. conn' = Connecting(d, params)
    BY <1>6 DEF ReconnectTimer
  <2> HIDE DEF d
  <2>4. Moves(d, conn', {params})
    BY <1>1, <2>2, <2>3, ConnectingMoves DEF Moves
  <2>5. Moves(conn, conn', {params})
    BY <2>2, <2>4, MovesCompose
  <2> QED
    BY <2>1, <2>5, ConnectorKeeps
<1>7. CASE HandleOffline
  <2>1. UNCHANGED stateVars /\ autoTimer' = autoTimer
    BY <1>7 DEF HandleOffline, connOnly, stateVars, saveVars
  <2>2. conn' = [conn EXCEPT !.timer = FALSE]
    BY <1>7 DEF HandleOffline
  <2>3. Moves(conn, conn', {params})
    BY <1>1, <2>2, TimerMoves
  <2>4. ~ready => conn' = conn
    BY <1>1, <2>2 DEF FreshInv, Fresh, NewConnector
  <2> QED
    BY <1>1, <2>1, <2>3, <2>4, ConnectorKeeps
<1>8. CASE HandleOnline
  <2> DEFINE d == [conn EXCEPT !.attempts = 0, !.timer = FALSE]
  <2>1. UNCHANGED stateVars /\ autoTimer' = autoTimer
    BY <1>8 DEF HandleOnline, connOnly, stateVars, saveVars
  <2>2. Moves(conn, d, {params})
    BY <1>1, TimerMoves
  <2>3. (ready /\ conn' = Opening(d, params)) \/ conn' = conn
    BY <1>8 DEF HandleOnline
  <2> HIDE DEF d
  <2>4. Moves(d, Opening(d, params), {params})
    BY <1>1, <2>2, OpeningMoves DEF Moves
  <2>5. Moves(conn, conn', {params})
    BY <1>3, <2>2, <2>3, <2>4, MovesCompose
  <2> QED
    BY <1>1, <2>1, <2>3, <2>5, ConnectorKeeps
<1>9. ASSUME NEW s \in Socket, HandleOpen(s) \/ HandleClose(s) \/ DisconnectDone(s)
      PROVE  IInv'
  <2>1. ready /\ UNCHANGED stateVars /\ autoTimer' = autoTimer
    BY <1>2, <1>9 DEF HandleOpen, HandleClose, DisconnectDone, connOnly, stateVars, saveVars
  <2>2. CASE HandleClose(s)
    <3>1. s \in Live(conn) /\ conn' = Lost(conn, s)
      BY <2>2 DEF HandleClose, Live
    <3>2. Moves(conn, conn', {})
      BY <1>1, <3>1, LostMoves
    <3> QED
      BY <1>1, <2>1, <3>2, MovesMore, ConnectorKeeps
  <2>3. CASE DisconnectDone(s)
    <3>1. conn' = Left(conn, s)
      BY <2>3 DEF DisconnectDone
    <3> QED
      BY <1>1, <2>1, <3>1, LeftMoves, ConnectorKeeps
  <2>4. CASE HandleOpen(s)
    <3>1. /\ conn.sock[s].st = "connecting"
          /\ conn' = [conn EXCEPT !.sock[s].st = "open", !.attempts = 0]
      BY <2>4 DEF HandleOpen
    <3>2. Moves(conn, conn', {params})
      BY <1>1, <3>1, OpenMoves
    <3> QED
      BY <1>1, <2>1, <3>2, ConnectorKeeps
  <2> QED
    BY <1>9, <2>2, <2>3, <2>4
<1> QED
  BY <1>4, <1>5, <1>6, <1>7, <1>8, <1>9 DEF ConnectorStep

-----------------------------------------------------------------------------
(* Actions that change the saved state.                                    *)

\* Start: nothing is in progress, and the one socket is that of the state.
LEMMA InitializeKeeps ==
    ASSUME IInv, Initialize
    PROVE  IInv'
<1>1. TypeInv /\ FreshInv /\ ClaimsInv /\ Sound(conn)
  BY DEF IInv, TypeInv
<1>2. ~ready /\ ready' /\ autoTimer' /\ rows' = rows /\ saves' = saves /\ reset' = reset /\ got' = got
      /\ debounce' = debounce /\ newest' = newest /\ params' = cache'
  BY DEF Initialize, bounds
<1>3. Live(conn) = {} /\ saves = << >> /\ ~pending /\ ~Resetting
      /\ \A t \in Socket : Who(conn, t) = Nobody
  BY <1>1, <1>2, FreshSound DEF FreshInv
<1>4. /\ cache' \in State /\ ids' \in Nat /\ pending' \in BOOLEAN
      /\ \/ pending' = pending /\ \E r \in DOMAIN rows : cache' = rows[r]
         \/ pending' = TRUE /\ cache'.lsn = 0
  <2>1. CASE /\ rows # << >> /\ \E r \in DOMAIN rows : cache' = rows[r]
             /\ UNCHANGED <<ids, pending, faults>>
    BY <1>1, <2>1 DEF TypeInv
  <2>2. CASE ids' = ids + 1 /\ cache' = [id |-> ids', lsn |-> 0] /\ pending' = TRUE
    <3>1. ids' \in Nat
      BY <1>1, <2>2 DEF TypeInv
    <3> QED
      BY <2>2, <3>1 DEF State
  <2> QED
    BY <2>1, <2>2 DEF Initialize
<1>5. Moves(conn, conn', {cache'})
  BY <1>1, <1>4, OpeningMoves DEF Initialize
<1>6. TypeInv'
  BY <1>1, <1>2, <1>4, <1>5 DEF TypeInv, Moves
<1>7. FreshInv'
  BY <1>2 DEF FreshInv
<1>8. ~Resetting'
  BY <1>2, <1>3 DEF Resetting
<1>9. ClaimsInv'
  <2> SUFFICES ASSUME ~Mixed' PROVE ClaimsInv'
    BY DEF ClaimsInv
  <2>1. ~Mixed
    BY <1>5, FlawsStay
  <2>2. \A p : Known(p)' <=> Known(p)
    BY <1>2 DEF Known
  <2>3. Known(cache') /\ Known(Nobody)
    BY <1>1, <1>4, <2>1 DEF ClaimsInv, Known, Nobody
  <2>4. \A s \in Socket : Known(Who(conn', s))
    BY <1>3, <1>5, <2>3 DEF Moves
  <2>5. \A s \in Socket : Known(Who(conn, s))'
    BY <2>4, <1>2 DEF Known, Who
  <2>6. \A s \in Live(conn') : conn'.sock[s].id = cache'.id
    BY <1>3, <1>5 DEF Moves, Who
  <2> QED
    BY <1>1, <1>2, <1>3, <2>1, <2>3, <2>5, <2>6 DEF ClaimsInv, Known
<1>10. SavesInv'
  <2>1. ~pending' => Saved'
    BY <1>2, <1>4 DEF Saved
  <2>2. \A n \in 1..MaxResets : ~InProgress(n)'
    BY <1>1, <1>8, <1>2, <1>3, ResettingMeans DEF InProgress
  <2> QED
    BY <1>2, <1>3, <1>8, <2>1, <2>2 DEF SavesInv
<1> QED
  BY <1>6, <1>7, <1>9, <1>10 DEF IInv

\* A restart forgets what was in progress.
LEMMA RestartKeeps ==
    ASSUME IInv, Restart
    PROVE  IInv'
<1>1. TypeInv /\ ClaimsInv
  BY DEF IInv
<1>2. /\ ~ready' /\ ~autoTimer' /\ saves' = << >> /\ ~pending' /\ ~debounce'
      /\ UNCHANGED <<params, cache, rows, got, ids, newest>>
      /\ ready' = FALSE /\ autoTimer' = FALSE /\ pending' = FALSE /\ debounce' = FALSE
      /\ conn' = Fresh(conn.flaws)
      /\ reset' = [n \in DOMAIN reset |-> IF reset[n] = "none" THEN "none" ELSE "done"]
  BY DEF Restart, Fresh
<1>3. /\ Sound(conn') /\ Live(conn') = {} /\ conn'.flaws = conn.flaws
      /\ \A t \in Socket : Who(conn', t) = Nobody
  BY <1>2, FreshSound
<1>4. reset' \in [1..MaxResets -> {"none", "flush", "save", "done"}] /\ ~Resetting'
  BY <1>1, <1>2 DEF TypeInv, Resetting
<1>5. TypeInv'
  <2>1. saves' \in Seq(SaveType) /\ \A i \in DOMAIN saves' : saves'[i].row <= Len(rows')
    BY <1>2
  <2>2. {ready', autoTimer', pending', debounce'} \subseteq BOOLEAN
    BY <1>2
  <2>3. /\ cache' \in State /\ params' \in State /\ ids' \in Nat /\ newest' \in Nat
        /\ rows' \in Seq(State)
    BY <1>1, <1>2 DEF TypeInv
  <2> QED
    BY <1>3, <1>4, <2>1, <2>2, <2>3 DEF TypeInv
<1>6. FreshInv'
  BY <1>2, <1>3, <1>4 DEF FreshInv
<1>7. ClaimsInv'
  <2>1. Mixed' <=> Mixed
    BY <1>3 DEF Mixed
  <2>2. \A s \in Socket : Known(Who(conn, s))'
    BY <1>3 DEF Known, Nobody, Who
  <2> QED
    BY <1>1, <1>2, <1>3, <2>1, <2>2 DEF ClaimsInv, Known
<1>8. SavesInv'
  BY <1>2 DEF SavesInv
<1> QED
  BY <1>5, <1>6, <1>7, <1>8 DEF IInv

\* A message on an open socket: no reset is in progress, and what it saves is the
\* last.
LEMMA HandleLSNUpdateKeeps ==
    ASSUME IInv, NEW s \in Socket, HandleLSNUpdate(s)
    PROVE  IInv'
<1> DEFINE rcv == [id |-> conn.sock[s].id, lsn |-> newest']
           save == [data |-> cache', found |-> FALSE, row |-> 0, by |-> 0]
<1>1. TypeInv /\ FreshInv /\ ClaimsInv /\ SavesInv /\ Sound(conn)
  BY DEF IInv, TypeInv
<1>2. /\ UNCHANGED <<ready, autoTimer, conn, params, rows, reset, ids>>
      /\ newest' = newest + 1 /\ cache' = [cache EXCEPT !.lsn = newest']
      /\ got' = got \cup {rcv} /\ pending' = TRUE /\ debounce' = FALSE
      /\ saves' = Append(saves, save)
  BY DEF HandleLSNUpdate, PerformSave
<1>3. s \in Live(conn)
  BY DEF HandleLSNUpdate, Live
<1>4. ready
  BY <1>1, <1>3, FreshSound DEF FreshInv
<1>5. newest' \in Nat /\ cache' \in State /\ cache'.id = cache.id /\ cache'.lsn = newest'
      /\ cache' = [id |-> cache.id, lsn |-> newest']
  <2>1. newest' \in Nat /\ cache \in State /\ cache' = [cache EXCEPT !.lsn = newest']
    BY <1>1, <1>2 DEF TypeInv
  <2> QED
    BY <2>1 DEF State
<1>6. save \in SaveType
  BY <1>5, BoundsNat DEF SaveType
<1> HIDE DEF save, rcv
<1>7. /\ saves' \in Seq(SaveType) /\ saves' # << >> /\ saves'[Len(saves')] = save
      /\ DOMAIN saves' = DOMAIN saves \cup {Len(saves) + 1} /\ saves'[Len(saves) + 1] = save
      /\ \A i \in DOMAIN saves : saves'[i] = saves[i]
  BY <1>1, <1>2, <1>6 DEF TypeInv
<1>8. save.data = cache' /\ save.by = 0 /\ save.row = 0
  BY DEF save
<1>9. TypeInv'
  <2>1. \A i \in DOMAIN saves' : saves'[i].row <= Len(rows')
    BY <1>1, <1>2, <1>7, <1>8 DEF TypeInv
  <2>2. {ready', autoTimer', pending', debounce'} \subseteq BOOLEAN
    BY <1>1, <1>2 DEF TypeInv
  <2>3. /\ params' \in State /\ ids' \in Nat /\ rows' \in Seq(State)
        /\ reset' \in [1..MaxResets -> {"none", "flush", "save", "done"}]
    BY <1>1, <1>2 DEF TypeInv
  <2>4. Sound(conn')
    BY <1>1, <1>2
  <2> QED
    BY <1>5, <1>7, <2>1, <2>2, <2>3, <2>4 DEF TypeInv
<1>10. FreshInv'
  BY <1>2, <1>4 DEF FreshInv
<1>11. Mixed' <=> Mixed
  BY <1>2 DEF Mixed
<1>12. ClaimsInv'
  <2> SUFFICES ASSUME ~Mixed PROVE ClaimsInv'
    BY <1>11 DEF ClaimsInv
  <2>1. \A p : Known(p) => Known(p)'
    BY <1>2 DEF Known
  <2>2. Known(cache)'
    <3>1. conn.sock[s].id = cache.id
      BY <1>1, <1>3 DEF ClaimsInv
    <3>2. rcv = [id |-> cache.id, lsn |-> newest']
      BY <3>1 DEF rcv
    <3>3. cache' = [id |-> cache.id, lsn |-> newest']
      BY <1>5
    <3>4. cache' = rcv
      BY <3>2, <3>3
    <3> QED
      BY <1>2, <3>4 DEF Known
  <2>3. \A i \in DOMAIN saves' : Known(saves[i].data)'
    <3>1. \A i \in DOMAIN saves : Known(saves[i].data)
      BY <1>1 DEF ClaimsInv
    <3> QED
      BY <1>7, <1>8, <2>1, <2>2, <3>1 DEF Known
  <2>4. \A t \in Socket : Known(Who(conn, t))'
    BY <1>1, <1>2, <2>1 DEF ClaimsInv, Known, Who
  <2>5. \A t \in Live(conn)' : (conn.sock[t].id = cache.id)'
    BY <1>1, <1>2, <1>5 DEF ClaimsInv, Live
  <2>6. Resetting' <=> Resetting
    BY <1>2 DEF Resetting
  <2> QED
    BY <1>1, <1>2, <1>5, <2>1, <2>2, <2>3, <2>4, <2>5, <2>6 DEF ClaimsInv, Known
<1>13. SavesInv'
  <2> SUFFICES ASSUME ~Mixed, "twice" \notin conn.flaws PROVE SavesInv'
    BY <1>2, <1>11 DEF SavesInv
  <2>1. ~Resetting
    BY <1>1, <1>3, <1>4 DEF SavesInv
  <2>2. ~Resetting'
    BY <1>2, <2>1 DEF Resetting
  <2>3. \A n \in 1..MaxResets : ~InProgress(n) /\ ~InProgress(n)'
    BY <1>1, <1>2, <2>1, ResettingMeans DEF InProgress
  <2>4. \A i \in DOMAIN saves : saves[i].by = 0
    <3>1. ASSUME NEW i \in DOMAIN saves PROVE saves[i].by \in 0..MaxResets
      <4>1. saves[i] \in SaveType
        BY <1>1 DEF TypeInv
      <4> QED
        BY <4>1 DEF SaveType
    <3>2. \A i \in DOMAIN saves : saves[i].by # 0 => InProgress(saves[i].by)
      BY <1>1, <1>4 DEF SavesInv
    <3> QED
      BY <2>3, <3>1, <3>2, BoundsNat
  <2>5. \A i \in DOMAIN saves' : saves'[i].by = 0
    BY <1>7, <1>8, <2>4
  <2> QED
    BY <1>7, <1>8, <2>2, <2>3, <2>5 DEF SavesInv
<1> QED
  BY <1>9, <1>10, <1>12, <1>13 DEF IInv

\* Actions that move no socket and save nothing new.
LEMMA HandleStateChangeKeeps ==
    ASSUME IInv, NEW s \in Socket, HandleStateChange(s)
    PROVE  IInv'
<1>1. TypeInv /\ FreshInv /\ ClaimsInv /\ SavesInv /\ Sound(conn)
  BY DEF IInv, TypeInv
<1>2. /\ UNCHANGED <<ready, autoTimer, conn, params, cache, saves, rows, reset, got, ids>>
      /\ newest' = newest + 1 /\ pending' = TRUE /\ debounce' = TRUE
  BY DEF HandleStateChange
<1>3. s \in Live(conn)
  BY DEF HandleStateChange, Live
<1>4. ready
  BY <1>1, <1>3, FreshSound DEF FreshInv
<1>5. TypeInv'
  BY <1>1, <1>2 DEF TypeInv
<1>6. FreshInv'
  BY <1>2, <1>4 DEF FreshInv
<1>7. ClaimsInv'
  BY <1>1, <1>2 DEF ClaimsInv, Mixed, Known, Who, Live, Resetting
<1>8. SavesInv'
  BY <1>1, <1>2 DEF SavesInv, Mixed, InProgress, Resetting, Live
<1> QED
  BY <1>5, <1>6, <1>7, <1>8 DEF IInv

LEMMA SaveFindKeeps ==
    ASSUME IInv, SaveFind
    PROVE  IInv'
<1>1. TypeInv /\ FreshInv /\ ClaimsInv /\ SavesInv /\ Sound(conn)
  BY DEF IInv, TypeInv
<1>2. UNCHANGED <<ready, autoTimer, conn, params, cache, pending, debounce, rows, reset, got,
                  ids, newest>>
  BY DEF SaveFind, bounds
<1>3. PICK i \in DOMAIN saves : \E r \in (IF rows = << >> THEN {0} ELSE DOMAIN rows) :
          saves' = [saves EXCEPT ![i].found = TRUE, ![i].row = r]
  BY DEF SaveFind
<1>4. PICK r \in (IF rows = << >> THEN {0} ELSE DOMAIN rows) :
          saves' = [saves EXCEPT ![i].found = TRUE, ![i].row = r]
  BY <1>3
<1> DEFINE save == [saves[i] EXCEPT !.found = TRUE, !.row = r]
<1>5. r \in Nat /\ r <= Len(rows)
  BY <1>1 DEF TypeInv
<1>6. save \in SaveType /\ save.data = saves[i].data /\ save.by = saves[i].by /\ save.row = r
  <2>1. saves[i] \in SaveType
    BY <1>1 DEF TypeInv
  <2> QED
    BY <1>5, <2>1 DEF SaveType
<1>7. saves' = [saves EXCEPT ![i] = save]
  BY <1>1, <1>4 DEF TypeInv
<1> HIDE DEF save
<1>8. /\ saves' \in Seq(SaveType) /\ Len(saves') = Len(saves) /\ DOMAIN saves' = DOMAIN saves
      /\ saves' = << >> <=> saves = << >>
      /\ \A j \in DOMAIN saves : saves'[j] = IF j = i THEN save ELSE saves[j]
  BY <1>1, <1>6, <1>7 DEF TypeInv
<1>9. \A j \in DOMAIN saves : saves'[j].data = saves[j].data /\ saves'[j].by = saves[j].by
                                /\ saves'[j].row <= Len(rows)
  BY <1>1, <1>5, <1>6, <1>8 DEF TypeInv
<1>10. TypeInv'
  BY <1>1, <1>2, <1>8, <1>9 DEF TypeInv
<1>11. saves # << >> /\ Len(saves) \in DOMAIN saves
  BY <1>1 DEF TypeInv
<1>12. FreshInv'
  BY <1>1, <1>2, <1>11 DEF FreshInv
<1>13. ClaimsInv'
  BY <1>1, <1>2, <1>8, <1>9 DEF ClaimsInv, Mixed, Known, Who, Live, Resetting
<1>14. SavesInv'
  BY <1>1, <1>2, <1>8, <1>9, <1>11 DEF SavesInv, Mixed, InProgress, Resetting, Live
<1> QED
  BY <1>10, <1>12, <1>13, <1>14 DEF IInv

\* The debounced save is that of the present state.
LEMMA DebouncedKeeps ==
    ASSUME IInv, Debounced
    PROVE  IInv'
<1> DEFINE save == [data |-> cache, found |-> FALSE, row |-> 0, by |-> 0]
<1>1. TypeInv /\ FreshInv /\ ClaimsInv /\ SavesInv /\ Sound(conn)
  BY DEF IInv, TypeInv
<1>2. /\ UNCHANGED <<ready, autoTimer, conn, params, cache, pending, rows, reset, got, ids, newest>>
      /\ debounce /\ debounce' = FALSE
      /\ \/ saves' = saves
         \/ saves' = Append(saves, save)
  BY DEF Debounced, PerformSave, bounds
<1>3. ready
  BY <1>1, <1>2 DEF FreshInv
<1>4. CASE saves' = saves
  <2>1. TypeInv'
    BY <1>1, <1>2, <1>4 DEF TypeInv
  <2>2. FreshInv'
    BY <1>2, <1>3 DEF FreshInv
  <2>3. ClaimsInv'
    BY <1>1, <1>2, <1>4 DEF ClaimsInv, Mixed, Known, Who, Live, Resetting
  <2>4. SavesInv'
    BY <1>1, <1>2, <1>4 DEF SavesInv, Mixed, InProgress, Resetting, Live, Saved
  <2> QED
    BY <2>1, <2>2, <2>3, <2>4 DEF IInv
<1>5. CASE saves' = Append(saves, save)
  <2>1. save \in SaveType
    BY <1>1, BoundsNat DEF TypeInv, SaveType
  <2>2. save.data = cache /\ save.by = 0 /\ save.row = 0
    OBVIOUS
  <2> HIDE DEF save
  <2>3. /\ saves' \in Seq(SaveType) /\ saves' # << >> /\ saves'[Len(saves')] = save
        /\ DOMAIN saves' = DOMAIN saves \cup {Len(saves) + 1} /\ saves'[Len(saves) + 1] = save
        /\ \A i \in DOMAIN saves : saves'[i] = saves[i]
    BY <1>1, <1>5, <2>1 DEF TypeInv
  <2>4. TypeInv'
    <3>1. \A i \in DOMAIN saves' : saves'[i].row <= Len(rows')
      BY <1>1, <1>2, <2>2, <2>3 DEF TypeInv
    <3> QED
      BY <1>1, <1>2, <2>3, <3>1 DEF TypeInv
  <2>5. FreshInv'
    BY <1>2, <1>3 DEF FreshInv
  <2>6. ClaimsInv'
    <3> SUFFICES ASSUME ~Mixed PROVE ClaimsInv'
      BY <1>2 DEF ClaimsInv, Mixed
    <3>1. \A i \in DOMAIN saves' : Known(saves[i].data)'
      BY <1>1, <1>2, <2>2, <2>3 DEF ClaimsInv, Known
    <3> QED
      BY <1>1, <1>2, <3>1 DEF ClaimsInv, Mixed, Known, Who, Live, Resetting
  <2>7. SavesInv'
    <3> SUFFICES ASSUME ~Mixed, "twice" \notin conn.flaws PROVE SavesInv'
      BY <1>2 DEF SavesInv, Mixed
    <3>1. \A i \in DOMAIN saves' : saves'[i].by # 0 => i \in DOMAIN saves /\ saves'[i] = saves[i]
      BY <2>2, <2>3
    <3>2. \A i \in DOMAIN saves' : saves'[i].by # 0 =>
             saves'[i].data = cache /\ InProgress(saves'[i].by)
      BY <1>1, <1>3, <3>1 DEF SavesInv
    <3>3. \A i, j \in DOMAIN saves' : saves'[i].by # 0 /\ saves'[i].by = saves'[j].by => i = j
      BY <1>1, <1>3, <3>1 DEF SavesInv
    <3>4. \A n : InProgress(n)' <=> InProgress(n)
      BY <1>2 DEF InProgress
    <3>5. (Resetting => Live(conn) = {})'
      BY <1>1, <1>2, <1>3 DEF SavesInv, Resetting, Live
    <3>6. \A m, n \in 1..MaxResets : InProgress(m) /\ InProgress(n) => m = n
      BY <1>1, <1>3 DEF SavesInv
    <3> QED
      BY <1>2, <2>2, <2>3, <3>2, <3>3, <3>4, <3>5, <3>6 DEF SavesInv
  <2> QED
    BY <2>4, <2>5, <2>6, <2>7 DEF IInv
<1> QED
  BY <1>2, <1>4, <1>5

\* resetLSN closes the socket, so none is alive under the old id.
LEMMA ResetLSNKeeps ==
    ASSUME IInv, NEW n \in 1..MaxResets, ResetLSN(n)
    PROVE  IInv'
<1> DEFINE save == [data |-> cache', found |-> FALSE, row |-> 0, by |-> n]
           c == IF conn.cur # None THEN Disconnecting(conn) ELSE conn
           F == c.flaws \cup (IF Resetting THEN {"twice"} ELSE {})
           how == IF pending THEN "flush" ELSE "save"
<1>1. TypeInv /\ FreshInv /\ ClaimsInv /\ SavesInv /\ Sound(conn)
  BY DEF IInv, TypeInv
<1>2. /\ UNCHANGED <<autoTimer, params, pending, rows, got, newest>>
      /\ ready /\ ready' = ready /\ reset[n] = "none"
      /\ ids' = ids + 1 /\ cache' = [id |-> ids', lsn |-> 0] /\ debounce' = FALSE
      /\ reset' = [reset EXCEPT ![n] = how]
      /\ saves' = Append(saves, save)
      /\ conn' = [c EXCEPT !.flaws = F]
  BY DEF ResetLSN, MayReset, PerformSave
<1>3. cache' \in State /\ ids' \in Nat /\ cache'.lsn = 0
  <2>1. ids' \in Nat
    BY <1>1, <1>2 DEF TypeInv
  <2> QED
    BY <1>2, <2>1 DEF State
<1>4. /\ Moves(conn, c, {})
      /\ "overlap" \notin conn.flaws => Live(c) = {}
  <2>1. CASE conn.cur # None
    BY <1>1, <2>1, DisconnectingMoves
  <2>2. CASE conn.cur = None
    <3>1. "overlap" \notin conn.flaws => Live(conn) = {}
      BY <1>1, <2>2 DEF Sound, Live, None, Socket
    <3> QED
      BY <1>1, <2>2, <3>1, NoMove
  <2> QED
    BY <2>1, <2>2
<1> HIDE DEF c, save
<1>5. /\ conn' = [sock |-> c.sock, cur |-> c.cur, leaving |-> c.leaving, timer |-> conn'.timer,
                  attempts |-> conn'.attempts, awaited |-> conn'.awaited, flaws |-> conn'.flaws]
      /\ conn'.flaws = F
  <2> HIDE DEF F
  <2>1. Sound(c)
    BY <1>4 DEF Moves
  <2> QED
    BY <1>2, <2>1 DEF Sound
<1>6. Moves(c, conn', {})
  BY <1>4, <1>5, SameSockets DEF Moves, F
<1>7. Moves(conn, conn', {})
  BY <1>4, <1>6, MovesCompose
<1>8. "overlap" \notin conn.flaws => Live(conn') = {}
  BY <1>4, <1>6 DEF Moves
<1>9. ~Mixed' => ~Mixed /\ Live(conn') = {}
  BY <1>7, <1>8, FlawsStay DEF Mixed
<1>10. "twice" \notin conn'.flaws => "twice" \notin conn.flaws /\ ~Resetting
  BY <1>5, <1>7, FlawsStay DEF F
<1>11. /\ reset' \in [1..MaxResets -> {"none", "flush", "save", "done"}]
       /\ InProgress(n)' /\ \A m \in 1..MaxResets : InProgress(m)' => m = n \/ InProgress(m)
  BY <1>1, <1>2 DEF TypeInv, InProgress
<1>12. save \in SaveType /\ save.data = cache' /\ save.by = n /\ save.row = 0
  BY <1>3, BoundsNat DEF SaveType, save
<1>13. /\ saves' \in Seq(SaveType) /\ saves' # << >> /\ saves'[Len(saves')] = save
       /\ DOMAIN saves' = DOMAIN saves \cup {Len(saves) + 1} /\ saves'[Len(saves) + 1] = save
       /\ \A i \in DOMAIN saves : saves'[i] = saves[i]
  BY <1>1, <1>2, <1>12 DEF TypeInv
<1>14. TypeInv'
  <2>1. \A i \in DOMAIN saves' : saves'[i].row <= Len(rows')
    BY <1>1, <1>2, <1>12, <1>13 DEF TypeInv
  <2>2. {ready', autoTimer', pending', debounce'} \subseteq BOOLEAN
    BY <1>1, <1>2 DEF TypeInv
  <2>3. params' \in State /\ newest' \in Nat /\ rows' \in Seq(State)
    BY <1>1, <1>2 DEF TypeInv
  <2>4. Sound(conn')
    BY <1>7 DEF Moves
  <2> QED
    BY <1>3, <1>11, <1>13, <2>1, <2>2, <2>3, <2>4 DEF TypeInv
<1>15. FreshInv'
  BY <1>2 DEF FreshInv
<1>16. ClaimsInv'
  <2> SUFFICES ASSUME ~Mixed' PROVE ClaimsInv'
    BY DEF ClaimsInv
  <2>1. Known(cache)' /\ Known(params)' /\ \A i \in DOMAIN rows' : Known(rows[i])'
    BY <1>1, <1>2, <1>3, <1>9 DEF ClaimsInv, Known
  <2>2. \A i \in DOMAIN saves' : Known(saves[i].data)'
    <3>1. \A i \in DOMAIN saves : Known(saves[i].data)
      BY <1>1, <1>9 DEF ClaimsInv
    <3> QED
      BY <1>2, <1>3, <1>12, <1>13, <3>1 DEF Known
  <2>3. \A t \in Socket : Known(Who(conn, t))'
    <3>1. \A t \in Socket : Known(Who(conn, t)) /\ Known(Nobody)
      BY <1>1, <1>9 DEF ClaimsInv, Known, Nobody
    <3>2. \A t \in Socket : Known(Who(conn', t))
      BY <1>7, <3>1 DEF Moves
    <3> QED
      BY <1>2, <3>2 DEF Known, Who
  <2>4. Resetting'
    BY <1>11 DEF Resetting, InProgress
  <2>5. \A t \in Live(conn)' : (conn.sock[t].id = cache.id)'
    BY <1>9
  <2> QED
    BY <2>1, <2>2, <2>3, <2>4, <2>5 DEF ClaimsInv
<1>17. SavesInv'
  <2> SUFFICES ASSUME ~Mixed', "twice" \notin conn'.flaws PROVE SavesInv'
    BY DEF SavesInv
  <2>1. \A m \in 1..MaxResets : ~InProgress(m)
    BY <1>1, <1>10, ResettingMeans
  <2>2. ASSUME NEW i \in DOMAIN saves PROVE saves[i].by = 0
    <3>1. saves[i].by \in 0..MaxResets
      <4>1. saves[i] \in SaveType
        BY <1>1 DEF TypeInv
      <4> QED
        BY <4>1 DEF SaveType
    <3>2. saves[i].by # 0 => InProgress(saves[i].by)
      BY <1>1, <1>2, <1>9, <1>10 DEF SavesInv
    <3> QED
      BY <2>1, <3>1, <3>2, BoundsNat
  <2>3. \A i \in DOMAIN saves' : saves'[i].by # 0 => i = Len(saves) + 1 /\ saves'[i] = save
    BY <1>13, <2>2
  <2>4. \A m \in 1..MaxResets : InProgress(m)' => m = n
    BY <1>11, <2>1
  <2> QED
    BY <1>9, <1>11, <1>12, <1>13, <2>3, <2>4 DEF SavesInv
<1> QED
  BY <1>14, <1>15, <1>16, <1>17 DEF IInv

\* A save ends, with or without effect, and the reset that waits for it goes on.
LEMMA EndOfSave ==
    ASSUME IInv, saves # << >>,
           ResetGoesOn(Head(saves).by, Tail(saves), Head(saves).data),
           UNCHANGED <<ready, autoTimer, cache, debounce, got, ids, newest>>,
           pending' \in BOOLEAN, rows' \in Seq(State), Len(rows) <= Len(rows'),
           \A i \in DOMAIN rows' :
              rows'[i] = Head(saves).data \/ (i \in DOMAIN rows /\ rows'[i] = rows[i]),
           pending' \/ \E i \in DOMAIN rows' : rows'[i] = Head(saves).data
    PROVE  IInv'
<1> DEFINE h == saves[1]
           n == h.by
           rest == Tail(saves)
           more == [data |-> h.data, found |-> FALSE, row |-> 0, by |-> n]
<1>1. TypeInv /\ FreshInv /\ ClaimsInv /\ SavesInv /\ Sound(conn)
  BY DEF IInv, TypeInv
<1>2. ready /\ 1 \in DOMAIN saves /\ Len(saves) \in DOMAIN saves /\ Head(saves) = h
  BY <1>1 DEF TypeInv, FreshInv
<1>3. h \in SaveType /\ h.data \in State /\ n \in 0..MaxResets
  <2>1. h \in SaveType
    BY <1>1, <1>2 DEF TypeInv
  <2> QED
    BY <2>1 DEF SaveType
<1>4. /\ rest \in Seq(SaveType)
      /\ \A i \in DOMAIN rest : i + 1 \in DOMAIN saves /\ rest[i] = saves[i + 1]
      /\ rest # << >> => Len(rest) \in DOMAIN rest /\ rest[Len(rest)] = saves[Len(saves)]
      /\ rest = << >> => Len(saves) = 1
  <2>1. saves \in Seq(SaveType) /\ Len(saves) \in Nat /\ Len(saves) >= 1
        /\ DOMAIN saves = 1..Len(saves)
    BY <1>1 DEF TypeInv
  <2>2. /\ rest \in Seq(SaveType) /\ Len(rest) = Len(saves) - 1
        /\ DOMAIN rest = 1..Len(rest)
        /\ \A i \in 1..Len(rest) : rest[i] = saves[i + 1]
    BY <2>1
  <2> HIDE DEF rest
  <2>3. \A i \in DOMAIN rest : i + 1 \in DOMAIN saves /\ rest[i] = saves[i + 1]
    BY <2>1, <2>2
  <2>4. rest # << >> => Len(rest) >= 1
    BY <2>2
  <2>5. rest # << >> => Len(rest) \in DOMAIN rest /\ rest[Len(rest)] = saves[Len(saves)]
    BY <2>1, <2>2, <2>4
  <2>6. rest = << >> => Len(saves) = 1
    <3>1. ASSUME rest = << >> PROVE Len(rest) = 0
      BY <3>1
    <3>2. Len(rest) = Len(saves) - 1 /\ Len(saves) \in Nat
      BY <2>1, <2>2
    <3>3. Len(rest) = 0 => Len(saves) = 1
      BY <3>2
    <3> QED
      BY <3>1, <3>3
  <2> QED
    BY <2>2, <2>3, <2>5, <2>6
<1>5. more \in SaveType /\ more.data = h.data /\ more.by = n /\ more.row = 0
  BY <1>3 DEF SaveType
<1> HIDE DEF h, rest, more
<1>6. \/ /\ n = 0 /\ saves' = rest /\ UNCHANGED <<reset, params, conn>>
      \/ /\ n # 0 /\ reset[n] = "flush" /\ saves' = Append(rest, more)
         /\ reset' = [reset EXCEPT ![n] = "save"] /\ UNCHANGED <<params, conn>>
      \/ /\ n # 0 /\ saves' = rest /\ reset' = [reset EXCEPT ![n] = "done"]
         /\ params' = cache
         /\ conn' = conn \/ conn' = Connecting(conn, cache)
  <2>1. ResetGoesOn(n, rest, h.data)
    BY <1>2 DEF rest
  <2> QED
    BY <2>1 DEF ResetGoesOn, more
<1>7. /\ saves' \in Seq(SaveType)
      /\ \A i \in DOMAIN saves' : i \in Nat /\ i >= 1
      /\ \A i \in DOMAIN saves' :
            \/ i + 1 \in DOMAIN saves /\ saves'[i] = saves[i + 1]
            \/ /\ saves'[i] = more /\ n # 0 /\ i = Len(rest) + 1
               /\ reset[n] = "flush" /\ reset' = [reset EXCEPT ![n] = "save"]
      /\ saves' # << >> => \/ saves'[Len(saves')] = more /\ n # 0
                          \/ saves'[Len(saves')] = saves[Len(saves)]
      /\ saves' = << >> => Len(saves) = 1
  <2>1. CASE saves' = rest
    BY <1>4, <2>1
  <2>2. CASE /\ n # 0 /\ reset[n] = "flush" /\ saves' = Append(rest, more)
             /\ reset' = [reset EXCEPT ![n] = "save"]
    <3>1. /\ saves' \in Seq(SaveType) /\ saves' # << >> /\ saves'[Len(saves')] = more
          /\ DOMAIN saves' = DOMAIN rest \cup {Len(rest) + 1} /\ saves'[Len(rest) + 1] = more
          /\ \A i \in DOMAIN rest : saves'[i] = rest[i]
          /\ \A i \in DOMAIN saves' : i \in Nat /\ i >= 1
      BY <1>4, <1>5, <2>2
    <3>2. \A i \in DOMAIN saves' :
            \/ i + 1 \in DOMAIN saves /\ saves'[i] = saves[i + 1]
            \/ saves'[i] = more /\ i = Len(rest) + 1
      BY <1>4, <3>1
    <3> QED
      BY <2>2, <3>1, <3>2
  <2> QED
    BY <1>6, <2>1, <2>2
<1>8. /\ reset' \in [1..MaxResets -> {"none", "flush", "save", "done"}] /\ params' \in State
      /\ Moves(conn, conn', {cache})
      /\ conn' = conn \/ params' = cache
      /\ (params' = params /\ (Resetting' <=> Resetting)) \/ params' = cache
  <2>1. n # 0 => n \in 1..MaxResets
    BY <1>3, BoundsNat
  <2>2. reset' \in [1..MaxResets -> {"none", "flush", "save", "done"}]
    BY <1>1, <1>6 DEF TypeInv
  <2>3. cache \in State /\ params \in State
    BY <1>1 DEF TypeInv
  <2>4. Moves(conn, conn', {cache})
    BY <1>1, <1>6, <2>3, NoMove, ConnectingMoves
  <2>5. conn' = conn \/ params' = cache
    BY <1>6
  <2>6. CASE n = 0
    BY <1>6, <2>2, <2>3, <2>4, <2>5, <2>6 DEF Resetting
  <2>7. CASE n # 0 /\ reset[n] = "flush" /\ reset' = [reset EXCEPT ![n] = "save"]
             /\ UNCHANGED <<params, conn>>
    <3>1. Resetting /\ Resetting'
      BY <1>1, <2>1, <2>7 DEF Resetting, TypeInv
    <3> QED
      BY <2>2, <2>3, <2>4, <2>5, <2>7, <3>1
  <2> QED
    BY <1>6, <2>2, <2>3, <2>4, <2>5, <2>6, <2>7
<1>9. TypeInv'
  <2>1. ASSUME NEW i \in DOMAIN saves' PROVE saves'[i].row <= Len(rows')
    <3>1. \A j \in DOMAIN saves : saves[j].row \in Nat /\ saves[j].row <= Len(rows)
      <4>1. \A j \in DOMAIN saves : saves[j] \in SaveType
        BY <1>1 DEF TypeInv
      <4> QED
        BY <1>1, <4>1 DEF TypeInv, SaveType
    <3>2. Len(rows) \in Nat /\ Len(rows') \in Nat
      BY <1>1 DEF TypeInv
    <3>3. saves'[i] = more \/ (i + 1 \in DOMAIN saves /\ saves'[i] = saves[i + 1])
      BY <1>7
    <3> QED
      BY <1>5, <3>1, <3>2, <3>3
  <2>2. {ready', autoTimer', pending', debounce'} \subseteq BOOLEAN
    BY <1>1 DEF TypeInv
  <2>3. cache' \in State /\ ids' \in Nat /\ newest' \in Nat
    BY <1>1 DEF TypeInv
  <2>4. Sound(conn')
    BY <1>8 DEF Moves
  <2> QED
    BY <1>7, <1>8, <2>1, <2>2, <2>3, <2>4 DEF TypeInv
<1>10. FreshInv'
  BY <1>2 DEF FreshInv
<1>11. ~Mixed' => ~Mixed
  BY <1>8, FlawsStay
<1>12. ClaimsInv'
  <2> SUFFICES ASSUME ~Mixed, ~Mixed' PROVE ClaimsInv'
    BY <1>11 DEF ClaimsInv
  <2>1. \A p : Known(p)' <=> Known(p)
    BY DEF Known
  <2>2. Known(cache) /\ Known(h.data) /\ Known(Nobody)
    BY <1>1, <1>2 DEF ClaimsInv, Known, Nobody, h
  <2>3. Known(cache)' /\ Known(params)'
    BY <1>1, <1>8, <2>2 DEF ClaimsInv, Known
  <2>4. \A i \in DOMAIN rows' : Known(rows[i])'
    BY <1>1, <1>2, <2>2 DEF ClaimsInv, Known
  <2>5. \A i \in DOMAIN saves' : Known(saves[i].data)'
    BY <1>1, <1>5, <1>7, <2>2 DEF ClaimsInv, Known
  <2>6. \A t \in Socket : Known(Who(conn, t))'
    <3>1. \A t \in Socket : Known(Who(conn, t))
      BY <1>1 DEF ClaimsInv
    <3>2. \A t \in Socket : Known(Who(conn', t))
      BY <1>8, <2>2, <3>1 DEF Moves
    <3> QED
      BY <3>2 DEF Known, Who
  <2>7. \A t \in Live(conn)' : (conn.sock[t].id = cache.id)'
    <3>1. \A t \in Live(conn) : conn.sock[t].id = cache.id
      BY <1>1 DEF ClaimsInv
    <3>2. ASSUME NEW t \in Live(conn') PROVE conn'.sock[t].id = cache.id
      <4>1. (t \in Live(conn) /\ Who(conn', t) = Who(conn, t)) \/ Who(conn', t) = cache
        BY <1>8 DEF Moves
      <4>2. Who(conn', t).id = conn'.sock[t].id /\ Who(conn, t).id = conn.sock[t].id
        BY DEF Who
      <4> QED
        BY <3>1, <4>1, <4>2
    <3> QED
      BY <3>2
  <2>8. ~Resetting' => params'.id = cache'.id
    BY <1>1, <1>2, <1>8 DEF ClaimsInv
  <2> QED
    BY <2>3, <2>4, <2>5, <2>6, <2>7, <2>8 DEF ClaimsInv
<1>13. SavesInv'
  <2> SUFFICES ASSUME ~Mixed, "twice" \notin conn.flaws PROVE SavesInv'
    BY <1>8, <1>11, FlawsStay DEF SavesInv
  <2>1. /\ \A m, k \in 1..MaxResets : InProgress(m) /\ InProgress(k) => m = k
        /\ Resetting => Live(conn) = {}
        /\ \A i \in DOMAIN saves :
              saves[i].by # 0 => saves[i].data = cache /\ InProgress(saves[i].by)
        /\ \A i, j \in DOMAIN saves : saves[i].by # 0 /\ saves[i].by = saves[j].by => i = j
        /\ saves[Len(saves)].data = cache
    BY <1>1, <1>2 DEF SavesInv
  <2>2. n # 0 => n \in 1..MaxResets /\ InProgress(n) /\ h.data = cache
    BY <1>2, <1>3, <2>1, BoundsNat DEF h
  <2>3. \A i \in DOMAIN saves : i # 1 /\ n # 0 => saves[i].by # n
    BY <1>2, <2>1 DEF h
  <2>4. \A m \in 1..MaxResets : InProgress(m)' => InProgress(m)
    BY <1>1, <1>6, <2>2 DEF InProgress, TypeInv
  <2>5. n # 0 /\ reset' = [reset EXCEPT ![n] = "done"] => ~Resetting'
    <3>1. SUFFICES ASSUME n # 0, reset' = [reset EXCEPT ![n] = "done"] PROVE ~Resetting'
      OBVIOUS
    <3>2. \A m \in 1..MaxResets : ~InProgress(m)'
      BY <1>1, <2>1, <2>2, <2>4, <3>1 DEF InProgress, TypeInv
    <3> QED
      BY <1>8, <3>2 DEF Resetting, InProgress
  <2>6. Resetting' => Live(conn') = {}
    BY <1>1, <1>6, <2>1, <2>5 DEF Resetting
  <2>7. ASSUME NEW i \in DOMAIN saves', saves'[i].by # 0
        PROVE  saves'[i].data = cache /\ InProgress(saves[i].by)'
    <3>1. CASE saves'[i] = more /\ n # 0 /\ reset' = [reset EXCEPT ![n] = "save"]
      <4>1. reset'[n] = "save" /\ saves'[i].by = n /\ saves'[i].data = cache
        BY <1>1, <1>5, <2>2, <3>1 DEF TypeInv
      <4> QED
        BY <4>1 DEF InProgress
    <3>2. CASE i + 1 \in DOMAIN saves /\ saves'[i] = saves[i + 1]
      <4>1. InProgress(saves[i + 1].by) /\ saves[i + 1].data = cache
        BY <2>1, <2>7, <3>2
      <4>2. i + 1 # 1
        BY <1>7
      <4>3. n # 0 => saves[i + 1].by # n
        BY <2>3, <3>2, <4>2
      <4>4. n # 0 => reset'[saves[i + 1].by] = reset[saves[i + 1].by]
        <5>1. saves[i + 1] \in SaveType
          BY <1>1, <3>2 DEF TypeInv
        <5>2. saves[i + 1].by \in 1..MaxResets
          BY <2>7, <3>2, <5>1, BoundsNat DEF SaveType
        <5> QED
          BY <1>1, <1>6, <4>3, <5>2 DEF TypeInv
      <4> QED
        BY <1>6, <3>2, <4>1, <4>4 DEF InProgress
    <3> QED
      BY <1>7, <2>7, <3>1, <3>2
  <2>8. ASSUME NEW i \in DOMAIN saves', NEW j \in DOMAIN saves',
               saves'[i].by # 0, saves'[i].by = saves'[j].by
        PROVE  i = j
    <3>1. i \in Nat /\ j \in Nat /\ i >= 1 /\ j >= 1
      BY <1>7
    <3>2. \A k \in DOMAIN saves : k # 1 /\ n # 0 => saves[k].by # n
      BY <2>3
    <3>3. /\ \/ i + 1 \in DOMAIN saves /\ saves'[i] = saves[i + 1]
             \/ saves'[i].by = n /\ n # 0 /\ i = Len(rest) + 1
          /\ \/ j + 1 \in DOMAIN saves /\ saves'[j] = saves[j + 1]
             \/ saves'[j].by = n /\ n # 0 /\ j = Len(rest) + 1
      BY <1>5, <1>7
    <3>4. CASE i + 1 \in DOMAIN saves /\ saves'[i] = saves[i + 1]
      <4>1. i + 1 # 1 /\ j + 1 # 1
        BY <3>1
      <4>2. j + 1 \in DOMAIN saves /\ saves'[j] = saves[j + 1]
        BY <2>8, <3>2, <3>3, <3>4, <4>1
      <4>3. i + 1 = j + 1
        BY <2>1, <2>8, <3>4, <4>2
      <4> QED
        BY <3>1, <4>3
    <3>5. CASE j + 1 \in DOMAIN saves /\ saves'[j] = saves[j + 1]
      <4>1. i + 1 # 1 /\ j + 1 # 1
        BY <3>1
      <4>2. i + 1 \in DOMAIN saves /\ saves'[i] = saves[i + 1]
        BY <2>8, <3>2, <3>3, <3>5, <4>1
      <4> QED
        BY <3>4, <4>2
    <3> QED
      BY <3>3, <3>4, <3>5
  <2>9. saves' # << >> => saves'[Len(saves')].data = cache
    BY <1>5, <1>7, <2>1, <2>2
  <2>10. saves' = << >> /\ ~pending' => Saved'
    BY <1>2, <1>7, <2>1 DEF Saved, h
  <2> QED
    BY <2>1, <2>4, <2>6, <2>7, <2>8, <2>9, <2>10 DEF SavesInv
<1> QED
  BY <1>9, <1>10, <1>12, <1>13 DEF IInv

\* The end of a save that worked, and of one that did not.
LEMMA SaveEndsKeep ==
    ASSUME IInv, SaveWrite \/ SaveError
    PROVE  IInv'
<1> DEFINE h == Head(saves)
<1>1. TypeInv
  BY DEF IInv
<1>2. /\ saves # << >> /\ ResetGoesOn(h.by, Tail(saves), h.data)
      /\ UNCHANGED <<ready, autoTimer, cache, debounce, got, ids, newest>>
  BY DEF SaveWrite, SaveError, bounds
<1>3. h \in SaveType /\ h.data \in State /\ h.row \in Nat /\ h.row <= Len(rows)
      /\ rows \in Seq(State)
  <2>1. h = saves[1] /\ 1 \in DOMAIN saves
    BY <1>1, <1>2 DEF TypeInv
  <2>2. h \in SaveType /\ h.row <= Len(rows) /\ rows \in Seq(State)
    BY <1>1, <2>1 DEF TypeInv
  <2> QED
    BY <2>2 DEF SaveType
<1>4. CASE SaveWrite
  <2>1. pending' = FALSE /\ rows' = IF h.row = 0 THEN Append(rows, h.data)
                                                 ELSE [rows EXCEPT ![h.row] = h.data]
    BY <1>4 DEF SaveWrite, WriteRow
  <2> HIDE DEF h
  <2>2. /\ rows' \in Seq(State) /\ Len(rows) <= Len(rows')
        /\ \A i \in DOMAIN rows' : rows'[i] = h.data \/ (i \in DOMAIN rows /\ rows'[i] = rows[i])
        /\ \E i \in DOMAIN rows' : rows'[i] = h.data
    <3>1. CASE h.row = 0
      <4>1. rows' = Append(rows, h.data)
        BY <2>1, <3>1
      <4>2. /\ rows' \in Seq(State) /\ Len(rows') = Len(rows) + 1 /\ Len(rows) \in Nat
            /\ DOMAIN rows' = 1..(Len(rows) + 1) /\ DOMAIN rows = 1..Len(rows)
            /\ rows'[Len(rows) + 1] = h.data
            /\ \A i \in 1..Len(rows) : rows'[i] = rows[i]
        BY <1>3, <4>1
      <4>3. Len(rows) + 1 \in DOMAIN rows'
        BY <4>2
      <4> QED
        BY <4>2, <4>3
    <3>2. CASE h.row # 0
      <4>1. rows' = [rows EXCEPT ![h.row] = h.data] /\ h.row \in DOMAIN rows
        BY <1>3, <2>1, <3>2
      <4>2. /\ rows' \in Seq(State) /\ Len(rows') = Len(rows) /\ DOMAIN rows' = DOMAIN rows
            /\ rows'[h.row] = h.data
            /\ \A i \in DOMAIN rows : i # h.row => rows'[i] = rows[i]
        BY <1>3, <4>1
      <4>3. Len(rows) \in Nat
        BY <1>3
      <4> QED
        BY <4>1, <4>2, <4>3
    <3> QED
      BY <3>1, <3>2
  <2> QED
    BY <1>2, <2>1, <2>2, EndOfSave DEF h
<1>5. CASE SaveError
  <2>1. pending' = TRUE /\ rows' = rows
    BY <1>5 DEF SaveError
  <2>2. Len(rows) <= Len(rows') /\ \A i \in DOMAIN rows' : rows'[i] = rows[i] /\ i \in DOMAIN rows
    BY <1>3, <2>1
  <2> QED
    BY <1>2, <1>3, <2>1, <2>2, EndOfSave
<1> QED
  BY <1>4, <1>5

-----------------------------------------------------------------------------
(* The theorems.                                                           *)

\* It holds at first.
LEMMA InitIInv ==
    ASSUME Init
    PROVE  IInv
<1>1. conn = Fresh({}) /\ reset = [n \in 1..MaxResets |-> "none"]
  <2>1. conn = NewConnector
    BY DEF Init
  <2>2. NewConnector = Fresh({})
    <3> DEFINE K == [s \in Socket |-> Closed]
               E == {}
    <3>1. ASSUME NEW F, NEW c, c = Fresh(F)
          PROVE  c = [sock |-> K, cur |-> None, leaving |-> FALSE, timer |-> FALSE,
                      attempts |-> 0, awaited |-> E, flaws |-> F]
      BY <3>1 DEF Fresh, NewConnector
    <3>2. NewConnector = [sock |-> K, cur |-> None, leaving |-> FALSE, timer |-> FALSE,
                          attempts |-> 0, awaited |-> E, flaws |-> E]
      BY DEF NewConnector
    <3>3. E = {}
      OBVIOUS
    <3> HIDE DEF K, E
    <3> QED
      BY <3>1, <3>2, <3>3
  <2> QED
    BY <2>1, <2>2 DEF Init
<1>2. Sound(conn) /\ conn.flaws = {} /\ Live(conn) = {}
      /\ \A t \in Socket : Who(conn, t) = Nobody
  BY <1>1, FreshSound
<1>3. ~Resetting
  BY <1>1 DEF Resetting
<1>4. cache \in State /\ params \in State /\ cache.lsn = 0 /\ params.lsn = 0
  BY DEF Init, State
<1>5. TypeInv
  <2>1. reset \in [1..MaxResets -> {"none", "flush", "save", "done"}]
    BY <1>1
  <2>2. saves = << >> /\ rows = << >>
    BY DEF Init
  <2>3. /\ rows \in Seq(State) /\ saves \in Seq(SaveType)
        /\ \A i \in DOMAIN saves : saves[i].row <= Len(rows)
    BY <2>2
  <2>4. {ready, autoTimer, pending, debounce} \subseteq BOOLEAN /\ ids \in Nat /\ newest \in Nat
    BY DEF Init
  <2> QED
    BY <1>2, <1>4, <2>1, <2>3, <2>4 DEF TypeInv
<1>6. FreshInv
  BY <1>1, <1>2, <1>3 DEF Init, FreshInv
<1>7. ClaimsInv
  BY <1>2, <1>4 DEF Init, ClaimsInv, Known, Nobody
<1>8. SavesInv
  BY DEF Init, SavesInv
<1> QED
  BY <1>5, <1>6, <1>7, <1>8 DEF IInv

\* And every step keeps it.
LEMMA NextIInv ==
    ASSUME IInv, [Next]_vars
    PROVE  IInv'
<1>1. CASE ConnectorStep
  BY <1>1, ConnectorStepKeeps
<1>2. CASE UNCHANGED vars
  <2>1. UNCHANGED stateVars /\ conn' = conn /\ autoTimer' = autoTimer
    BY <1>2 DEF vars, stateVars, saveVars, bounds
  <2>2. Sound(conn) /\ autoTimer \in BOOLEAN
    BY DEF IInv, TypeInv
  <2> QED
    BY <2>1, <2>2, NoMove, ConnectorKeeps
<1>3. CASE \E n \in 1..MaxResets : ResetLSN(n)
  BY <1>3, ResetLSNKeeps
<1>4. CASE \E s \in Socket : HandleLSNUpdate(s) \/ HandleStateChange(s)
  BY <1>4, HandleLSNUpdateKeeps, HandleStateChangeKeeps
<1> QED
  BY <1>1, <1>2, <1>3, <1>4, InitializeKeeps, RestartKeeps, SaveFindKeeps, SaveEndsKeep,
     DebouncedKeeps DEF Next, ConnectorStep

\* The invariant.
LEMMA Invariant == Spec => []IInv
<1>1. Init => IInv
  BY InitIInv
<1>2. IInv /\ [Next]_vars => IInv'
  BY NextIInv
<1> QED
  BY <1>1, <1>2, PTL DEF Spec

\* As long as no connect overlaps another, every socket whose messages are handled
\* is the one on which the connector sends (WebSocketConnector.ts).
THEOREM OneSocket == Spec => []NoStraySocket
<1>1. IInv => NoStraySocket
  BY DEF IInv, TypeInv, Sound, NoStraySocket
<1> QED
  BY <1>1, Invariant, PTL

\* Whatever breaks, restarts and resets, no LSN is cached, saved or asked with under
\* the id of a client that has not received it - unless one of the two flaws that
\* mix clients has occurred (SyncManager.ts, SyncStatePersister.ts).
THEOREM NoForeignLsn == Spec => []LsnOfItsClient
<1>1. IInv => LsnOfItsClient
  BY DEF IInv, ClaimsInv, Known, Who, LsnOfItsClient
<1> QED
  BY <1>1, Invariant, PTL

\* Once nothing is left to be saved, a restart loads the id and LSN that the client
\* has: failing saves, the debounce timer, flushes and one reset at a time leave
\* none behind (SyncStatePersister.ts).
THEOREM NothingUnsaved == Spec => []SavedIsCurrent
<1>1. IInv => SavedIsCurrent
  BY DEF IInv, SavesInv, Saved, SavedIsCurrent
<1> QED
  BY <1>1, Invariant, PTL

-----------------------------------------------------------------------------
(* Types.                                                                  *)

\* What a connector is made of.
Sock == [st : {"none", "connecting", "open", "leaving"}, id : Nat, lsn : Nat]
Flaw == {"overlap", "reset", "twice", "gaveUp"}
Connector == [sock : [Socket -> Sock], cur : Socket \cup {None}, leaving : BOOLEAN,
              timer : BOOLEAN, attempts : 0..MaxAttempts, awaited : SUBSET Socket,
              flaws : SUBSET Flaw]

\* What TypeOK says of a connector.
Typed(c) ==
    /\ c \in Connector
    /\ c.cur # None => c.sock[c.cur].st \in {"connecting", "open"} /\ ~c.leaving
    /\ \A s \in c.awaited : c.sock[s].st = "leaving"

\* A new socket finds a place: with none free there is no telling which one
\* Opening takes.
Free(c) == \E s \in Socket : c.sock[s].st = "none"
SocketFree == Free(conn)

\* A record of such fields is a typed connector.
LEMMA TypedBuilt ==
    ASSUME NEW S \in [Socket -> Sock], NEW k \in Socket \cup {None}, NEW l \in BOOLEAN,
           NEW t \in BOOLEAN, NEW n \in 0..MaxAttempts, NEW A \in SUBSET Socket,
           NEW F \in SUBSET Flaw,
           k # None => S[k].st \in {"connecting", "open"} /\ ~l,
           \A s \in A : S[s].st = "leaving",
           NEW d, d = [sock |-> S, cur |-> k, leaving |-> l, timer |-> t, attempts |-> n,
                       awaited |-> A, flaws |-> F]
    PROVE  Typed(d)
<1>1. /\ d.sock = S /\ d.cur = k /\ d.leaving = l /\ d.timer = t /\ d.attempts = n
      /\ d.awaited = A /\ d.flaws = F
  OBVIOUS
<1>2. d \in Connector
  BY DEF Connector
<1> QED
  BY <1>1, <1>2 DEF Typed

\* The fields of a connector.
LEMMA TypedParts ==
    ASSUME NEW c, Typed(c)
    PROVE  /\ c.sock \in [Socket -> Sock] /\ c.cur \in Socket \cup {None} /\ c.leaving \in BOOLEAN
           /\ c.timer \in BOOLEAN /\ c.attempts \in 0..MaxAttempts /\ c.awaited \in SUBSET Socket
           /\ c.flaws \in SUBSET Flaw
           /\ c.cur # None => c.sock[c.cur].st \in {"connecting", "open"} /\ ~c.leaving
           /\ \A s \in c.awaited : c.sock[s].st = "leaving"
           /\ c = [sock |-> c.sock, cur |-> c.cur, leaving |-> c.leaving, timer |-> c.timer,
                   attempts |-> c.attempts, awaited |-> c.awaited, flaws |-> c.flaws]
  BY DEF Typed, Connector

\* A new socket becomes the current one, in the place of a free one.
LEMMA OpeningTypes ==
    ASSUME NEW c, Typed(c), Free(c), NEW p \in State
    PROVE  Typed(Opening(c, p))
<1> DEFINE s == CHOOSE t \in Socket : c.sock[t].st = "none"
           new == [st |-> "connecting", id |-> p.id, lsn |-> p.lsn]
           F == (c.flaws \ {"gaveUp"})
                  \cup (IF Live(c) # {} THEN {"overlap"} ELSE {})
                  \cup (IF Resetting /\ p = params THEN {"reset"} ELSE {})
           d == Opening(c, p)
           S == [c.sock EXCEPT ![s] = new]
<1>1. s \in Socket /\ c.sock[s].st = "none"
  BY DEF Free
<1>2. d = [c EXCEPT !.sock[s] = new, !.cur = s, !.leaving = FALSE, !.flaws = F]
  BY DEF Opening
<1>3. new \in Sock /\ new.st = "connecting"
  BY DEF State, Sock
<1>4. F \in SUBSET Flaw
  BY TypedParts DEF Flaw
<1> HIDE DEF s, new, F, d
<1>5. d = [sock |-> S, cur |-> s, leaving |-> FALSE, timer |-> c.timer, attempts |-> c.attempts,
           awaited |-> c.awaited, flaws |-> F]
  <2>1. d = [c EXCEPT !.sock = S, !.cur = s, !.leaving = FALSE, !.flaws = F]
    BY <1>2
  <2> HIDE DEF S
  <2> QED
    BY <2>1 DEF Typed, Connector
<1>6. S \in [Socket -> Sock] /\ S[s] = new /\ \A t \in Socket \ {s} : S[t] = c.sock[t]
  BY <1>1, <1>3, TypedParts
<1> HIDE DEF S
<1>7. \A t \in c.awaited : S[t].st = "leaving"
  BY <1>1, <1>6, TypedParts
<1>8. S[s].st \in {"connecting", "open"} /\ s \in Socket \cup {None}
  BY <1>1, <1>3, <1>6
<1>9. FALSE \in BOOLEAN /\ c.timer \in BOOLEAN /\ c.attempts \in 0..MaxAttempts /\ c.awaited \in SUBSET Socket
  BY TypedParts
<1>10. Typed(d)
  BY <1>4, <1>5, <1>6, <1>7, <1>8, <1>9, TypedBuilt
<1> QED
  BY <1>10 DEF d

\* The current socket, if there is one, is being closed afterwards.
LEMMA DisconnectingTypes ==
    ASSUME NEW c, Typed(c)
    PROVE  /\ Typed(Disconnecting(c))
           /\ c.cur # None => Disconnecting(c).sock[c.cur].st = "leaving"
<1> DEFINE d == Disconnecting(c)
<1>1. CASE c.leaving
  BY <1>1, TypedParts DEF Disconnecting
<1>2. CASE ~c.leaving /\ c.cur = None
  <2>1. d = [c EXCEPT !.timer = FALSE]
    BY <1>2 DEF Disconnecting
  <2> HIDE DEF d
  <2>2. d = [sock |-> c.sock, cur |-> c.cur, leaving |-> c.leaving, timer |-> FALSE,
             attempts |-> c.attempts, awaited |-> c.awaited, flaws |-> c.flaws]
    BY <2>1 DEF Typed, Connector
  <2>3. Typed(d)
    BY <2>2, TypedParts, TypedBuilt
  <2> QED
    BY <1>2, <2>3 DEF d
<1>3. CASE ~c.leaving /\ c.cur # None
  <2> DEFINE k == c.cur
             r == [c.sock[k] EXCEPT !.st = "leaving"]
             S == [c.sock EXCEPT ![k] = r]
  <2>1. d = [c EXCEPT !.timer = FALSE, !.leaving = TRUE, !.cur = None, !.sock[k].st = "leaving"]
    BY <1>3 DEF Disconnecting
  <2>2. k \in Socket /\ c.sock[k] \in Sock
    BY <1>3, TypedParts
  <2>3. r \in Sock /\ r.st = "leaving"
    <3> HIDE DEF k
    <3> QED
      BY <2>2 DEF Sock
  <2>4. d = [c EXCEPT !.timer = FALSE, !.leaving = TRUE, !.cur = None, !.sock = S]
    BY <2>1
  <2> HIDE DEF d, S, r
  <2>5. d = [sock |-> S, cur |-> None, leaving |-> TRUE, timer |-> FALSE,
             attempts |-> c.attempts, awaited |-> c.awaited, flaws |-> c.flaws]
    BY <2>4 DEF Typed, Connector
  <2> HIDE DEF k
  <2>6. S \in [Socket -> Sock] /\ S[k] = r /\ \A t \in Socket \ {k} : S[t] = c.sock[t]
    BY <2>2, <2>3, TypedParts DEF S
  <2>7. \A t \in c.awaited : S[t].st = "leaving"
    BY <2>3, <2>6, TypedParts
  <2>8. /\ TRUE \in BOOLEAN /\ FALSE \in BOOLEAN /\ None \in Socket \cup {None}
        /\ c.attempts \in 0..MaxAttempts /\ c.awaited \in SUBSET Socket /\ c.flaws \in SUBSET Flaw
    BY TypedParts
  <2>9. Typed(d)
    BY <2>5, <2>6, <2>7, <2>8, TypedBuilt
  <2>10. d.sock[c.cur].st = "leaving"
    BY <2>3, <2>5, <2>6 DEF k
  <2> QED
    BY <2>9, <2>10 DEF d
<1> QED
  BY <1>1, <1>2, <1>3

\* connect waits only for a socket that it has just begun to close.
LEMMA ConnectingTypes ==
    ASSUME NEW c, Typed(c), Free(c), NEW p \in State
    PROVE  Typed(Connecting(c, p))
<1>1. CASE ~IsConnected(c)
  BY <1>1, OpeningTypes DEF Connecting
<1>2. CASE IsConnected(c)
  <2> DEFINE e == Disconnecting(c)
             A == e.awaited \cup {c.cur}
             d == [e EXCEPT !.awaited = A]
  <2>1. Typed(e) /\ c.cur \in Socket /\ e.sock[c.cur].st = "leaving"
    BY <1>2, DisconnectingTypes, TypedParts DEF IsConnected
  <2> HIDE DEF e
  <2>2. d = [sock |-> e.sock, cur |-> e.cur, leaving |-> e.leaving, timer |-> e.timer,
             attempts |-> e.attempts, awaited |-> A, flaws |-> e.flaws]
    <3> HIDE DEF A
    <3> QED
      BY <2>1, TypedParts
  <2> HIDE DEF d
  <2>3. A \in SUBSET Socket /\ \A t \in A : e.sock[t].st = "leaving"
    BY <2>1, TypedParts
  <2> HIDE DEF A
  <2>4. Typed(d)
    BY <2>1, <2>2, <2>3, TypedParts, TypedBuilt
  <2> QED
    BY <1>2, <2>4 DEF Connecting, d, e, A
<1> QED
  BY <1>1, <1>2

\* A socket that is not awaited, or no longer, is gone.
LEMMA ClosedTypes ==
    ASSUME NEW c, Typed(c), NEW s \in Socket, NEW A \in SUBSET c.awaited, s \notin A,
           NEW k \in {c.cur, None}, k # s, NEW l \in BOOLEAN, l => c.leaving,
           NEW S, S = [c.sock EXCEPT ![s] = Closed], NEW d,
           d = [sock |-> S, cur |-> k, leaving |-> l, timer |-> c.timer,
                attempts |-> c.attempts, awaited |-> A, flaws |-> c.flaws]
    PROVE  Typed(d) /\ Free(d)
<1>1. Closed \in Sock /\ Closed.st = "none"
  BY DEF Closed, Sock
<1>2. S \in [Socket -> Sock] /\ S[s] = Closed /\ \A t \in Socket \ {s} : S[t] = c.sock[t]
  BY <1>1, TypedParts
<1>3. A \in SUBSET Socket /\ \A t \in A : S[t].st = "leaving"
  BY <1>2, TypedParts
<1>4. k \in Socket \cup {None} /\ (k # None => S[k].st \in {"connecting", "open"} /\ ~l)
  BY <1>2, TypedParts
<1>5. c.timer \in BOOLEAN /\ c.attempts \in 0..MaxAttempts /\ c.flaws \in SUBSET Flaw
  BY TypedParts
<1>6. Typed(d)
  BY <1>2, <1>3, <1>4, <1>5, TypedBuilt
<1>7. Free(d)
  BY <1>1, <1>2 DEF Free
<1> QED
  BY <1>6, <1>7

\* Attempts are counted up to their maximum.
LEMMA RetryingTypes ==
    ASSUME NEW c, Typed(c)
    PROVE  Typed(Retrying(c))
<1> DEFINE d == Retrying(c)
<1>1. \/ d = c
      \/ c.attempts < MaxAttempts /\ d = [c EXCEPT !.attempts = @ + 1, !.timer = TRUE]
      \/ d = [c EXCEPT !.flaws = @ \cup {"gaveUp"}]
  BY DEF Retrying
<1> HIDE DEF d
<1>2. CASE d = c
  BY <1>2 DEF d
<1>3. CASE c.attempts < MaxAttempts /\ d = [c EXCEPT !.attempts = @ + 1, !.timer = TRUE]
  <2>1. d = [sock |-> c.sock, cur |-> c.cur, leaving |-> c.leaving, timer |-> TRUE,
             attempts |-> c.attempts + 1, awaited |-> c.awaited, flaws |-> c.flaws]
    BY <1>3 DEF Typed, Connector
  <2>2. c.attempts + 1 \in 0..MaxAttempts
    BY <1>3, TypedParts, BoundsNat
  <2>3. Typed(d)
    BY <2>1, <2>2, TypedParts, TypedBuilt
  <2> QED
    BY <2>3 DEF d
<1>4. CASE d = [c EXCEPT !.flaws = @ \cup {"gaveUp"}]
  <2>1. d = [sock |-> c.sock, cur |-> c.cur, leaving |-> c.leaving, timer |-> c.timer,
             attempts |-> c.attempts, awaited |-> c.awaited, flaws |-> c.flaws \cup {"gaveUp"}]
    BY <1>4 DEF Typed, Connector
  <2>2. c.flaws \cup {"gaveUp"} \in SUBSET Flaw
    BY TypedParts DEF Flaw
  <2>3. Typed(d)
    BY <2>1, <2>2, TypedParts, TypedBuilt
  <2> QED
    BY <2>3 DEF d
<1> QED
  BY <1>1, <1>2, <1>3, <1>4

\* handleClose and what follows it.
LEMMA LostTypes ==
    ASSUME NEW c, Typed(c), NEW s \in Live(c)
    PROVE  Typed(Lost(c, s))
<1> DEFINE S == [c.sock EXCEPT ![s] = Closed]
           d == [c EXCEPT !.sock[s] = Closed]
           e == [d EXCEPT !.cur = None]
<1>1. s \in Socket /\ s \notin c.awaited /\ (c.leaving => c.cur = None) /\ s # None
  BY TypedParts DEF Live, Socket, None
<1>2. /\ d = [sock |-> S, cur |-> c.cur, leaving |-> c.leaving, timer |-> c.timer,
              attempts |-> c.attempts, awaited |-> c.awaited, flaws |-> c.flaws]
  <2>1. d = [c EXCEPT !.sock = S]
    OBVIOUS
  <2> HIDE DEF S, d
  <2> QED
    BY <2>1, TypedParts
<1>3. e = [sock |-> S, cur |-> None, leaving |-> c.leaving, timer |-> c.timer,
           attempts |-> c.attempts, awaited |-> c.awaited, flaws |-> c.flaws]
  <2> HIDE DEF S, d
  <2> QED
    BY <1>2
<1>4. Lost(c, s) = IF c.leaving THEN d ELSE Retrying(e)
  BY DEF Lost
<1> HIDE DEF d, e
<1>5. c.leaving \in BOOLEAN /\ c.awaited \in SUBSET c.awaited
  BY TypedParts
<1>6. c.leaving => Typed(d)
  BY <1>1, <1>2, <1>5, ClosedTypes
<1>7. Typed(e)
  BY <1>1, <1>3, <1>5, ClosedTypes
<1> QED
  BY <1>4, <1>6, <1>7, RetryingTypes

\* The end of disconnect leaves a free socket to a connect that waited for it.
LEMMA LeftTypes ==
    ASSUME NEW c, Typed(c), NEW s \in Socket, c.sock[s].st = "leaving", params \in State
    PROVE  Typed(Left(c, s))
<1> DEFINE S == [c.sock EXCEPT ![s] = Closed]
           A == c.awaited \ {s}
           d == [c EXCEPT !.sock[s] = Closed, !.leaving = FALSE, !.awaited = A]
<1>1. c.cur # s
  BY TypedParts DEF Socket, None
<1>2. d = [sock |-> S, cur |-> c.cur, leaving |-> FALSE, timer |-> c.timer,
           attempts |-> c.attempts, awaited |-> A, flaws |-> c.flaws]
  <2>1. d = [c EXCEPT !.sock = S, !.leaving = FALSE, !.awaited = A]
    OBVIOUS
  <2> HIDE DEF S, A, d
  <2> QED
    BY <2>1 DEF Typed, Connector
<1>3. Left(c, s) = IF s \in c.awaited THEN Opening(d, params) ELSE d
  BY DEF Left
<1> HIDE DEF d
<1>4. A \in SUBSET c.awaited /\ s \notin A /\ FALSE \in BOOLEAN
  OBVIOUS
<1> HIDE DEF A
<1>5. Typed(d) /\ Free(d)
  BY <1>1, <1>2, <1>4, ClosedTypes
<1> QED
  BY <1>3, <1>5, OpeningTypes

\* The rest of the types.
OtherTypes ==
    /\ {auto, online, stay} \subseteq BOOLEAN
    /\ got \subseteq State /\ {acts, faults, restarts} \subseteq Nat

\* An open or a failing socket, and fields that have nothing to do with them.
LEMMA HandledTypes ==
    ASSUME Typed(conn), params \in State, SocketFree,
           \E s \in Socket : HandleOpen(s) \/ HandleClose(s) \/ DisconnectDone(s)
    PROVE  Typed(conn')
<1>1. PICK s \in Socket : HandleOpen(s) \/ HandleClose(s) \/ DisconnectDone(s)
  OBVIOUS
<1>2. CASE HandleOpen(s)
  <2> DEFINE r == [conn.sock[s] EXCEPT !.st = "open"]
             S == [conn.sock EXCEPT ![s] = r]
  <2>1. conn.sock[s].st = "connecting"
    BY <1>2 DEF HandleOpen
  <2>2. conn' = [conn EXCEPT !.sock = S, !.attempts = 0]
    BY <1>2 DEF HandleOpen
  <2>3. conn.sock[s] \in Sock
    BY TypedParts
  <2>4. r \in Sock /\ r.st = "open"
    BY <2>3 DEF Sock
  <2> HIDE DEF r
  <2>5. S \in [Socket -> Sock] /\ S[s] = r /\ \A t \in Socket \ {s} : S[t] = conn.sock[t]
    BY <2>4, TypedParts
  <2> HIDE DEF S
  <2>6. conn' = [sock |-> S, cur |-> conn.cur, leaving |-> conn.leaving, timer |-> conn.timer,
                 attempts |-> 0, awaited |-> conn.awaited, flaws |-> conn.flaws]
    BY <2>2 DEF Typed, Connector
  <2>7. conn.cur # None => S[conn.cur].st \in {"connecting", "open"} /\ ~conn.leaving
    BY <2>4, <2>5, TypedParts
  <2>8. s \notin conn.awaited /\ \A t \in conn.awaited : S[t].st = "leaving"
    BY <2>1, <2>5, TypedParts
  <2>9. 0 \in 0..MaxAttempts
    BY BoundsNat
  <2> QED
    BY <2>5, <2>6, <2>7, <2>8, <2>9, TypedParts, TypedBuilt
<1>3. CASE HandleClose(s)
  <2>1. s \in Live(conn) /\ conn' = Lost(conn, s)
    BY <1>3 DEF HandleClose, Live
  <2> QED
    BY <2>1, LostTypes
<1>4. CASE DisconnectDone(s)
  <2>1. conn.sock[s].st = "leaving" /\ conn' = Left(conn, s)
    BY <1>4 DEF DisconnectDone
  <2> QED
    BY <2>1, LeftTypes
<1> QED
  BY <1>1, <1>2, <1>3, <1>4

\* A timer or an attempt that starts anew.
LEMMA TimerTypes ==
    ASSUME NEW c, Typed(c), NEW n \in 0..MaxAttempts, NEW F \in SUBSET Flaw, NEW t \in BOOLEAN,
           NEW d, d = [sock |-> c.sock, cur |-> c.cur, leaving |-> c.leaving, timer |-> t,
                       attempts |-> n, awaited |-> c.awaited, flaws |-> F]
    PROVE  Typed(d) /\ (Free(c) => Free(d))
<1>1. Typed(d)
  BY TypedParts, TypedBuilt
<1> QED
  BY <1>1 DEF Free

\* The reconnect timer is cleared, and the attempts may start anew.
LEMMA RestartedTypes ==
    ASSUME NEW c, Typed(c), Free(c), NEW d,
           d \in {[c EXCEPT !.timer = FALSE], [c EXCEPT !.attempts = 0, !.timer = FALSE]}
    PROVE  Typed(d) /\ Free(d)
<1>1. PICK n \in {0, c.attempts} :
        d = [sock |-> c.sock, cur |-> c.cur, leaving |-> c.leaving, timer |-> FALSE,
             attempts |-> n, awaited |-> c.awaited, flaws |-> c.flaws]
  <2>1. CASE d = [c EXCEPT !.timer = FALSE]
    <3>1. d = [sock |-> c.sock, cur |-> c.cur, leaving |-> c.leaving, timer |-> FALSE,
               attempts |-> c.attempts, awaited |-> c.awaited, flaws |-> c.flaws]
      BY <2>1 DEF Typed, Connector
    <3> QED
      BY <3>1
  <2>2. CASE d = [c EXCEPT !.attempts = 0, !.timer = FALSE]
    <3>1. d = [sock |-> c.sock, cur |-> c.cur, leaving |-> c.leaving, timer |-> FALSE,
               attempts |-> 0, awaited |-> c.awaited, flaws |-> c.flaws]
      BY <2>2 DEF Typed, Connector
    <3> QED
      BY <3>1
  <2> QED
    BY <2>1, <2>2
<1>2. n \in 0..MaxAttempts /\ FALSE \in BOOLEAN
  BY TypedParts, BoundsNat
<1>3. Typed(d)
  BY <1>1, <1>2, TypedParts, TypedBuilt
<1>4. d.sock = c.sock
  BY <1>1
<1> QED
  BY <1>3, <1>4 DEF Free

\* The connector keeps its types as long as a new socket finds a place.
LEMMA ConnectorTypes ==
    ASSUME IInv, IInv', Typed(conn), OtherTypes, SocketFree, [Next]_vars
    PROVE  Typed(conn')
<1>1. /\ params \in State /\ cache \in State /\ cache' \in State /\ Free(conn)
      /\ 0 \in 0..MaxAttempts /\ conn.attempts \in 0..MaxAttempts
      /\ conn.flaws \in SUBSET Flaw /\ conn.timer \in BOOLEAN
  BY BoundsNat, TypedParts DEF IInv, TypeInv, SocketFree
<1>2. Typed(Opening(conn, params)) /\ Typed(Opening(conn, cache'))
  BY <1>1, OpeningTypes
<1>3. Typed(Connecting(conn, params)) /\ Typed(Connecting(conn, cache))
  BY <1>1, ConnectingTypes
<1>4. Typed(Disconnecting(conn))
  BY DisconnectingTypes
<1>5. CASE conn' = conn
  BY <1>5
<1>6. CASE Initialize \/ AutoConnect \/ User
  <2>1. conn' \in {conn, Opening(conn, cache'), Opening(conn, params), Connecting(conn, params),
                   Disconnecting(conn)}
    BY <1>6 DEF Initialize, AutoConnect, User
  <2> QED
    BY <1>2, <1>3, <1>4, <2>1
<1>7. CASE Restart
  <2> DEFINE S == [s \in Socket |-> Closed]
  <2>1. conn' = [NewConnector EXCEPT !.flaws = conn.flaws]
    BY <1>7 DEF Restart
  <2>2. Closed \in Sock
    BY DEF Closed, Sock
  <2>3. conn' = [sock |-> S, cur |-> None, leaving |-> FALSE, timer |-> FALSE, attempts |-> 0,
                 awaited |-> {}, flaws |-> conn.flaws]
    <3>1. ASSUME NEW F, NEW d, NEW K, K = S, d = [NewConnector EXCEPT !.flaws = F]
          PROVE  d = [sock |-> K, cur |-> None, leaving |-> FALSE, timer |-> FALSE,
                      attempts |-> 0, awaited |-> {}, flaws |-> F]
      BY <3>1 DEF NewConnector
    <3> HIDE DEF S
    <3> QED
      BY <2>1, <3>1
  <2>4. S \in [Socket -> Sock]
    BY <2>2
  <2> HIDE DEF S
  <2>5. /\ None \in Socket \cup {None} /\ FALSE \in BOOLEAN /\ {} \in SUBSET Socket
        /\ \A s \in {} : S[s].st = "leaving"
    OBVIOUS
  <2> QED
    BY <1>1, <2>3, <2>4, <2>5, TypedBuilt
<1>8. CASE \E n \in 1..MaxResets : ResetLSN(n)
  <2> DEFINE c == IF conn.cur # None THEN Disconnecting(conn) ELSE conn
             F == c.flaws \cup (IF Resetting THEN {"twice"} ELSE {})
  <2>1. conn' = [c EXCEPT !.flaws = F]
    BY <1>8 DEF ResetLSN
  <2>2. Typed(c)
    BY <1>4
  <2> HIDE DEF c
  <2>3. /\ F \in SUBSET Flaw /\ c.attempts \in 0..MaxAttempts /\ c.timer \in BOOLEAN
    BY <2>2, TypedParts DEF Flaw
  <2> HIDE DEF F
  <2>4. conn' = [sock |-> c.sock, cur |-> c.cur, leaving |-> c.leaving, timer |-> c.timer,
                  attempts |-> c.attempts, awaited |-> c.awaited, flaws |-> F]
    BY <2>1, <2>2 DEF Typed, Connector
  <2> QED
    BY <2>2, <2>3, <2>4, TimerTypes
<1>9. CASE \E s \in Socket : HandleOpen(s) \/ HandleClose(s) \/ DisconnectDone(s)
  BY <1>1, <1>9, HandledTypes
<1>10. CASE ReconnectTimer
  <2>1. PICK d : d = [conn EXCEPT !.timer = FALSE] /\ conn' = Connecting(d, params)
    BY <1>10 DEF ReconnectTimer
  <2>2. Typed(d) /\ Free(d)
    BY <1>1, <2>1, RestartedTypes
  <2> QED
    BY <1>1, <2>1, <2>2, ConnectingTypes
<1>11. CASE HandleOffline
  <2>1. conn' = [conn EXCEPT !.timer = FALSE]
    BY <1>11 DEF HandleOffline
  <2> QED
    BY <1>1, <2>1, RestartedTypes
<1>12. CASE HandleOnline
  <2>1. PICK d : /\ d = [conn EXCEPT !.attempts = 0, !.timer = FALSE]
                 /\ conn' = conn \/ conn' = Opening(d, params)
    BY <1>12 DEF HandleOnline
  <2>2. Typed(d) /\ Free(d)
    BY <1>1, <2>1, RestartedTypes
  <2>3. Typed(Opening(d, params))
    BY <1>1, <2>2, OpeningTypes
  <2> QED
    BY <2>1, <2>3
<1>13. CASE SaveWrite \/ SaveError
  <2>1. conn' \in {conn, Connecting(conn, cache)}
    BY <1>13 DEF SaveWrite, SaveError, ResetGoesOn
  <2> QED
    BY <1>3, <2>1
<1>14. (\E s \in Socket : HandleLSNUpdate(s) \/ HandleStateChange(s)) \/ SaveFind \/ Debounced
          \/ UNCHANGED vars => conn' = conn
  BY DEF HandleLSNUpdate, HandleStateChange, SaveFind, Debounced, vars
<1> QED
  BY <1>5, <1>6, <1>7, <1>8, <1>9, <1>10, <1>11, <1>12, <1>13, <1>14 DEF Next

\* Switches and counters.
LEMMA OtherTypesKept ==
    ASSUME IInv, IInv', Typed(conn), OtherTypes, [Next]_vars
    PROVE  OtherTypes'
<1>1. /\ auto \in BOOLEAN /\ online \in BOOLEAN /\ stay \in BOOLEAN
      /\ acts \in Nat /\ faults \in Nat /\ restarts \in Nat
  BY DEF OtherTypes
<1>2. auto' \in BOOLEAN /\ online' \in BOOLEAN /\ stay' \in BOOLEAN
  BY <1>1 DEF Next, Initialize, AutoConnect, User, Restart, ResetLSN, HandleOpen, HandleClose,
     DisconnectDone, HandleLSNUpdate, HandleStateChange, ReconnectTimer, HandleOffline,
     HandleOnline, SaveFind, SaveWrite, SaveError, Debounced, connOnly, vars
<1>3. acts' \in Nat /\ faults' \in Nat /\ restarts' \in Nat
  <2>1. /\ acts' \in {acts, acts + 1} /\ faults' \in {faults, faults + 1}
        /\ restarts' \in {restarts, restarts + 1}
    BY DEF Next, Initialize, AutoConnect, User, Restart, ResetLSN, HandleOpen, HandleClose,
       DisconnectDone, HandleLSNUpdate, HandleStateChange, ReconnectTimer, HandleOffline,
       HandleOnline, SaveFind, SaveWrite, SaveError, Debounced, Fault, connOnly, bounds, vars
  <2> QED
    BY <1>1, <2>1
<1>4. got' \subseteq State
  <2>1. CASE \E s \in Socket : HandleLSNUpdate(s)
    <3>1. PICK s \in Socket : got' = got \cup {[id |-> conn.sock[s].id, lsn |-> newest']}
      BY <2>1 DEF HandleLSNUpdate
    <3>2. conn.sock[s].id \in Nat /\ newest' \in Nat
      BY TypedParts DEF Sock, IInv, TypeInv
    <3> QED
      BY <3>1, <3>2 DEF OtherTypes, State
  <2>2. CASE ~\E s \in Socket : HandleLSNUpdate(s)
    <3>1. got' = got
      BY <2>2 DEF Next, Initialize, AutoConnect, User, Restart, ResetLSN, HandleOpen, HandleClose,
         DisconnectDone, HandleStateChange, ReconnectTimer, HandleOffline,
         HandleOnline, SaveFind, SaveWrite, SaveError, Debounced, connOnly, vars
    <3> QED
      BY <3>1 DEF OtherTypes
  <2> QED
    BY <2>1, <2>2
<1> QED
  BY <1>2, <1>3, <1>4 DEF OtherTypes

\* At the start nothing is connected.
LEMMA InitOtherTypes == Init => Typed(conn) /\ OtherTypes
<1> SUFFICES ASSUME Init PROVE Typed(conn) /\ OtherTypes
  OBVIOUS
<1> DEFINE S == [s \in Socket |-> Closed]
<1>1. conn = [sock |-> S, cur |-> None, leaving |-> FALSE, timer |-> FALSE, attempts |-> 0,
              awaited |-> {}, flaws |-> {}]
  BY DEF Init, NewConnector
<1>2. Closed \in Sock
  BY DEF Closed, Sock
<1>3. S \in [Socket -> Sock]
  BY <1>2
<1> HIDE DEF S
<1>4. /\ None \in Socket \cup {None} /\ FALSE \in BOOLEAN /\ {} \in SUBSET Socket
      /\ {} \in SUBSET Flaw /\ 0 \in 0..MaxAttempts /\ \A s \in {} : S[s].st = "leaving"
  BY BoundsNat
<1>5. Typed(conn)
  BY <1>1, <1>3, <1>4, TypedBuilt
<1>6. OtherTypes
  BY DEF Init, OtherTypes
<1> QED
  BY <1>5, <1>6

\* Sockets, saved rows, saves and counters are of their types, a current socket is
\* alive and a connect waits only for one that is being closed, as long as MaxSockets
\* leaves room for a new socket (WebSocketConnector.ts, SyncStatePersister.ts).
THEOREM TypeCorrect == Spec /\ []SocketFree => []TypeOK
<1>1. Init => IInv
  BY InitIInv
<1>2. IInv /\ [Next]_vars => IInv'
  BY NextIInv
<1>3. IInv /\ Typed(conn) /\ OtherTypes /\ SocketFree /\ [Next]_vars
        => (IInv /\ Typed(conn) /\ OtherTypes)'
  BY <1>2, ConnectorTypes, OtherTypesKept
<1>4. IInv /\ Typed(conn) /\ OtherTypes => TypeOK
  BY DEF IInv, TypeInv, Typed, OtherTypes, TypeOK, Connector, Sock, Flaw, SaveType, Save
<1> QED
  BY <1>1, <1>3, <1>4, InitOtherTypes, PTL DEF Spec
=============================================================================
