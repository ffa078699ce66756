---------------------------- MODULE ServerChanges ----------------------------
(***************************************************************************)
(* Delivery of change_history to one client: catch-up sessions and live    *)
(* updates of SyncDO (apps/server/src/sync/server-changes.ts, SyncDO.ts)   *)
(* against the browser's SyncMessageHandler and IncomingChangeProcessor    *)
(* (apps/web/src/sync).  The feed is what module ChangeFeed promises: a    *)
(* row appears only together with every earlier one.                       *)
(*                                                                         *)
(* LSNs are commit numbers; 0 is where the initial sync left the client.   *)
(* Every connection starts a catch-up session that outlives its socket, so *)
(* sessions of several connections and several notifications interleave,   *)
(* all sharing one stored client LSN, one ack queue and the newest socket. *)
(* An operator named X_Y is X with a plausible defect.                     *)
(***************************************************************************)
EXTENDS Integers, Sequences, FiniteSets

CONSTANTS
    Parent, Child,  \* entity ids (numbers) of a referenced, a referencing table
    Session,        \* catch-up sessions that can run at the same time
    Notice,         \* new-changes requests that can run at the same time
    ChunkSize,      \* DEFAULT_CHUNK_SIZE
    BatchSize,      \* BATCH_SIZE of a catch-up query
    LiveLimit,      \* LIMIT of a live-update query
    MaxCommits,     \* bound: application transactions
    TxRows,         \* bound: rows one transaction writes
    MaxConnects,    \* bound: connections the client opens
    MaxFaults       \* bound: broken sockets, evictions, late acks, failing applies,
                    \* restarts of the client application

Entity == Parent \cup Child

ASSUME EntityNumbers == Entity \subseteq Nat /\ IsFiniteSet(Entity)
ASSUME SizesPositive == {ChunkSize, BatchSize, LiveLimit} \subseteq Nat \ {0}

VARIABLES
    history,    \* change_history: rows [lsn, id, op, own]
    noticed,    \* transactions SyncDO was notified of
    link,       \* a socket is open
    toClient, toServer,  \* messages under way on it
    clientLsn,  \* the browser's LSN, saved before the rows are applied
    urlLsn,     \* the LSN WebSocketConnector asks with, loaded at the app's start
    applying,   \* the rows IncomingChangeProcessor works on, or NoRows
    seen,       \* rows the browser has applied
    dropped,    \* rows it was given and never applied: it was busy, failed
                \* (both reported as sync_error) or restarted
    srvLsn,     \* client:<id>:lsn in SyncDO's storage
    acks,       \* messageQueue: how many acks of chunk n no wait has taken
    sess,       \* catch-up sessions
    notice,     \* new-changes requests
    connects, faults   \* bound counters

dbVars     == <<history, noticed>>
netVars    == <<link, toClient, toServer>>
clientVars == <<clientLsn, urlLsn, applying, seen, dropped>>
bounds     == <<connects, faults>>
vars == <<dbVars, netVars, clientVars, srvLsn, acks, sess, notice, bounds>>

NoRows == [n |-> 0, rows |-> {}, lsn |-> 0]
IdleSession == [pc |-> "idle", lsn |-> 0, todo |-> << >>, upto |-> 0,
                ok |-> TRUE, full |-> FALSE]
IdleNotice == [pc |-> "idle", lsn |-> 0, upto |-> 0]

\* A batch has at most as many chunks as rows.  Live chunks are not acked: they
\* and srv_live_start have number 0.
ChunkNumber == 1..BatchSize

Row == [lsn : Nat, id : Entity, op : {"write", "delete"}, own : BOOLEAN]
Chunk == [n : Nat, rows : SUBSET Row, lsn : Nat]

\* getLatestChangeHistoryLSN
ServerLSN == IF history = {} THEN 0
             ELSE CHOOSE l \in {r.lsn : r \in history} : \A r \in history : r.lsn <= l

-----------------------------------------------------------------------------
(* processRawChangesBatch: one change per entity, in table order, without  *)
(* the client's own.                                                       *)

\* Inserts and updates of referenced tables first, their deletes last.
DomainKey(r) ==
    IF r.op = "delete" THEN (IF r.id \in Parent THEN 3 ELSE 2)
                       ELSE (IF r.id \in Parent THEN 0 ELSE 1)

Latest(raw) == { r \in raw : \A q \in raw : q.id = r.id => q.lsn <= r.lsn }
Processed_KeepsOwn(raw) == Latest(raw)
Processed(raw) == { r \in Latest(raw) : ~r.own }

\* The sort is stable on the order in which the entities first occur.
FirstLSN(raw, id) == CHOOSE l \in {q.lsn : q \in raw} :
    /\ \E q \in raw : q.id = id /\ q.lsn = l
    /\ \A q \in raw : q.id = id => l <= q.lsn

Before(raw, a, b) ==
    LET fa == FirstLSN(raw, a.id)
        fb == FirstLSN(raw, b.id)
    IN  \/ DomainKey(a) < DomainKey(b)
        \/ DomainKey(a) = DomainKey(b) /\ (fa < fb \/ (fa = fb /\ a.id < b.id))

Chunks_ServerLSN(raw) ==
    LET rows == Processed(raw)
        Rank(r) == Cardinality({q \in rows : Before(raw, q, r)}) + 1
        Part(i) == {r \in rows : (i-1) * ChunkSize < Rank(r) /\ Rank(r) <= i * ChunkSize}
    IN  [i \in 1..((Cardinality(rows) + ChunkSize - 1) \div ChunkSize) |->
            [n |-> i, rows |-> Part(i), lsn |-> ServerLSN]]

\* Chunk i holds the rows of rank (i-1)*ChunkSize+1 to i*ChunkSize and carries
\* the LSN of its last row, which need not be its highest.
Chunks(raw) ==
    LET rows == Processed(raw)
        Rank(r) == Cardinality({q \in rows : Before(raw, q, r)}) + 1
        Part(i) == {r \in rows : (i-1) * ChunkSize < Rank(r) /\ Rank(r) <= i * ChunkSize}
        LastOf(S) == CHOOSE r \in S : \A q \in S : Rank(q) <= Rank(r)
    IN  [i \in 1..((Cardinality(rows) + ChunkSize - 1) \div ChunkSize) |->
            [n |-> i, rows |-> Part(i), lsn |-> LastOf(Part(i)).lsn]]

LSNAfter(raw) == Chunks(raw)[Len(Chunks(raw))].lsn

\* ORDER BY lsn LIMIT n: rows of equal LSN come in no particular order.
Limited(rows, n) ==
    { S \in SUBSET rows :
        /\ Cardinality(S) = (IF Cardinality(rows) <= n THEN Cardinality(rows) ELSE n)
        /\ \A r \in S, q \in rows \ S : r.lsn <= q.lsn }

FinalLSN(upto, raw) ==
    IF raw = {} THEN upto
    ELSE IF Processed(raw) = {} THEN CHOOSE l \in {r.lsn : r \in raw} : \A r \in raw : r.lsn <= l
    ELSE LSNAfter(raw)

CatchupRows(from) == { r \in history : r.lsn > from /\ ~r.own }
LiveRows(from, upto) == { r \in history : r.lsn > from /\ r.lsn <= upto }

Fault == faults < MaxFaults /\ faults' = faults + 1

TypeOK ==
    /\ history \subseteq Row /\ noticed \in Nat
    /\ link \in BOOLEAN
    /\ toClient \in Seq(Chunk)
    /\ toServer \in Seq([n : Nat, lsn : Nat])
    /\ clientLsn \in Nat /\ urlLsn \in Nat /\ applying \in Chunk
    /\ seen \subseteq Row /\ dropped \subseteq Row
    /\ srvLsn \in Nat
    /\ acks \in [ChunkNumber -> Nat]
    /\ sess \in [Session ->
          [pc : {"idle", "accepted", "query", "send", "await", "finish", "failed"},
           lsn : Nat, todo : Seq(Chunk), upto : Nat, ok : BOOLEAN, full : BOOLEAN]]
    /\ notice \in [Notice -> [pc : {"idle", "read"}, lsn : Nat, upto : Nat]]
    /\ connects \in Nat /\ faults \in Nat

Init ==
    /\ history = {} /\ noticed = 0
    /\ link = FALSE /\ toClient = << >> /\ toServer = << >>
    /\ clientLsn = 0 /\ urlLsn = 0 /\ applying = NoRows /\ seen = {} /\ dropped = {}
    /\ srvLsn = 0 /\ acks = [n \in ChunkNumber |-> 0]
    /\ sess = [s \in Session |-> IdleSession]
    /\ notice = [n \in Notice |-> IdleNotice]
    /\ connects = 0 /\ faults = 0

-----------------------------------------------------------------------------
(* The environment: other writers, and this client's own changes.          *)

\* A delete is stored with nothing but its id: no client_id says whose it was,
\* and the client is told of its own deletes.
Commit ==
    /\ ServerLSN < MaxCommits
    /\ \E ids \in (SUBSET Entity) \ {{}}, op \in {"write", "delete"}, own \in BOOLEAN :
          /\ Cardinality(ids) <= TxRows
          /\ own => op = "write"
          /\ \A i \in ids :
                /\ ~\E r \in history : r.id = i /\ r.op = "delete"
                /\ op = "delete" => \E r \in history : r.id = i
          /\ history' = history \cup
                { [lsn |-> ServerLSN + 1, id |-> i, op |-> op, own |-> own] : i \in ids }
    /\ UNCHANGED <<noticed, netVars, clientVars, srvLsn, acks, sess, notice, bounds>>

-----------------------------------------------------------------------------
(* SyncDO: a connection and its catch-up session.                          *)

\* handleWebSocketUpgrade accepts the socket; the sync starts 100 ms later, from
\* the LSN of the URL: a reconnect repeats the LSN the application started with.
Connect(s) ==
    /\ ~link /\ sess[s].pc = "idle"
    /\ connects < MaxConnects /\ connects' = connects + 1
    /\ link' = TRUE
    /\ sess' = [sess EXCEPT ![s] = [IdleSession EXCEPT !.pc = "accepted", !.lsn = urlLsn]]
    /\ UNCHANGED <<dbVars, toClient, toServer, clientVars, srvLsn, acks, notice,
                   faults>>

\* determineSyncStrategy stores the client's LSN; a client that is up to date
\* is told so with that LSN (srv_live_start), which fails without a socket.
DetermineSyncStrategy(s) ==
    /\ sess[s].pc = "accepted"
    /\ srvLsn' = sess[s].lsn
    /\ IF sess[s].lsn < ServerLSN
       THEN /\ sess' = [sess EXCEPT ![s].pc = "query"]
            /\ UNCHANGED toClient
       ELSE /\ sess' = [sess EXCEPT ![s] = IdleSession]
            /\ toClient' = IF link THEN Append(toClient, [NoRows EXCEPT !.lsn = sess[s].lsn])
                                   ELSE toClient
    /\ UNCHANGED <<dbVars, link, toServer, clientVars, acks, notice, bounds>>

\* One round of the loop of performCatchupSync.
QueryBatch(s) ==
    /\ sess[s].pc = "query"
    /\ \E raw \in Limited(CatchupRows(sess[s].lsn), BatchSize) :
          sess' = [sess EXCEPT ![s] =
              IF raw = {} THEN [@ EXCEPT !.pc = "finish"]
              ELSE [@ EXCEPT !.pc = "send", !.ok = TRUE,
                             !.todo = Chunks(raw), !.upto = LSNAfter(raw),
                             !.full = Cardinality(raw) = BatchSize]]
    /\ UNCHANGED <<dbVars, netVars, clientVars, srvLsn, acks, notice, bounds>>

SendChunk_AssumesAck(s) ==
    /\ sess[s].pc = "send" /\ sess[s].todo # << >> /\ link
    /\ toClient' = Append(toClient, Head(sess[s].todo))
    /\ sess' = [sess EXCEPT ![s].todo = Tail(@)]
    /\ acks' = [acks EXCEPT ![Head(sess[s].todo).n] = @ - 1]
    /\ UNCHANGED <<dbVars, link, toServer, clientVars, srvLsn, notice, bounds>>

\* sendCatchupChanges: send a chunk and look for its ack; a chunk that cannot
\* be sent only makes the batch fail in the end.
SendChunk(s) ==
    /\ sess[s].pc = "send" /\ sess[s].todo # << >>
    /\ LET c == Head(sess[s].todo) IN
       IF ~link
       THEN /\ sess' = [sess EXCEPT ![s].todo = Tail(@), ![s].ok = FALSE]
            /\ UNCHANGED <<toClient, acks>>
       ELSE /\ toClient' = Append(toClient, c)
            /\ IF acks[c.n] = 0
               THEN /\ sess' = [sess EXCEPT ![s].pc = "await"]
                    /\ UNCHANGED acks
               ELSE /\ sess' = [sess EXCEPT ![s].todo = Tail(@)]
                    /\ acks' = [acks EXCEPT ![c.n] = @ - 1]
    /\ UNCHANGED <<dbVars, link, toServer, clientVars, srvLsn, notice, bounds>>

\* After 30 seconds without ack the next chunk is sent all the same.  Waiting
\* that long is a fault as long as the ack can still come.
AckComing(n) ==
    \/ \E i \in DOMAIN toClient : toClient[i].n = n
    \/ applying.n = n
    \/ \E i \in DOMAIN toServer : toServer[i].n = n

AckTimeout(s) ==
    /\ sess[s].pc = "await"
    /\ IF AckComing(Head(sess[s].todo).n) THEN Fault ELSE UNCHANGED faults
    /\ sess' = [sess EXCEPT ![s].pc = "send", ![s].todo = Tail(@), ![s].ok = FALSE]
    /\ UNCHANGED <<dbVars, netVars, clientVars, srvLsn, acks, notice, connects>>

BatchDone_Stuck(s) ==
    /\ sess[s].pc = "send" /\ sess[s].todo = << >>
    /\ sess' = [sess EXCEPT ![s].pc =
          IF ~sess[s].ok THEN "failed" ELSE IF sess[s].full THEN "query" ELSE "finish"]
    /\ UNCHANGED <<dbVars, netVars, clientVars, srvLsn, acks, notice, bounds>>

BatchDone(s) ==
    /\ sess[s].pc = "send" /\ sess[s].todo = << >>
    /\ sess' = [sess EXCEPT ![s] =
          IF ~@.ok THEN [@ EXCEPT !.pc = "failed"]
          ELSE [@ EXCEPT !.lsn = sess[s].upto,
                         !.pc = IF sess[s].full THEN "query" ELSE "finish"]]
    /\ UNCHANGED <<dbVars, netVars, clientVars, srvLsn, acks, notice, bounds>>

Finish_StoresServerLSN(s) ==
    /\ sess[s].pc = "finish"
    /\ srvLsn' = IF link THEN ServerLSN ELSE srvLsn
    /\ sess' = [sess EXCEPT ![s] = IdleSession]
    /\ UNCHANGED <<dbVars, netVars, clientVars, acks, notice, bounds>>

\* The completion message carries no LSN the client reads.  It is sent three
\* times at most; then the session fails.
Finish(s) ==
    /\ sess[s].pc = "finish"
    /\ srvLsn' = IF link THEN sess[s].lsn ELSE srvLsn
    /\ sess' = [sess EXCEPT ![s] = IdleSession]
    /\ UNCHANGED <<dbVars, netVars, clientVars, acks, notice, bounds>>

\* The failure message has no effect on the LSNs either.
Fail(s) ==
    /\ sess[s].pc = "failed"
    /\ sess' = [sess EXCEPT ![s] = IdleSession]
    /\ UNCHANGED <<dbVars, netVars, clientVars, srvLsn, acks, notice, bounds>>

\* webSocketMessage queues every ack, wakes all sessions waiting for that chunk
\* number, and stores the LSN the ack reports.
ReceiveAck(m) ==
    /\ acks' = [acks EXCEPT ![m.n] = @ + 1]
    /\ sess' = [s \in Session |->
          IF sess[s].pc = "await" /\ Head(sess[s].todo).n = m.n
          THEN [sess[s] EXCEPT !.pc = "send", !.todo = Tail(@)] ELSE sess[s]]
    /\ srvLsn' = m.lsn

WebSocketMessage ==
    /\ toServer # << >>
    /\ ReceiveAck(Head(toServer))
    /\ toServer' = Tail(toServer)
    /\ UNCHANGED <<dbVars, link, toClient, clientVars, notice, bounds>>

-----------------------------------------------------------------------------
(* SyncDO: handleNewChanges and processLiveUpdateNotification.  The LSNs    *)
(* are read first; the query and, with the client's changes in process,    *)
(* a queue delay what follows.                                             *)

NewChanges(n) ==
    /\ notice[n].pc = "idle" /\ noticed < ServerLSN
    /\ noticed' = noticed + 1
    /\ notice' = [notice EXCEPT ![n] =
          IF link THEN [pc |-> "read", lsn |-> srvLsn, upto |-> ServerLSN] ELSE IdleNotice]
    /\ UNCHANGED <<history, netVars, clientVars, srvLsn, acks, sess, bounds>>

\* Nothing new, or only own changes: the LSN moves on without a message.  A
\* send without socket throws and leaves the LSN as it was.
LiveUpdate(n, raw) ==
    LET chunks == [i \in DOMAIN Chunks(raw) |-> [Chunks(raw)[i] EXCEPT !.n = 0]]
    IN  IF Processed(raw) = {}
        THEN /\ srvLsn' = FinalLSN(notice[n].upto, raw)
             /\ UNCHANGED toClient
        ELSE /\ toClient' = IF link THEN toClient \o chunks ELSE toClient
             /\ srvLsn' = IF link THEN FinalLSN(notice[n].upto, raw) ELSE srvLsn

SendLiveChanges(n) ==
    /\ notice[n].pc = "read"
    /\ \E raw \in Limited(LiveRows(notice[n].lsn, notice[n].upto), LiveLimit) :
          LiveUpdate(n, raw)
    /\ notice' = [notice EXCEPT ![n] = IdleNotice]
    /\ UNCHANGED <<dbVars, link, toServer, clientVars, acks, sess, bounds>>

\* Eviction of the object: its sockets close, its storage stays.
Evict ==
    /\ link \/ \E s \in Session : sess[s].pc # "idle"
    /\ Fault
    /\ link' = FALSE /\ toClient' = << >> /\ toServer' = << >>
    /\ acks' = [n \in ChunkNumber |-> 0]
    /\ sess' = [s \in Session |-> IdleSession]
    /\ notice' = [n \in Notice |-> IdleNotice]
    /\ UNCHANGED <<dbVars, clientVars, srvLsn, connects>>

\* Hibernation of an idle object keeps the socket and forgets the queued acks.
Hibernate ==
    /\ \A s \in Session : sess[s].pc = "idle"
    /\ \A n \in Notice : notice[n].pc = "idle"
    /\ acks' = [n \in ChunkNumber |-> 0]
    /\ UNCHANGED <<dbVars, netVars, clientVars, srvLsn, sess, notice, bounds>>

-----------------------------------------------------------------------------
(* The browser.                                                            *)

\* handleTableChangesMessage and handleLiveStartMessage: the LSN is set and
\* saved first.  A batch that arrives while another is applied is skipped.
Receive ==
    /\ toClient # << >>
    /\ LET m == Head(toClient) IN
       /\ clientLsn' = m.lsn
       /\ IF m.rows # {} /\ applying = NoRows
          THEN applying' = m /\ UNCHANGED dropped
          ELSE dropped' = dropped \cup m.rows /\ UNCHANGED applying
    /\ toClient' = Tail(toClient)
    /\ UNCHANGED <<dbVars, link, toServer, urlLsn, seen, srvLsn, acks, sess, notice, bounds>>

\* The rows are written (LocalDatabase says how); catch-up chunks are then
\* acknowledged.
Apply ==
    /\ applying # NoRows
    /\ seen' = seen \cup applying.rows
    /\ applying' = NoRows
    /\ toServer' = IF link /\ applying.n > 0
                   THEN Append(toServer, [n |-> applying.n, lsn |-> applying.lsn])
                   ELSE toServer
    /\ UNCHANGED <<dbVars, link, toClient, clientLsn, urlLsn, dropped, srvLsn, acks,
                   sess, notice, bounds>>

ApplyError ==
    /\ applying # NoRows
    /\ Fault
    /\ dropped' = dropped \cup applying.rows
    /\ applying' = NoRows
    /\ UNCHANGED <<dbVars, netVars, clientLsn, urlLsn, seen, srvLsn, acks, sess,
                   notice, connects>>

\* The socket breaks; what is under way is lost.
Disconnect ==
    /\ link
    /\ Fault
    /\ link' = FALSE /\ toClient' = << >> /\ toServer' = << >>
    /\ UNCHANGED <<dbVars, clientVars, srvLsn, acks, sess, notice, connects>>

\* The application restarts from what it saved.
Reload ==
    /\ link \/ applying # NoRows \/ urlLsn # clientLsn
    /\ Fault
    /\ link' = FALSE /\ toClient' = << >> /\ toServer' = << >>
    /\ urlLsn' = clientLsn
    /\ dropped' = dropped \cup applying.rows /\ applying' = NoRows
    /\ UNCHANGED <<dbVars, clientLsn, seen, srvLsn, acks, sess, notice,
                   connects>>

-----------------------------------------------------------------------------
SessionStep(s) ==
    \/ DetermineSyncStrategy(s) \/ QueryBatch(s) \/ SendChunk(s) \/ AckTimeout(s)
    \/ BatchDone(s) \/ Finish(s) \/ Fail(s)

Next ==
    \/ Commit
    \/ \E s \in Session : Connect(s) \/ SessionStep(s)
    \/ WebSocketMessage
    \/ \E n \in Notice : NewChanges(n) \/ SendLiveChanges(n)
    \/ Evict \/ Hibernate
    \/ Receive \/ Apply \/ ApplyError
    \/ Disconnect \/ Reload

Spec == Init /\ [][Next]_vars

\* Timers fire, messages on an open socket arrive and promises settle.
FairSpec ==
    /\ Spec
    /\ WF_vars(\E s \in Session : SessionStep(s))
    /\ WF_vars(WebSocketMessage \/ Receive \/ Apply)

-----------------------------------------------------------------------------
(* Correctness.                                                            *)

OwnRows == { r \in history : r.own }

\* Nothing of this client is under way any more.
Settled ==
    /\ \A s \in Session : sess[s].pc = "idle"
    /\ \A n \in Notice : notice[n].pc = "idle"
    /\ toClient = << >> /\ applying = NoRows

\* A row counts as handled when the browser was given it or a later change of
\* the same entity, whether it applied that or not.
Handled(r) ==
    \E q \in seen \cup dropped \cup OwnRows : q.id = r.id /\ q.lsn >= r.lsn

\* Once everything has settled, every row at or below the LSN the browser saved,
\* which it would not ask for after a restart, has been given to it.
NoSilentLoss ==
    Settled => \A r \in history : r.lsn <= clientLsn => Handled(r)

\* The same for the LSN SyncDO stores, from which live updates go on.
NoSilentSkip ==
    Settled /\ link => \A r \in history : r.lsn <= srvLsn => Handled(r)

\* Rows labelled with the client's own id, as the writers that set client_id
\* leave them, are never sent back to it.
OwnNotEchoed == \A i \in DOMAIN toClient : \A r \in toClient[i].rows : ~r.own

\* Catch-up sessions come to an end, also without acks or socket: a client that
\* connects no more (connections are bounded) leaves none behind.
SessionsEnd ==
    (\E s \in Session : sess[s].pc # "idle") ~> (\A s \in Session : sess[s].pc = "idle")
=============================================================================
