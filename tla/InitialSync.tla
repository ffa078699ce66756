----------------------------- MODULE InitialSync -----------------------------
(***************************************************************************)
(* The initial sync of one client (apps/server/src/sync/initial-sync.ts,   *)
(* SyncDO.ts, apps/web/src/sync): SyncDO reads the domain tables page by   *)
(* page, each page acknowledged by the browser, while others write.        *)
(*                                                                         *)
(* A row is <<table, id>>, its version the LSN of the write it shows, an   *)
(* LSN the place of a write in the log.  Rows neither come nor go.  What   *)
(* follows the initial sync is module ServerChanges; here Deliver does it  *)
(* in one step.  LSN 0 is the "0/0" of a client that has nothing.          *)
(* An operator named X_Y is X with a plausible defect.                     *)
(***************************************************************************)
EXTENDS Integers, Sequences, FiniteSets

CONSTANTS
    Size,         \* number of rows of each table, in the order the tables are sent
    PageSize,     \* WS_CHUNK_SIZE
    Session,      \* initial syncs that can run at the same time
    MaxWrites,    \* bound: writes while the client connects and syncs
    MaxConnects,  \* bound: connections the client opens
    MaxBreaks,    \* bound: broken sockets, evictions of the object and restarts
                  \* of the client application
    MaxFaults     \* bound: failing applies and late acks

ASSUME SizesPositive == Size \in Seq(Nat \ {0}) /\ Size # << >>
ASSUME PageSizePositive == PageSize \in Nat \ {0}

VARIABLES
    log,        \* the rows written, by LSN
    stored,     \* change_history holds the writes up to this LSN
    link,       \* a socket is open
    toClient, toServer,  \* messages under way on it
    clientLsn,  \* the LSN the browser saved
    urlLsn,     \* the LSN it connects with: the one saved at the app's start
    applying,   \* the rows IncomingChangeProcessor works on, or Nothing
    replica,    \* the version of each row in the browser
    flaws,      \* history variable: "skipped" when rows were skipped or failed
                \* to apply, "stale" when an old ack ended a wait
    lowered,    \* history variable: the rows that were overwritten by an older
                \* version
    srvLsn,     \* client:<id>:lsn in SyncDO's storage
    progress,   \* initial_sync_state in SyncDO's storage
    acks,       \* messageQueue: acks that no wait has taken
    sess,       \* the initial syncs
    writes, connects, breaks, faults   \* bound counters

dbVars     == <<log, stored>>
netVars    == <<link, toClient, toServer>>
clientVars == <<clientLsn, urlLsn, applying, replica, flaws, lowered>>
doVars     == <<srvLsn, progress, acks, sess>>
bounds     == <<writes, connects, breaks, faults>>
vars == <<dbVars, netVars, clientVars, doVars, bounds>>

Table == DOMAIN Size
Row == UNION { {t} \X (1..Size[t]) : t \in Table }
Absent == -1

\* The version of a row as of LSN l, 0 when it has not been written by then.
Version(r, l) ==
    LET at == { i \in 1..l : log[i] = r }
    IN  IF at = {} THEN 0 ELSE CHOOSE i \in at : \A j \in at : j <= i

\* Messages to the browser: page p of table t (p > 0), a live update (p = 0 with
\* rows), or srv_init_start, srv_init_complete, a resumption (no rows).  A page is
\* sent without an LSN: here it has the one at which it was read, for Stale.
Nothing == [kind |-> "none", t |-> 0, p |-> 0, rows |-> {}, lsn |-> 0]
Message == [kind : {"none", "start", "resume", "page", "live", "complete"},
            t : Nat, p : Nat, rows : SUBSET (Row \X Nat), lsn : Nat]

\* The browser's acks, clt_init_received and clt_init_processed (table 0), and
\* when the page they are for was read.  A table has at most as many pages as rows.
Ack == Row \cup {<<0, 0>>}
Answer == [page : Ack, read : Nat]

IdleSession == [pc |-> "idle", lsn |-> 0, done |-> {}, start |-> 0, t |-> 0,
                p |-> 0, cursor |-> 0]

NoProgress == [status |-> "none", done |-> {}, start |-> 0]

TypeOK ==
    /\ log \in Seq(Row) /\ stored \in 0..Len(log)
    /\ link \in BOOLEAN
    /\ toClient \in Seq(Message) /\ toServer \in Seq(Answer)
    /\ clientLsn \in Nat /\ urlLsn \in Nat
    /\ applying \in Message
    /\ replica \in [Row -> Nat \cup {Absent}]
    /\ flaws \subseteq {"skipped", "stale"} /\ lowered \subseteq Row
    /\ srvLsn \in Nat
    /\ progress \in [status : {"none", "in_progress", "complete"},
                     done : SUBSET Table, start : Nat]
    /\ acks \in [Ack -> Nat]
    /\ sess \in [Session ->
          [pc : {"idle", "accepted", "begin", "tables", "page", "await", "acked",
                 "final", "awaitProcessed", "processed"},
           lsn : Nat, done : SUBSET Table, start : Nat, t : Table \cup {0},
           p : Nat, cursor : Nat]]
    /\ \A b \in {writes, connects, breaks, faults} : b \in Nat

Init ==
    /\ log = << <<1, 1>> >> /\ stored \in {0, 1}
    /\ link = FALSE /\ toClient = << >> /\ toServer = << >>
    /\ clientLsn = 0 /\ urlLsn = 0
    /\ applying = Nothing /\ replica = [r \in Row |-> Absent]
    /\ flaws = {} /\ lowered = {}
    /\ srvLsn = 0 /\ progress = NoProgress
    /\ acks = [a \in Ack |-> 0]
    /\ sess = [s \in Session |-> IdleSession]
    /\ writes = 0 /\ connects = 0 /\ breaks = 0 /\ faults = 0

-----------------------------------------------------------------------------
(* Other writers, and the replication side: see module ChangeFeed.         *)

Write ==
    /\ writes < MaxWrites /\ writes' = writes + 1
    /\ \E r \in Row : log' = Append(log, r)
    /\ UNCHANGED <<stored, netVars, clientVars, doVars, connects, breaks, faults>>

Say(m) == toClient' = Append(toClient, m)

\* SyncDO is notified of each stored write and sends what lies between its LSN
\* for the client and the LSN of change_history, during an initial sync too.  The
\* update carries the LSN of its last row in table order.
Rows(from, upto) ==
    { <<log[l], l>> : l \in { k \in (from+1)..upto : Version(log[k], upto) = k } }

LastOf(rows, from) ==
    LET lastTable == { v \in rows : \A w \in rows : w[1][1] <= v[1][1] }
        First(r) == CHOOSE l \in DOMAIN log :
            l > from /\ log[l] = r /\ \A k \in (from+1)..(l-1) : log[k] # r
    IN  CHOOSE v \in lastTable : \A w \in lastTable : First(w[1]) <= First(v[1])

StoreAndNotify ==
    /\ stored < Len(log)
    /\ stored' = stored + 1
    /\ LET rows == Rows(srvLsn, stored + 1) IN
       IF ~link THEN UNCHANGED <<toClient, srvLsn>>
       ELSE IF rows = {} THEN srvLsn' = stored + 1 /\ UNCHANGED toClient
       ELSE /\ srvLsn' = LastOf(rows, srvLsn)[2]
            /\ Say([Nothing EXCEPT !.kind = "live", !.rows = rows, !.lsn = srvLsn'])
    /\ UNCHANGED <<log, link, toServer, clientVars, progress, acks, sess, bounds>>

-----------------------------------------------------------------------------
(* SyncDO: connections.                                                    *)

Connect(s) ==
    /\ ~link /\ sess[s].pc = "idle"
    /\ connects < MaxConnects /\ connects' = connects + 1
    /\ link' = TRUE
    /\ sess' = [sess EXCEPT ![s].pc = "accepted", ![s].lsn = urlLsn]
    /\ UNCHANGED <<dbVars, toClient, toServer, clientVars, srvLsn, progress, acks,
                   writes, breaks, faults>>

DetermineSyncStrategy_OnlyOnce(s) ==
    /\ sess[s].pc = "accepted"
    /\ srvLsn' = sess[s].lsn
    /\ sess' = [sess EXCEPT ![s] =
          IF @.lsn = 0 /\ progress.status = "none" THEN [@ EXCEPT !.pc = "begin"]
                                                  ELSE IdleSession]
    /\ UNCHANGED <<dbVars, netVars, clientVars, progress, acks, bounds>>

\* Only LSN 0/0 leads to an initial sync, whatever is known of an earlier one.
DetermineSyncStrategy(s) ==
    /\ sess[s].pc = "accepted"
    /\ srvLsn' = sess[s].lsn
    /\ sess' = [sess EXCEPT ![s] =
          IF @.lsn = 0 THEN [@ EXCEPT !.pc = "begin"] ELSE IdleSession]
    /\ UNCHANGED <<dbVars, netVars, clientVars, progress, acks, bounds>>

\* Nothing on the way compares versions: an older one overwrites a newer one.
Overwrite(new) ==
    /\ replica' = new
    /\ lowered' = lowered \cup { r \in Row : new[r] < replica[r] }

\* Catch-up and live updates after the initial sync, as ServerChanges does them
\* when nothing goes wrong.
Deliver ==
    /\ link /\ \A s \in Session : sess[s].pc = "idle"
    /\ toClient = << >> /\ applying = Nothing
    /\ srvLsn > 0 /\ srvLsn < stored
    /\ Overwrite([r \in Row |->
          IF Version(r, stored) > srvLsn THEN Version(r, stored) ELSE replica[r]])
    /\ srvLsn' = stored /\ clientLsn' = stored
    /\ UNCHANGED <<dbVars, netVars, urlLsn, applying, flaws, progress, acks, sess,
                   bounds>>

-----------------------------------------------------------------------------
(* performInitialSync.  A message without a socket throws: the sync ends.  *)

Save(status, done, start) ==
    progress' = [status |-> status, done |-> done, start |-> start]

Begin_ForgetsStart(s) ==
    /\ sess[s].pc = "begin" /\ link
    /\ LET fresh == progress.status # "in_progress"
           done  == IF fresh THEN {} ELSE progress.done
       IN  /\ Say([Nothing EXCEPT !.kind = IF fresh THEN "start" ELSE "resume",
                                  !.lsn = Len(log)])
           /\ Save("in_progress", done, Len(log))
           /\ sess' = [sess EXCEPT ![s].pc = "tables", ![s].done = done,
                                   ![s].start = Len(log)]
    /\ UNCHANGED <<dbVars, link, toServer, clientVars, srvLsn, acks, bounds>>

\* A sync that is in progress is resumed after its completed tables.
Begin(s) ==
    /\ sess[s].pc = "begin" /\ link
    /\ LET fresh == progress.status # "in_progress"
           done  == IF fresh THEN {} ELSE progress.done
           start == IF fresh THEN Len(log) ELSE progress.start
       IN  /\ Say([Nothing EXCEPT !.kind = IF fresh THEN "start" ELSE "resume",
                                  !.lsn = start])
           /\ Save("in_progress", done, start)
           /\ sess' = [sess EXCEPT ![s].pc = "tables", ![s].done = done,
                                   ![s].start = start]
    /\ UNCHANGED <<dbVars, link, toServer, clientVars, srvLsn, acks, bounds>>

NextTable(s) ==
    /\ sess[s].pc = "tables"
    /\ LET left == Table \ sess[s].done
           next == CHOOSE t \in left : \A u \in left : t <= u
       IN  /\ Save(IF left = {} THEN "complete" ELSE "in_progress",
                   sess[s].done, sess[s].start)
           /\ sess' = [sess EXCEPT ![s] =
                 IF left = {} THEN [@ EXCEPT !.pc = "final"]
                 ELSE [@ EXCEPT !.pc = "page", !.t = next, !.p = 1, !.cursor = 0]]
    /\ UNCHANGED <<dbVars, netVars, clientVars, srvLsn, acks, bounds>>

\* getTableChunk: the ids after the cursor; one more is read to see if there are
\* more pages.
LastPage(s) == sess[s].cursor + PageSize >= Size[sess[s].t]
LastId(s) == IF LastPage(s) THEN Size[sess[s].t] ELSE sess[s].cursor + PageSize
NextCursor_LastFetched(s) == LastId(s) + 1
NextCursor(s) == LastId(s)

\* waitForMessage: an ack of the same table and page that is queued will do.
Wait_AssumesAck(sessions, s, a, waiting, done) ==
    /\ sess' = [sessions EXCEPT ![s].pc = done]
    /\ acks' = [acks EXCEPT ![a] = @ - 1]
    /\ UNCHANGED flaws

Wait(sessions, s, a, waiting, done) ==
    IF acks[a] = 0
    THEN /\ sess' = [sessions EXCEPT ![s].pc = waiting]
         /\ UNCHANGED <<acks, flaws>>
    ELSE /\ sess' = [sessions EXCEPT ![s].pc = done]
         /\ acks' = [acks EXCEPT ![a] = @ - 1]
         /\ flaws' = flaws \cup {"stale"}

SendPage(s) ==
    /\ sess[s].pc = "page" /\ link
    /\ Say([kind |-> "page", t |-> sess[s].t, p |-> sess[s].p, lsn |-> Len(log),
            rows |-> { <<r, Version(r, Len(log))>> :
                         r \in {sess[s].t} \X ((sess[s].cursor + 1)..LastId(s)) }])
    /\ Wait(sess, s, <<sess[s].t, sess[s].p>>, "await", "acked")
    /\ UNCHANGED <<dbVars, link, toServer, clientLsn, urlLsn, applying, replica,
                   lowered, srvLsn, progress, bounds>>

PageAcked(s) ==
    /\ sess[s].pc = "acked"
    /\ IF ~LastPage(s)
       THEN /\ sess' = [sess EXCEPT ![s].pc = "page", ![s].p = @ + 1,
                                    ![s].cursor = NextCursor(s)]
            /\ UNCHANGED progress
       ELSE /\ sess' = [sess EXCEPT ![s].pc = "tables", ![s].done = @ \cup {sess[s].t}]
            /\ Save("in_progress", sess[s].done \cup {sess[s].t}, sess[s].start)
    /\ UNCHANGED <<dbVars, netVars, clientVars, srvLsn, acks, bounds>>

\* The LSN sent on completion is read only now, after the tables.
SendComplete(s) ==
    /\ sess[s].pc = "final" /\ link
    /\ Say([Nothing EXCEPT !.kind = "complete", !.lsn = Len(log)])
    /\ Wait([sess EXCEPT ![s].lsn = Len(log)], s, <<0, 0>>, "awaitProcessed", "processed")
    /\ UNCHANGED <<dbVars, link, toServer, clientLsn, urlLsn, applying, replica,
                   lowered, srvLsn, progress, bounds>>

UpdateClientLSN(s) ==
    /\ sess[s].pc = "processed"
    /\ srvLsn' = sess[s].lsn
    /\ sess' = [sess EXCEPT ![s] = IdleSession]
    /\ UNCHANGED <<dbVars, netVars, clientVars, progress, acks, bounds>>

NoSocket(s) ==
    /\ sess[s].pc \in {"begin", "page", "final"} /\ ~link
    /\ sess' = [sess EXCEPT ![s] = IdleSession]
    /\ UNCHANGED <<dbVars, netVars, clientVars, srvLsn, progress, acks, bounds>>

\* The ack this session waits for; waiting five minutes in vain ends the sync and
\* leaves the socket open.  It is a fault as long as the ack can still come.
Awaited(s) == IF sess[s].pc = "await" THEN <<sess[s].t, sess[s].p>> ELSE <<0, 0>>

AckComing(a) ==
    \/ \E i \in DOMAIN toServer : toServer[i].page = a
    \/ \E m \in {toClient[i] : i \in DOMAIN toClient} \cup {applying} :
          IF a = <<0, 0>> THEN m.kind = "complete"
                          ELSE m.kind = "page" /\ <<m.t, m.p>> = a

AckTimeout(s) ==
    /\ sess[s].pc \in {"await", "awaitProcessed"}
    /\ faults' = IF AckComing(Awaited(s)) THEN faults + 1 ELSE faults
    /\ faults' <= MaxFaults
    /\ sess' = [sess EXCEPT ![s] = IdleSession]
    /\ UNCHANGED <<dbVars, netVars, clientVars, srvLsn, progress, acks, writes,
                   connects, breaks>>

\* Every ack is queued and wakes the sessions that wait for it.  It is an old one
\* for a session that started after the page was read.
Waits(s, a) == sess[s].pc \in {"await", "awaitProcessed"} /\ Awaited(s) = a.page

Stale(a) ==
    IF \E s \in Session : sess[s].pc = "await" /\ Waits(s, a) /\ a.read < sess[s].start
    THEN {"stale"} ELSE {}

WebSocketMessage ==
    /\ toServer # << >>
    /\ LET a == Head(toServer) IN
       /\ acks' = [acks EXCEPT ![a.page] = @ + 1]
       /\ sess' = [s \in Session |->
             IF Waits(s, a)
             THEN [sess[s] EXCEPT !.pc = IF @ = "await" THEN "acked" ELSE "processed"]
             ELSE sess[s]]
       /\ flaws' = flaws \cup Stale(a)
    /\ toServer' = Tail(toServer)
    /\ UNCHANGED <<dbVars, link, toClient, clientLsn, urlLsn, applying, replica,
                   lowered, srvLsn, progress, bounds>>

\* The socket breaks, or the object is evicted and loses its memory too.
CloseLink == link' = FALSE /\ toClient' = << >> /\ toServer' = << >>

Disconnect ==
    /\ link
    /\ breaks < MaxBreaks /\ breaks' = breaks + 1
    /\ CloseLink
    /\ UNCHANGED <<dbVars, clientVars, doVars, writes, connects, faults>>

Evict ==
    /\ link \/ \E s \in Session : sess[s].pc # "idle"
    /\ breaks < MaxBreaks /\ breaks' = breaks + 1
    /\ CloseLink
    /\ acks' = [a \in Ack |-> 0]
    /\ sess' = [s \in Session |-> IdleSession]
    /\ UNCHANGED <<dbVars, clientVars, srvLsn, progress, writes, connects, faults>>

\* Hibernation of an idle object keeps the socket and forgets the queued acks.
Hibernate ==
    /\ \A s \in Session : sess[s].pc = "idle"
    /\ acks' = [a \in Ack |-> 0]
    /\ UNCHANGED <<dbVars, netVars, clientVars, srvLsn, progress, sess, bounds>>

-----------------------------------------------------------------------------
(* The browser.                                                            *)

\* Pages and live updates are handed to IncomingChangeProcessor, which skips them
\* while it is busy; all other messages only set and save the LSN.
ReceiveRows(m) ==
    /\ clientLsn' = IF m.kind = "live" THEN m.lsn ELSE clientLsn
    /\ IF applying = Nothing
       THEN applying' = m /\ UNCHANGED flaws
       ELSE flaws' = flaws \cup {"skipped"} /\ UNCHANGED applying
    /\ UNCHANGED toServer

ReceiveLSN(m) ==
    /\ clientLsn' = IF m.kind = "resume" THEN clientLsn ELSE m.lsn
    /\ toServer' = IF m.kind = "complete" THEN Append(toServer, [page |-> <<0, 0>>, read |-> m.lsn])
                   ELSE toServer
    /\ UNCHANGED <<applying, flaws>>

Receive ==
    /\ toClient # << >>
    /\ LET m == Head(toClient) IN
       IF m.kind \in {"page", "live"} THEN ReceiveRows(m) ELSE ReceiveLSN(m)
    /\ toClient' = Tail(toClient)
    /\ UNCHANGED <<dbVars, link, urlLsn, replica, lowered, doVars, bounds>>

Apply ==
    /\ applying # Nothing
    /\ Overwrite([r \in Row |->
          IF \E v \in applying.rows : v[1] = r
          THEN (CHOOSE v \in applying.rows : v[1] = r)[2] ELSE replica[r]])
    /\ applying' = Nothing
    /\ toServer' = IF link /\ applying.kind = "page"
                   THEN Append(toServer, [page |-> <<applying.t, applying.p>>,
                                            read |-> applying.lsn])
                   ELSE toServer
    /\ UNCHANGED <<dbVars, link, toClient, clientLsn, urlLsn, flaws, doVars, bounds>>

ApplyError ==
    /\ applying # Nothing
    /\ faults < MaxFaults /\ faults' = faults + 1
    /\ applying' = Nothing
    /\ flaws' = flaws \cup {"skipped"}
    /\ UNCHANGED <<dbVars, netVars, clientLsn, urlLsn, replica, lowered, doVars, writes,
                   connects, breaks>>

\* The application restarts with the LSN it saved, be it that of srv_init_start.
Reload ==
    /\ breaks < MaxBreaks /\ breaks' = breaks + 1
    /\ CloseLink
    /\ urlLsn' = clientLsn /\ applying' = Nothing
    /\ UNCHANGED <<dbVars, clientLsn, replica, flaws, lowered, doVars, writes, connects,
                   faults>>

-----------------------------------------------------------------------------
SessionStep(s) ==
    \/ DetermineSyncStrategy(s) \/ Begin(s) \/ NextTable(s) \/ SendPage(s)
    \/ PageAcked(s) \/ SendComplete(s) \/ UpdateClientLSN(s) \/ NoSocket(s)
    \/ AckTimeout(s)

Next ==
    \/ Write \/ StoreAndNotify \/ Deliver
    \/ \E s \in Session : Connect(s) \/ SessionStep(s)
    \/ WebSocketMessage
    \/ Disconnect \/ Evict \/ Hibernate
    \/ Receive \/ Apply \/ ApplyError \/ Reload

Spec == Init /\ [][Next]_vars

\* The browser reconnects when its socket breaks; timers fire, messages on an
\* open socket arrive and promises settle.
FairSpec ==
    /\ Spec
    /\ WF_vars(\E s \in Session : Connect(s))
    /\ \A s \in Session : WF_vars(SessionStep(s))
    /\ WF_vars(WebSocketMessage) /\ WF_vars(Receive) /\ WF_vars(Apply)

-----------------------------------------------------------------------------
(* Correctness.                                                            *)

\* A completed table is never read again, so the browser has its rows at least as
\* they were when the initial sync started: also when pages are skipped, acks are
\* lost and the sync is resumed, unless an old ack ended a wait.  A row may fall
\* back when replication lags: a live update then shows a write older than the page.
TablesDelivered ==
    "stale" \notin flaws =>
        \A r \in Row \ lowered :
            r[1] \in progress.done => replica[r] >= Version(r, progress.start)

\* README.md of the sync server: the initial sync "Performs a full data sync from
\* the current database state" and "Sets the client's LSN to the current database
\* LSN".  After an undisturbed sync the browser has every write up to its LSN.
SnapshotAtLSN ==
    (\A s \in Session : sess[s].pc = "idle") /\ progress.status = "complete"
        /\ toClient = << >> /\ applying = Nothing
    => \A r \in Row : replica[r] >= Version(r, clientLsn)

\* The initial sync completes although sockets break and the object is evicted,
\* unless the browser skips or fails to apply rows, an ack is late, or the
\* application restarts and connects with the LSN of srv_init_start.
SyncCompletes ==
    <>(progress.status = "complete" \/ flaws # {} \/ faults > 0 \/ urlLsn > 0)
=============================================================================
