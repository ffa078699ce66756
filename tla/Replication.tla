----------------------------- MODULE Replication -----------------------------
(***************************************************************************)
(* The replication side of VibeStack (apps/server/src/replication): one    *)
(* Durable Object polls a logical replication slot, copies the tracked     *)
(* rows into the table change_history, remembers the last LSN it handled,  *)
(* and tells every registered client's SyncDO that there is something new. *)
(*                                                                         *)
(* A transaction is the set of tracked rows it writes (empty when it only  *)
(* touches untracked tables); wal2json delivers it as one WAL entry, so    *)
(* all of its rows share one LSN, here its place in the log.  The object   *)
(* can be evicted between any two steps; its storage (lsn), the database   *)
(* (wal, slot, history) and the KV registry survive.                       *)
(* An operator named X_Y is X with a plausible defect.                     *)
(***************************************************************************)
EXTENDS Integers, Sequences, FiniteSets

CONSTANTS
    Row,             \* the rows of tracked tables
    Client,          \* client ids that may register
    Caller,          \* who may request initialisation: the cron job, SyncDOs
    WalBatchSize,    \* most WAL entries one poll returns
    StoreBatchSize,  \* most rows one INSERT stores
    MaxCommits,      \* bound: application transactions
    MaxFaults        \* bound: failures and evictions

ASSUME RowFinite == IsFiniteSet(Row)
ASSUME WalBatchSizePositive == WalBatchSize \in Nat \ {0}
ASSUME StoreBatchSizePositive == StoreBatchSize \in Nat \ {0}
ASSUME BoundsNat == MaxCommits \in Nat /\ MaxFaults \in Nat

VARIABLES
    wal,         \* committed transactions, by LSN
    slot,        \* LSN the slot starts at, NoSlot before it exists
    history,     \* change_history: the row sets of its committed INSERTs
    lsn,         \* current_lsn in the object's storage
    registry,    \* clients listed in CLIENT_REGISTRY
    heard,       \* LSN of the last notification each client received
    polling,     \* an interval is set (pollingInterval, hasCompletedFirstPoll)
    initPc,      \* where each /init request stands
    pc,          \* where the poll in progress stands (isPolling = pc # "idle")
    batch,       \* LSNs of the first and last WAL entry of that poll
    store,       \* its store loop: rows left, some INSERT succeeded, tx aborted
    targets,     \* clients still to notify
    storeFailed, \* history variable: LSNs whose store met an error
    commits,     \* bound counter: application transactions so far
    faults       \* bound counter: failures and evictions so far

dbVars     == <<wal, slot, history>>
clientVars == <<registry, heard>>
pollVars   == <<pc, batch, store, targets>>
vars == <<dbVars, lsn, clientVars, polling, initPc, pollVars,
          storeFailed, commits, faults>>

NoSlot == -1
NoBatch == [first |-> 0, last |-> 0]
NoStore == [left |-> 0, ok |-> FALSE, aborted |-> FALSE]

Entry == Nat \X Row

\* transformWALChanges: the tracked rows of the WAL entries first..last.
Rows(first, last) == { e \in (first..last) \X Row : e[2] \in wal[e[1]] }
BatchRows_FirstOnly == { e \in Rows(batch.first, batch.last) :
                            e[2] = CHOOSE r \in Row : r \in wal[e[1]] }
BatchRows == Rows(batch.first, batch.last)
BatchLSNs == batch.first..batch.last

\* What a reader of change_history sees.
Feed == UNION { history[i] : i \in DOMAIN history }

\* The rows the slot has to deliver.
Delivered == { e \in Rows(1, Len(wal)) : e[1] > slot }

\* The first LSN a poll asks for: above the stored one, where the slot begins.
FirstUnread_SkipsOne == IF lsn < slot THEN slot + 1 ELSE lsn + 2
FirstUnread_IgnoresSlot == lsn + 1
FirstUnread == IF lsn < slot THEN slot + 1 ELSE lsn + 1

\* The LSN to remember after a poll.
HandledLSN_EndOfLog == Len(wal)
HandledLSN_First == batch.first
HandledLSN == batch.last

\* The rows left after one more INSERT.
LeftAfter_Unbounded(n) == n - StoreBatchSize
LeftAfter(n) == IF n <= StoreBatchSize THEN 0 ELSE n - StoreBatchSize

Fault == faults < MaxFaults /\ faults' = faults + 1

TypeOK ==
    /\ wal \in Seq(SUBSET Row)
    /\ slot \in Nat \cup {NoSlot}
    /\ history \in Seq(SUBSET Entry)
    /\ lsn \in Nat
    /\ registry \in SUBSET Client
    /\ heard \in [Client -> Nat]
    /\ polling \in BOOLEAN
    /\ initPc \in [Caller -> {"idle", "check", "create", "start"}]
    /\ pc \in {"idle", "store", "advance", "skip", "lookup", "notify"}
    /\ batch \in [first : Nat, last : Nat]
    /\ store \in [left : Nat, ok : BOOLEAN, aborted : BOOLEAN]
    /\ targets \in SUBSET Client
    /\ storeFailed \in SUBSET Nat
    /\ commits \in Nat
    /\ faults \in Nat

Init ==
    /\ wal = << >> /\ slot = NoSlot /\ history = << >>
    /\ lsn = 0
    /\ registry = {} /\ heard = [c \in Client |-> 0]
    /\ polling = FALSE
    /\ initPc = [r \in Caller |-> "idle"]
    /\ pc = "idle" /\ batch = NoBatch /\ store = NoStore /\ targets = {}
    /\ storeFailed = {} /\ commits = 0 /\ faults = 0

-----------------------------------------------------------------------------
(* The environment: the application database and the client registry.      *)

Commit ==
    /\ commits < MaxCommits
    /\ commits' = commits + 1
    /\ \E rows \in SUBSET Row : wal' = Append(wal, rows)
    /\ UNCHANGED <<slot, history, lsn, clientVars, polling, initPc, pollVars,
                   storeFailed, faults>>

\* SyncDO puts its client into the registry and never takes it out.
Register(c) ==
    /\ c \notin registry
    /\ registry' = registry \cup {c}
    /\ UNCHANGED <<dbVars, lsn, heard, polling, initPc, pollVars,
                   storeFailed, commits, faults>>

-----------------------------------------------------------------------------
(* ReplicationDO: initialisation.  handleInit does nothing when polling    *)
(* already started; otherwise checkSlotStatus selects the slot and, when   *)
(* there is none, creates it; polling starts even if that failed.          *)

InitRequest(r) ==
    /\ initPc[r] = "idle" /\ ~polling
    /\ initPc' = [initPc EXCEPT ![r] = "check"]
    /\ UNCHANGED <<dbVars, lsn, clientVars, polling, pollVars,
                   storeFailed, commits, faults>>

CheckSlot(r) ==
    /\ initPc[r] = "check"
    /\ initPc' = [initPc EXCEPT ![r] = IF slot = NoSlot THEN "create" ELSE "start"]
    /\ UNCHANGED <<dbVars, lsn, clientVars, polling, pollVars,
                   storeFailed, commits, faults>>

\* A second creation fails, which the handler survives.
CreateSlot(r) ==
    /\ initPc[r] = "create"
    /\ slot' = IF slot = NoSlot THEN Len(wal) ELSE slot
    /\ initPc' = [initPc EXCEPT ![r] = "start"]
    /\ UNCHANGED <<wal, history, lsn, clientVars, polling, pollVars,
                   storeFailed, commits, faults>>

SlotError(r) ==
    /\ initPc[r] \in {"check", "create"}
    /\ Fault
    /\ initPc' = [initPc EXCEPT ![r] = "start"]
    /\ UNCHANGED <<dbVars, lsn, clientVars, polling, pollVars,
                   storeFailed, commits>>

StartPolling(r) ==
    /\ initPc[r] = "start"
    /\ polling' = TRUE
    /\ initPc' = [initPc EXCEPT ![r] = "idle"]
    /\ UNCHANGED <<dbVars, lsn, clientVars, pollVars,
                   storeFailed, commits, faults>>

\* GET /status also goes through checkSlotStatus.
HandleStatus ==
    /\ slot = NoSlot
    /\ slot' = Len(wal)
    /\ UNCHANGED <<wal, history, lsn, clientVars, polling, initPc, pollVars,
                   storeFailed, commits, faults>>

-----------------------------------------------------------------------------
(* PollingManager and processChanges: one poll at a time.                  *)

\* The slot is peeked, never consumed, for entries above the stored LSN.
\* Entries without tracked rows go straight to the LSN update.
Poll ==
    /\ polling /\ pc = "idle" /\ slot # NoSlot
    /\ LET from == FirstUnread
           last == IF Len(wal) < from + WalBatchSize - 1
                   THEN Len(wal) ELSE from + WalBatchSize - 1
           n    == Cardinality(Rows(from, last))
       IN  /\ from <= Len(wal)
           /\ batch' = [first |-> from, last |-> last]
           /\ store' = [NoStore EXCEPT !.left = n]
           /\ pc' = IF n = 0 THEN "skip" ELSE "store"
    /\ UNCHANGED <<dbVars, lsn, clientVars, polling, initPc, targets,
                   storeFailed, commits, faults>>

\* One INSERT of the store transaction.  An error is caught and the loop goes
\* on, but PostgreSQL has aborted the transaction: the following INSERTs fail.
InsertBatch ==
    /\ pc = "store" /\ store.left > 0
    /\ store' = [store EXCEPT !.left = LeftAfter(@), !.ok = @ \/ ~store.aborted]
    /\ UNCHANGED <<dbVars, lsn, clientVars, polling, initPc, pc, batch, targets,
                   storeFailed, commits, faults>>

InsertError ==
    /\ pc = "store" /\ store.left > 0 /\ ~store.aborted
    /\ Fault
    /\ store' = [store EXCEPT !.left = LeftAfter(@), !.aborted = TRUE]
    /\ storeFailed' = storeFailed \cup BatchLSNs
    /\ UNCHANGED <<dbVars, lsn, clientVars, polling, initPc, pc, batch, targets,
                   commits>>

\* COMMIT of an aborted transaction is a rollback and raises no error; the
\* result only says whether some INSERT succeeded.
CommitStore ==
    /\ pc = "store" /\ store.left = 0
    /\ IF store.aborted
       THEN UNCHANGED <<history, wal>>
       ELSE /\ history' = Append(history, BatchRows)
            /\ wal' = Append(wal, {})
    /\ pc' = IF store.ok THEN "advance" ELSE "skip"
    /\ store' = NoStore
    /\ UNCHANGED <<slot, lsn, clientVars, polling, initPc, batch, targets,
                   storeFailed, commits, faults>>

\* Connecting, BEGIN or COMMIT throws; a COMMIT may have taken effect.
StoreError ==
    /\ pc = "store"
    /\ Fault
    /\ \/ UNCHANGED <<history, wal>>
       \/ /\ store.left = 0 /\ ~store.aborted
          /\ history' = Append(history, BatchRows)
          /\ wal' = Append(wal, {})
    /\ pc' = "skip"
    /\ store' = NoStore
    /\ storeFailed' = storeFailed \cup BatchLSNs
    /\ UNCHANGED <<slot, lsn, clientVars, polling, initPc, batch, targets, commits>>

\* setLSN, also after a failed store; only a successful one leads on to the
\* notifications.
AfterLSN == IF pc = "advance" THEN "lookup" ELSE "idle"

SetLSN ==
    /\ pc \in {"advance", "skip"}
    /\ lsn' = HandledLSN
    /\ pc' = AfterLSN
    /\ UNCHANGED <<dbVars, clientVars, polling, initPc, batch, store, targets,
                   storeFailed, commits, faults>>

SetLSNError ==
    /\ pc \in {"advance", "skip"}
    /\ Fault
    /\ pc' = AfterLSN
    /\ UNCHANGED <<dbVars, lsn, clientVars, polling, initPc, batch, store, targets,
                   storeFailed, commits>>

\* getAllClientIds: every registered client, active or not.
GetAllClientIds ==
    /\ pc = "lookup"
    /\ targets' = registry
    /\ pc' = "notify"
    /\ UNCHANGED <<dbVars, lsn, clientVars, polling, initPc, batch, store,
                   storeFailed, commits, faults>>

\* The KV store fails or has not yet seen a registration.
GetAllClientIdsStale ==
    /\ pc = "lookup"
    /\ Fault
    /\ \E listed \in SUBSET registry : listed # registry /\ targets' = listed
    /\ pc' = "notify"
    /\ UNCHANGED <<dbVars, lsn, clientVars, polling, initPc, batch, store,
                   storeFailed, commits>>

\* All clients are notified in parallel, in any order.
NotifyClient_EndOfLog(c) ==
    /\ pc = "notify" /\ c \in targets
    /\ targets' = targets \ {c}
    /\ heard' = [heard EXCEPT ![c] = Len(wal)]
    /\ UNCHANGED <<dbVars, lsn, registry, polling, initPc, pc, batch, store,
                   storeFailed, commits, faults>>

NotifyClient_BatchStart(c) ==
    /\ pc = "notify" /\ c \in targets
    /\ targets' = targets \ {c}
    /\ heard' = [heard EXCEPT ![c] = batch.first]
    /\ UNCHANGED <<dbVars, lsn, registry, polling, initPc, pc, batch, store,
                   storeFailed, commits, faults>>

NotifyClient(c) ==
    /\ pc = "notify" /\ c \in targets
    /\ targets' = targets \ {c}
    /\ heard' = [heard EXCEPT ![c] = batch.last]
    /\ UNCHANGED <<dbVars, lsn, registry, polling, initPc, pc, batch, store,
                   storeFailed, commits, faults>>

\* A failed notification is logged and not repeated.
NotifyError(c) ==
    /\ pc = "notify" /\ c \in targets
    /\ Fault
    /\ targets' = targets \ {c}
    /\ UNCHANGED <<dbVars, lsn, clientVars, polling, initPc, pc, batch, store,
                   storeFailed, commits>>

PollDone_StaysPolling ==
    /\ pc = "notify" /\ targets = {} /\ registry = {}
    /\ pc' = "idle"
    /\ UNCHANGED <<dbVars, lsn, clientVars, polling, initPc, batch, store, targets,
                   storeFailed, commits, faults>>

PollDone ==
    /\ pc = "notify" /\ targets = {}
    /\ pc' = "idle"
    /\ UNCHANGED <<dbVars, lsn, clientVars, polling, initPc, batch, store, targets,
                   storeFailed, commits, faults>>

\* The object is evicted: memory, requests in flight and an open transaction
\* are gone.
Evict_LosesLSN ==
    /\ polling \/ \E r \in Caller : initPc[r] # "idle"
    /\ Fault
    /\ polling' = FALSE /\ lsn' = 0
    /\ initPc' = [r \in Caller |-> "idle"]
    /\ pc' = "idle" /\ batch' = NoBatch /\ store' = NoStore /\ targets' = {}
    /\ UNCHANGED <<dbVars, clientVars, storeFailed, commits>>

Evict ==
    /\ polling \/ \E r \in Caller : initPc[r] # "idle"
    /\ Fault
    /\ polling' = FALSE
    /\ initPc' = [r \in Caller |-> "idle"]
    /\ pc' = "idle" /\ batch' = NoBatch /\ store' = NoStore /\ targets' = {}
    /\ UNCHANGED <<dbVars, lsn, clientVars, storeFailed, commits>>

-----------------------------------------------------------------------------
Initialise(r) ==
    InitRequest(r) \/ CheckSlot(r) \/ CreateSlot(r) \/ SlotError(r) \/ StartPolling(r)

PollStep ==
    \/ Poll \/ InsertBatch \/ CommitStore \/ SetLSN \/ GetAllClientIds
    \/ \E c \in Client : NotifyClient(c)
    \/ PollDone

PollFault ==
    \/ InsertError \/ StoreError \/ SetLSNError \/ GetAllClientIdsStale
    \/ \E c \in Client : NotifyError(c)

Next ==
    \/ Commit
    \/ \E c \in Client : Register(c)
    \/ \E r \in Caller : Initialise(r)
    \/ HandleStatus
    \/ PollStep
    \/ PollFault
    \/ Evict

Spec == Init /\ [][Next]_vars

\* The cron trigger requests initialisation every minute; started requests and
\* polls run to their end as long as the object lives.
Fairness ==
    /\ \A r \in Caller :
          WF_vars(InitRequest(r) \/ CheckSlot(r) \/ CreateSlot(r) \/ StartPolling(r))
    /\ WF_vars(PollStep)

FairSpec == Spec /\ Fairness

-----------------------------------------------------------------------------
(* Correctness.                                                            *)

\* The rows up to LSN l are all in change_history, apart from those whose store
\* was reported to fail.
CoveredTo(l) ==
    \A d \in Delivered : d[1] <= l => d \in Feed \/ d[1] \in storeFailed

\* A row visible in change_history implies that every earlier row the slot
\* delivers is visible too, unless storing it was reported to fail.  SyncDOs
\* rely on this when they remember only MAX(lsn).
HistoryPrefixClosed == \A e \in Feed : CoveredTo(e[1])

\* Rows at or below the stored LSN, which no poll will ever see again, are in
\* change_history unless storing them was reported to fail.
PositionCovered == CoveredTo(lsn)

\* A client that was notified of an LSN finds every row up to it in
\* change_history, unless storing it was reported to fail.
NotifiedRowsStored == \A c \in Client : CoveredTo(heard[c])

\* change_history never shows part of a transaction, although the rows of one
\* transaction may be spread over several INSERTs.
TransactionsWhole ==
    \A e \in Feed : \A r \in wal[e[1]] : <<e[1], r>> \in Feed

\* The INSERTs of a row that took effect.
Copies(e) == Cardinality({ i \in DOMAIN history : e \in history[i] })

\* Polling again what was already stored duplicates rows in change_history; a
\* row has at most one extra copy for each failure or eviction.
BoundedDuplicates ==
    \A e \in Feed : Copies(e) <= 1 + faults

\* The stored LSN never moves back, although setLSN does not compare.
PositionMonotone == [][lsn' >= lsn]_lsn

\* Everything committed after the slot exists is eventually behind the stored
\* LSN: the poller neither stops for good nor skips in place.
PollerCatchesUp ==
    \A l \in 1..(2 * MaxCommits) :
        (slot # NoSlot /\ slot < l /\ l <= Len(wal)) ~> (lsn >= l)

\* README.md of the replication system: "If storing changes fails, the LSN is
\* not advanced" and "The system never advances the LSN until changes are
\* stored in the change_history table".
LsnOnlyAfterStored == \A d \in Delivered : d[1] <= lsn => d \in Feed

\* A client that is registered when a batch has been stored is told of an LSN
\* at or above the batch's, unless a fault came in between: failed notifications
\* are not repeated.
ClientsHear ==
    \A c \in Client : \A l \in 1..(2 * MaxCommits) : \A f \in 0..MaxFaults :
        (c \in registry /\ pc = "advance" /\ batch.last = l /\ faults = f)
            ~> (heard[c] >= l \/ faults > f)

\* Readers of change_history may rely on ChangeFeed.
Abstract == INSTANCE ChangeFeed WITH
    commits <- wal, origin <- slot, feed <- Feed, gaveUp <- storeFailed
ImplementsChangeFeed == Abstract!Spec
-----------------------------------------------------------------------------
(* The inductive invariant behind the safety properties: a poll in progress *)
(* starts where the covered part of change_history ends.                    *)

Positions ==
    /\ lsn <= Len(wal) /\ slot <= Len(wal)
    /\ \A c \in Client : heard[c] <= Len(wal)
    /\ Feed \subseteq Delivered
    /\ slot = NoSlot => Feed = {}

PollInv ==
    /\ pc # "idle" =>
          /\ slot # NoSlot /\ slot < batch.first
          /\ 1 <= batch.first /\ batch.first <= batch.last /\ batch.last <= Len(wal)
    /\ pc \in {"store", "advance", "skip"} => lsn < batch.first
    /\ pc = "store" =>
          /\ CoveredTo(batch.first - 1)
          /\ store.aborted => BatchLSNs \subseteq storeFailed
          /\ store.left > 0 \/ store.ok \/ store.aborted
    /\ pc \in {"advance", "skip", "lookup", "notify"} => CoveredTo(batch.last)

IInv ==
    /\ TypeOK
    /\ Positions
    /\ PollInv
    /\ HistoryPrefixClosed
    /\ PositionCovered
    /\ NotifiedRowsStored
    /\ TransactionsWhole
=============================================================================
