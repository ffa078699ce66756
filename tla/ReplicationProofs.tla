-------------------------- MODULE ReplicationProofs --------------------------
(***************************************************************************)
(* Proofs about Replication for any rows, clients, batch sizes and bounds: *)
(* type correctness, the safety invariants of change_history and of the    *)
(* stored LSN, the number of duplicates, the monotony of that LSN, and     *)
(* that Replication implements ChangeFeed.                                 *)
(***************************************************************************)
EXTENDS Replication, FiniteSetTheorems, TLAPS

-----------------------------------------------------------------------------
(* Facts about the operators of the model.                                 *)

\* The number of rows of a poll is a natural number.
LEMMA RowsFinite ==
    ASSUME NEW first \in Nat, NEW last \in Nat
    PROVE  Cardinality(Rows(first, last)) \in Nat
<1>1. IsFiniteSet(first..last)
  BY FS_Interval
<1>2. IsFiniteSet((first..last) \X Row)
  BY <1>1, RowFinite, FS_Product
<1>3. Rows(first, last) \subseteq (first..last) \X Row
  BY DEF Rows
<1> QED
  BY <1>2, <1>3, FS_Subset, FS_CardinalityType

\* Storing a set of rows adds exactly these rows to what readers see.
LEMMA FeedAppend ==
    ASSUME TypeOK, NEW S \in SUBSET Entry, history' = Append(history, S)
    PROVE  Feed' = Feed \cup S
<1>1. /\ Len(history') = Len(history) + 1
      /\ \A i \in 1..Len(history) : history'[i] = history[i]
      /\ history'[Len(history) + 1] = S
  BY DEF TypeOK
<1>2. DOMAIN history = 1..Len(history) /\ DOMAIN history' = 1..Len(history')
  BY DEF TypeOK
<1>3. Len(history) \in Nat
  BY DEF TypeOK
<1>4. ASSUME NEW e \in Feed' PROVE e \in Feed \cup S
  <2>1. PICK i \in DOMAIN history' : e \in history'[i]
    BY DEF Feed
  <2>2. CASE i = Len(history) + 1
    BY <2>1, <2>2, <1>1
  <2>3. CASE i \in 1..Len(history)
    BY <2>1, <2>3, <1>1, <1>2 DEF Feed
  <2> QED
    BY <2>2, <2>3, <1>1, <1>2, <1>3
<1>5. ASSUME NEW e \in Feed PROVE e \in Feed'
  <2>1. PICK i \in DOMAIN history : e \in history[i]
    BY DEF Feed
  <2>2. i \in DOMAIN history' /\ e \in history'[i]
    BY <2>1, <1>1, <1>2, <1>3
  <2> QED
    BY <2>2 DEF Feed
<1>6. ASSUME NEW e \in S PROVE e \in Feed'
  <2>1. Len(history) + 1 \in DOMAIN history'
    BY <1>1, <1>2, <1>3
  <2> QED
    BY <1>1, <2>1 DEF Feed
<1> QED
  BY <1>4, <1>5, <1>6

\* A stretch of the log without rows to count has none.
LEMMA RowsEmpty ==
    ASSUME NEW first \in Nat, NEW last \in Nat, Cardinality(Rows(first, last)) = 0
    PROVE  Rows(first, last) = {}
<1>1. IsFiniteSet(first..last)
  BY FS_Interval
<1>2. IsFiniteSet((first..last) \X Row)
  BY <1>1, RowFinite, FS_Product
<1>3. Rows(first, last) \subseteq (first..last) \X Row
  BY DEF Rows
<1> QED
  BY <1>2, <1>3, FS_Subset, FS_EmptySet

\* Readers see the same rows as long as change_history is the same.
LEMMA FeedUnchanged ==
    ASSUME UNCHANGED history
    PROVE  Feed' = Feed
  BY DEF Feed

\* What a poll stores are LSNs with rows.
LEMMA BatchRowsEntries ==
    ASSUME TypeOK
    PROVE  BatchRows \in SUBSET Entry
  BY DEF TypeOK, BatchRows, Rows, Entry

\* A sequence grows by an element of its kind.
LEMMA AppendType ==
    ASSUME NEW S, NEW s \in Seq(S), NEW e \in S
    PROVE  Append(s, e) \in Seq(S)
  OBVIOUS

\* The values that storing and committing write have the right types.
LEMMA StoreTypes ==
    ASSUME TypeOK
    PROVE  /\ Append(history, BatchRows) \in Seq(SUBSET Entry)
           /\ Append(wal, {}) \in Seq(SUBSET Row)
           /\ BatchLSNs \in SUBSET Nat
<1>1. history \in Seq(SUBSET Entry) /\ wal \in Seq(SUBSET Row)
  BY DEF TypeOK
<1>2. batch.first \in Nat /\ batch.last \in Nat
  BY DEF TypeOK
<1>3. {} \in SUBSET Row
  OBVIOUS
<1> QED
  BY <1>1, <1>2, <1>3, BatchRowsEntries, AppendType DEF BatchLSNs

\* So have the values of an idle poll.
LEMMA NothingType ==
    /\ NoBatch \in [first : Nat, last : Nat]
    /\ NoStore \in [left : Nat, ok : BOOLEAN, aborted : BOOLEAN]
  BY DEF NoBatch, NoStore

\* The number of rows left to insert is a natural number.
LEMMA LeftAfterType ==
    ASSUME NEW n \in Nat
    PROVE  LeftAfter(n) \in Nat
  BY StoreBatchSizePositive DEF LeftAfter

\* When the log is covered up to an LSN, it is up to every earlier one.
LEMMA CoveredBelow ==
    ASSUME NEW k \in Int, NEW l \in Int, k <= l, CoveredTo(l), TypeOK
    PROVE  CoveredTo(k)
<1>1. \A d \in Delivered : d[1] \in Int
  BY DEF Delivered, Rows, TypeOK
<1>2. \A d \in Delivered : d[1] <= k => d[1] <= l
  BY <1>1
<1> QED
  BY <1>2 DEF CoveredTo

-----------------------------------------------------------------------------
(* Type correctness.                                                       *)

\* The initial values have the right types.
LEMMA InitTypeOK == Init => TypeOK
<1> SUFFICES ASSUME Init PROVE TypeOK
  OBVIOUS
<1>1. wal \in Seq(SUBSET Row) /\ history \in Seq(SUBSET Entry)
  BY DEF Init
<1>2. batch \in [first : Nat, last : Nat]
      /\ store \in [left : Nat, ok : BOOLEAN, aborted : BOOLEAN]
  BY NothingType DEF Init
<1> QED
  BY <1>1, <1>2 DEF Init, TypeOK

\* Every step, failing or not, keeps the types.
LEMMA NextTypeOK == TypeOK /\ [Next]_vars => TypeOK'
<1> SUFFICES ASSUME TypeOK, [Next]_vars PROVE TypeOK'
  OBVIOUS
<1> USE DEF TypeOK
<1>1. CASE Commit
  BY <1>1 DEF Commit, clientVars, pollVars
<1>2. ASSUME NEW c \in Client, Register(c) PROVE TypeOK'
  BY <1>2 DEF Register, dbVars, pollVars
<1>3. ASSUME NEW r \in Caller, Initialise(r) PROVE TypeOK'
  <2>1. CASE InitRequest(r)
    BY <2>1 DEF InitRequest, dbVars, clientVars, pollVars
  <2>2. CASE CheckSlot(r)
    BY <2>2 DEF CheckSlot, dbVars, clientVars, pollVars
  <2>3. CASE CreateSlot(r)
    BY <2>3 DEF CreateSlot, clientVars, pollVars
  <2>4. CASE SlotError(r)
    BY <2>4 DEF SlotError, Fault, dbVars, clientVars, pollVars
  <2>5. CASE StartPolling(r)
    BY <2>5 DEF StartPolling, dbVars, clientVars, pollVars
  <2> QED
    BY <1>3, <2>1, <2>2, <2>3, <2>4, <2>5 DEF Initialise
<1>4. CASE HandleStatus
  BY <1>4 DEF HandleStatus, clientVars, pollVars
<1>5. CASE Poll
  <2> DEFINE from == FirstUnread
             last == IF Len(wal) < from + WalBatchSize - 1
                     THEN Len(wal) ELSE from + WalBatchSize - 1
             n    == Cardinality(Rows(from, last))
  <2>1. from \in Nat /\ last \in Nat
    <3>1. slot \in Nat /\ lsn \in Nat /\ Len(wal) \in Nat
      BY <1>5 DEF Poll, NoSlot
    <3>2. from \in Nat
      BY <3>1 DEF FirstUnread
    <3> HIDE DEF from
    <3>3. last \in Nat
      BY <3>1, <3>2, WalBatchSizePositive
    <3> QED
      BY <3>2, <3>3
  <2>2. n \in Nat
    BY <2>1, RowsFinite
  <2>4. /\ batch' = [first |-> from, last |-> last]
        /\ store' = [NoStore EXCEPT !.left = n]
        /\ pc' \in {"skip", "store"}
    BY <1>5 DEF Poll
  <2>5. store' \in [left : Nat, ok : BOOLEAN, aborted : BOOLEAN]
    BY <2>2, <2>4 DEF NoStore
  <2>6. batch' \in [first : Nat, last : Nat]
    BY <2>1, <2>4
  <2> QED
    BY <1>5, <2>4, <2>5, <2>6 DEF Poll, dbVars, clientVars
<1>6. CASE InsertBatch
  <2>1. store' \in [left : Nat, ok : BOOLEAN, aborted : BOOLEAN]
    <3>1. LeftAfter(store.left) \in Nat
      BY LeftAfterType
    <3>2. store' = [store EXCEPT !.left = LeftAfter(@), !.ok = @ \/ ~store.aborted]
      BY <1>6 DEF InsertBatch
    <3>3. store' = [left |-> LeftAfter(store.left), ok |-> store.ok \/ ~store.aborted,
                    aborted |-> store.aborted]
      BY <3>2
    <3> QED
      BY <3>1, <3>3
  <2> QED
    BY <1>6, <2>1 DEF InsertBatch, dbVars, clientVars
<1>7. CASE CommitStore
  <2>1. wal' \in Seq(SUBSET Row) /\ history' \in Seq(SUBSET Entry)
    <3>1. CASE store.aborted
      BY <1>7, <3>1 DEF CommitStore
    <3>2. CASE ~store.aborted
      BY <1>7, <3>2, StoreTypes DEF CommitStore
    <3> QED
      BY <3>1, <3>2
  <2>2. store' \in [left : Nat, ok : BOOLEAN, aborted : BOOLEAN]
    BY <1>7, NothingType DEF CommitStore
  <2>3. pc' \in {"advance", "skip"}
    BY <1>7 DEF CommitStore
  <2>4. UNCHANGED <<slot, lsn, registry, heard, polling, initPc, batch, targets,
                    storeFailed, commits, faults>>
    BY <1>7 DEF CommitStore, clientVars
  <2> QED
    BY <2>1, <2>2, <2>3, <2>4
<1>8. CASE SetLSN
  BY <1>8 DEF SetLSN, HandledLSN, AfterLSN, dbVars, clientVars
<1>9. CASE GetAllClientIds
  BY <1>9 DEF GetAllClientIds, dbVars, clientVars
<1>10. ASSUME NEW c \in Client, NotifyClient(c) PROVE TypeOK'
  BY <1>10 DEF NotifyClient, dbVars
<1>11. CASE PollDone
  BY <1>11 DEF PollDone, dbVars, clientVars
<1>12. CASE InsertError
  <2>1. store' \in [left : Nat, ok : BOOLEAN, aborted : BOOLEAN]
    BY <1>12, LeftAfterType DEF InsertError
  <2>2. storeFailed' \in SUBSET Nat
    BY <1>12 DEF InsertError, BatchLSNs
  <2> QED
    BY <1>12, <2>1, <2>2 DEF InsertError, Fault, dbVars, clientVars
<1>13. CASE StoreError
  <2>1. storeFailed' \in SUBSET Nat
    <3>1. storeFailed' = storeFailed \cup BatchLSNs
      BY <1>13 DEF StoreError
    <3> QED
      BY <3>1, StoreTypes
  <2>2. wal' \in Seq(SUBSET Row) /\ history' \in Seq(SUBSET Entry)
    <3>1. \/ UNCHANGED <<history, wal>>
          \/ history' = Append(history, BatchRows) /\ wal' = Append(wal, {})
      BY <1>13 DEF StoreError
    <3> QED
      BY <3>1, StoreTypes
  <2>3. store' \in [left : Nat, ok : BOOLEAN, aborted : BOOLEAN]
    BY <1>13, NothingType DEF StoreError
  <2>4. /\ pc' = "skip" /\ faults' = faults + 1
        /\ UNCHANGED <<slot, lsn, registry, heard, polling, initPc, batch, targets,
                       commits>>
    BY <1>13 DEF StoreError, Fault, clientVars
  <2> QED
    BY <2>1, <2>2, <2>3, <2>4
<1>14. CASE SetLSNError
  BY <1>14 DEF SetLSNError, Fault, AfterLSN, dbVars, clientVars
<1>15. CASE GetAllClientIdsStale
  BY <1>15 DEF GetAllClientIdsStale, Fault, dbVars, clientVars
<1>16. ASSUME NEW c \in Client, NotifyError(c) PROVE TypeOK'
  BY <1>16 DEF NotifyError, Fault, dbVars, clientVars
<1>17. CASE Evict
  <2>1. /\ batch' \in [first : Nat, last : Nat]
        /\ store' \in [left : Nat, ok : BOOLEAN, aborted : BOOLEAN]
    BY <1>17, NothingType DEF Evict
  <2>2. /\ pc' = "idle" /\ targets' = {} /\ faults' = faults + 1
        /\ UNCHANGED <<wal, slot, history, lsn, registry, heard, storeFailed,
                       commits>>
    BY <1>17 DEF Evict, Fault, dbVars, clientVars
  <2>3. polling' \in BOOLEAN
    BY <1>17 DEF Evict
  <2>4. initPc' \in [Caller -> {"idle", "check", "create", "start"}]
    BY <1>17 DEF Evict
  <2> QED
    BY <2>1, <2>2, <2>3, <2>4
<1>18. CASE UNCHANGED vars
  BY <1>18 DEF vars, dbVars, clientVars, pollVars
<1> QED
  BY <1>1, <1>2, <1>3, <1>4, <1>5, <1>6, <1>7, <1>8, <1>9, <1>10, <1>11, <1>12,
     <1>13, <1>14, <1>15, <1>16, <1>17, <1>18 DEF Next, PollStep, PollFault

\* Every variable keeps its type, whatever fails or is evicted when.
THEOREM TypeCorrect == Spec => []TypeOK
  BY InitTypeOK, NextTypeOK, PTL DEF Spec

-----------------------------------------------------------------------------
(* What a step does to the database, whichever action it is.               *)

Untouched == UNCHANGED <<wal, slot, history>> /\ storeFailed \subseteq storeFailed'

Committed ==
    /\ \E rows \in SUBSET Row : wal' = Append(wal, rows)
    /\ UNCHANGED <<slot, history, storeFailed>>

SlotOpened ==
    /\ slot = NoSlot /\ slot' = Len(wal)
    /\ UNCHANGED <<wal, history, storeFailed>>

BatchStored ==
    /\ pc = "store"
    /\ history' = Append(history, BatchRows)
    /\ wal' = Append(wal, {})
    /\ UNCHANGED <<slot, batch>>
    /\ storeFailed \subseteq storeFailed'

\* A step does one of four things to PostgreSQL, or leaves it alone.
LEMMA DatabaseStep ==
    ASSUME [Next]_vars
    PROVE  Untouched \/ Committed \/ SlotOpened \/ BatchStored
<1> USE DEF Untouched, Committed, SlotOpened, BatchStored
<1>1. CASE Commit
  BY <1>1 DEF Commit
<1>2. ASSUME NEW c \in Client, Register(c) PROVE Untouched
  BY <1>2 DEF Register, dbVars
<1>3. ASSUME NEW r \in Caller, Initialise(r) PROVE Untouched \/ SlotOpened
  <2>1. CASE CreateSlot(r)
    BY <2>1 DEF CreateSlot
  <2>2. CASE ~CreateSlot(r)
    BY <1>3, <2>2 DEF Initialise, InitRequest, CheckSlot, SlotError, StartPolling, dbVars
  <2> QED
    BY <2>1, <2>2
<1>4. CASE HandleStatus
  BY <1>4 DEF HandleStatus
<1>5. CASE CommitStore
  <2>1. CASE store.aborted
    BY <1>5, <2>1 DEF CommitStore
  <2>2. CASE ~store.aborted
    BY <1>5, <2>2 DEF CommitStore
  <2> QED
    BY <2>1, <2>2
<1>6. CASE StoreError
  <2>1. \/ UNCHANGED <<history, wal>>
        \/ history' = Append(history, BatchRows) /\ wal' = Append(wal, {})
    BY <1>6 DEF StoreError
  <2>2. /\ pc = "store" /\ UNCHANGED <<slot, batch>>
        /\ storeFailed \subseteq storeFailed'
    BY <1>6 DEF StoreError
  <2> QED
    BY <2>1, <2>2
<1>7. CASE Poll \/ InsertBatch \/ SetLSN \/ GetAllClientIds \/ PollDone
  BY <1>7 DEF Poll, InsertBatch, SetLSN, GetAllClientIds, PollDone, dbVars
<1>8. CASE InsertError \/ SetLSNError \/ GetAllClientIdsStale \/ Evict
  BY <1>8 DEF InsertError, SetLSNError, GetAllClientIdsStale, Evict, dbVars
<1>9. ASSUME NEW c \in Client, NotifyClient(c) \/ NotifyError(c) PROVE Untouched
  BY <1>9 DEF NotifyClient, NotifyError, dbVars
<1>10. CASE UNCHANGED vars
  BY <1>10 DEF vars, dbVars
<1> QED
  BY <1>1, <1>2, <1>3, <1>4, <1>5, <1>6, <1>7, <1>8, <1>9, <1>10
  DEF Next, PollStep, PollFault

\* Only transactions of the poll in progress are given up.
LEMMA FailuresAreCommitted ==
    ASSUME [Next]_vars, TypeOK, PollInv
    PROVE  \E lsns \in SUBSET (1..Len(wal)) : storeFailed' = storeFailed \cup lsns
<1>1. CASE InsertError \/ StoreError
  <2>1. pc = "store" /\ storeFailed' = storeFailed \cup BatchLSNs
    BY <1>1 DEF InsertError, StoreError
  <2>2. BatchLSNs \subseteq 1..Len(wal)
    BY <2>1 DEF PollInv, TypeOK, BatchLSNs
  <2> QED
    BY <2>1, <2>2
<1>2. CASE ~(InsertError \/ StoreError)
  <2>1. storeFailed' = storeFailed
    BY <1>2 DEF Next, Commit, Register, Initialise, InitRequest, CheckSlot, CreateSlot,
       SlotError, StartPolling, HandleStatus, PollStep, PollFault, Poll, InsertBatch,
       CommitStore, SetLSN, SetLSNError, GetAllClientIds, GetAllClientIdsStale,
       NotifyClient, NotifyError, PollDone, Evict, vars
  <2>2. storeFailed' = storeFailed \cup {}
    BY <2>1
  <2> QED
    BY <2>2
<1> QED
  BY <1>1, <1>2

\* The log only grows, and what is covered stays covered.
Grows ==
    /\ Len(wal') >= Len(wal)
    /\ \A i \in 1..Len(wal) : wal'[i] = wal[i]
    /\ slot' >= slot
    /\ Feed \subseteq Feed'
    /\ \A l \in Int : l <= Len(wal) /\ CoveredTo(l) => CoveredTo(l)'

\* The log and what readers see only grow; what is covered stays covered.
LEMMA DatabaseGrows ==
    ASSUME TypeOK, Positions, TypeOK', [Next]_vars
    PROVE  Grows
<1>1. /\ Len(wal) \in Nat /\ Len(wal') >= Len(wal)
      /\ \A i \in 1..Len(wal) : wal'[i] = wal[i]
  <2>1. CASE UNCHANGED wal
    BY <2>1 DEF TypeOK
  <2>2. CASE \E rows \in SUBSET Row : wal' = Append(wal, rows)
    BY <2>2 DEF TypeOK
  <2>3. {} \in SUBSET Row
    OBVIOUS
  <2> QED
    BY <2>1, <2>2, <2>3, DatabaseStep
    DEF Untouched, Committed, SlotOpened, BatchStored
<1>2. slot' >= slot /\ slot \in Int /\ slot' \in Int
  <2>1. slot \in Int /\ slot' \in Int /\ Len(wal) \in Int
    BY DEF TypeOK, NoSlot
  <2>2. slot <= Len(wal)
    BY DEF Positions
  <2>3. slot' = slot \/ slot' = Len(wal) \/ slot = NoSlot
    BY DatabaseStep DEF Untouched, Committed, SlotOpened, BatchStored
  <2>4. slot' \in Nat \cup {NoSlot}
    BY DEF TypeOK
  <2> QED
    BY <2>1, <2>2, <2>3, <2>4 DEF NoSlot
<1>3. Feed \subseteq Feed'
  BY DatabaseStep, FeedUnchanged, FeedAppend, BatchRowsEntries
  DEF Untouched, Committed, SlotOpened, BatchStored
<1>4. storeFailed \subseteq storeFailed'
  BY DatabaseStep DEF Untouched, Committed, SlotOpened, BatchStored
<1>5. ASSUME NEW l \in Int, l <= Len(wal), CoveredTo(l)
      PROVE  CoveredTo(l)'
  <2> SUFFICES ASSUME NEW d \in Delivered', d[1] <= l
               PROVE  d \in Feed' \/ d[1] \in storeFailed'
    BY DEF CoveredTo
  <2>1. d \in Delivered
    <3>1. /\ d \in (1..Len(wal')) \X Row
          /\ d[2] \in wal'[d[1]]
          /\ d[1] > slot'
      BY DEF Delivered, Rows
    <3>2. d[1] \in 1..Len(wal) /\ d[2] \in Row /\ d = <<d[1], d[2]>>
      BY <3>1, <1>1, <1>5
    <3>3. d[2] \in wal[d[1]] /\ d[1] > slot
      BY <3>1, <3>2, <1>1, <1>2
    <3> QED
      BY <3>2, <3>3 DEF Delivered, Rows
  <2> QED
    BY <2>1, <1>3, <1>4, <1>5 DEF CoveredTo
<1> QED
  BY <1>1, <1>2, <1>3, <1>5 DEF Grows

\* Only the poll in progress moves the stored LSN and the clients' marks.
LEMMA MarksMove ==
    ASSUME [Next]_vars, TypeOK
    PROVE  /\ \/ lsn' = lsn
              \/ pc \in {"advance", "skip"} /\ lsn' = batch.last
           /\ \A c \in Client :
                 \/ heard'[c] = heard[c]
                 \/ pc = "notify" /\ heard'[c] = batch.last
<1>1. CASE Commit
  BY <1>1 DEF Commit, clientVars
<1>2. ASSUME NEW c \in Client, Register(c) PROVE UNCHANGED <<lsn, heard>>
  BY <1>2 DEF Register
<1>3. ASSUME NEW r \in Caller, Initialise(r) PROVE UNCHANGED <<lsn, heard>>
  BY <1>3 DEF Initialise, InitRequest, CheckSlot, CreateSlot, SlotError,
              StartPolling, clientVars
<1>4. CASE HandleStatus
  BY <1>4 DEF HandleStatus, clientVars
<1>5. CASE SetLSN
  BY <1>5 DEF SetLSN, HandledLSN, clientVars
<1>6. ASSUME NEW c \in Client, NotifyClient(c)
      PROVE  /\ lsn' = lsn /\ pc = "notify"
             /\ heard' = [heard EXCEPT ![c] = batch.last]
  BY <1>6 DEF NotifyClient
<1>7. CASE Poll \/ InsertBatch \/ CommitStore \/ GetAllClientIds \/ PollDone
  BY <1>7 DEF Poll, InsertBatch, CommitStore, GetAllClientIds, PollDone, clientVars
<1>8. CASE InsertError \/ StoreError \/ SetLSNError \/ GetAllClientIdsStale \/ Evict
  BY <1>8 DEF InsertError, StoreError, SetLSNError, GetAllClientIdsStale, Evict,
              clientVars
<1>9. ASSUME NEW c \in Client, NotifyError(c) PROVE UNCHANGED <<lsn, heard>>
  BY <1>9 DEF NotifyError, clientVars
<1>10. CASE UNCHANGED vars
  BY <1>10 DEF vars, clientVars
<1>11. ASSUME NEW c \in Client, NotifyClient(c), NEW d \in Client
       PROVE  heard'[d] = heard[d] \/ heard'[d] = batch.last
  BY <1>6, <1>11 DEF TypeOK
<1> QED
  BY <1>1, <1>2, <1>3, <1>4, <1>5, <1>6, <1>7, <1>8, <1>9, <1>10, <1>11
  DEF Next, PollStep, PollFault
-----------------------------------------------------------------------------
(* The inductive invariant.                                                *)

\* The inductive invariant holds before the slot exists.
LEMMA InitInvariant == Init => IInv
<1> SUFFICES ASSUME Init PROVE IInv
  OBVIOUS
<1>1. TypeOK
  BY InitTypeOK
<1>2. Feed = {} /\ Delivered = {}
  BY DEF Init, Feed, Delivered, Rows
<1>3. Positions
  BY <1>2 DEF Init, Positions, NoSlot
<1>4. PollInv
  BY DEF Init, PollInv
<1>5. HistoryPrefixClosed /\ PositionCovered /\ NotifiedRowsStored /\ TransactionsWhole
  BY <1>2 DEF HistoryPrefixClosed, PositionCovered, NotifiedRowsStored,
              TransactionsWhole, CoveredTo
<1> QED
  BY <1>1, <1>3, <1>4, <1>5 DEF IInv

\* The rows of a poll that is storing are delivered ones, and once they are in
\* change_history everything up to the end of the poll is covered.
LEMMA StoredBatchCovers ==
    ASSUME IInv, TypeOK', BatchStored
    PROVE  /\ BatchRows \subseteq Delivered
           /\ Feed' = Feed \cup BatchRows
           /\ Delivered' = Delivered
           /\ CoveredTo(batch.last)'
<1> USE DEF IInv
<1>1. /\ slot \in Int /\ batch.first \in Nat /\ batch.last \in Nat /\ Len(wal) \in Nat
      /\ slot < batch.first /\ 1 <= batch.first /\ batch.last <= Len(wal)
      /\ CoveredTo(batch.first - 1)
  BY DEF TypeOK, PollInv, BatchStored, NoSlot
<1>2. BatchRows \subseteq Delivered
  BY <1>1 DEF BatchRows, Delivered, Rows
<1>3. Feed' = Feed \cup BatchRows
  BY FeedAppend, BatchRowsEntries DEF BatchStored
<1>4. /\ Len(wal') = Len(wal) + 1
      /\ \A i \in 1..Len(wal) : wal'[i] = wal[i]
      /\ wal'[Len(wal) + 1] = {}
      /\ slot' = slot
  BY DEF BatchStored, TypeOK
<1>5. Delivered' = Delivered
  <2>1. ASSUME NEW d \in Delivered' PROVE d \in Delivered
    <3>1. d \in (1..Len(wal')) \X Row /\ d[2] \in wal'[d[1]] /\ d[1] > slot
      BY <1>4 DEF Delivered, Rows
    <3>2. d[1] \in 1..Len(wal)
      BY <3>1, <1>4, <1>1
    <3> QED
      BY <3>1, <3>2, <1>4 DEF Delivered, Rows
  <2>2. ASSUME NEW d \in Delivered PROVE d \in Delivered'
    BY <1>4, <1>1 DEF Delivered, Rows
  <2> QED
    BY <2>1, <2>2
<1>6. ASSUME NEW d \in Delivered, d[1] <= batch.last
      PROVE  d \in Feed' \/ d[1] \in storeFailed'
  <2>1. d \in (1..Len(wal)) \X Row /\ d[2] \in wal[d[1]]
    BY DEF Delivered, Rows
  <2>2. CASE d[1] <= batch.first - 1
    BY <2>2, <1>1, <1>3 DEF CoveredTo, BatchStored
  <2>3. CASE ~(d[1] <= batch.first - 1)
    <3>1. d[1] \in batch.first..batch.last
      BY <2>1, <2>3, <1>1, <1>6
    <3>2. d \in BatchRows
      BY <3>1, <2>1 DEF BatchRows, Rows
    <3> QED
      BY <3>2, <1>3
  <2> QED
    BY <2>2, <2>3
<1>7. CoveredTo(batch.last)'
  BY <1>5, <1>6 DEF CoveredTo, BatchStored
<1> QED
  BY <1>2, <1>3, <1>5, <1>7

\* No step moves an LSN past the end of the log, or stores a row not delivered.
LEMMA NextPositions ==
    ASSUME IInv, TypeOK', [Next]_vars
    PROVE  Positions'
<1> USE DEF IInv
<1>1. Grows
  BY DatabaseGrows
<1>2. Len(wal) \in Nat /\ Len(wal') \in Nat /\ slot \in Int /\ slot' \in Int
  BY DEF TypeOK, NoSlot
<1>3. /\ Len(wal') >= Len(wal)
      /\ lsn \in Int /\ lsn <= Len(wal) /\ batch.last \in Int
      /\ \A c \in Client : heard[c] \in Int /\ heard[c] <= Len(wal)
      /\ pc \in {"advance", "skip", "notify"} => batch.last <= Len(wal)
  <2>1. lsn \in Int /\ batch.last \in Int /\ \A c \in Client : heard[c] \in Int
    BY DEF TypeOK
  <2>2. lsn <= Len(wal) /\ \A c \in Client : heard[c] <= Len(wal)
    BY DEF Positions
  <2>3. pc \in {"advance", "skip", "notify"} => batch.last <= Len(wal)
    BY DEF PollInv
  <2> QED
    BY <1>1, <2>1, <2>2, <2>3 DEF Grows
<1>4. lsn' <= Len(wal') /\ \A c \in Client : heard'[c] <= Len(wal')
  <2>1. lsn' <= Len(wal')
    BY <1>2, <1>3, MarksMove
  <2>2. ASSUME NEW c \in Client PROVE heard'[c] <= Len(wal')
    BY <1>2, <1>3, MarksMove
  <2> QED
    BY <2>1, <2>2
<1>5. slot' <= Len(wal')
  BY <1>1, <1>2, DatabaseStep
  DEF Grows, Untouched, Committed, SlotOpened, BatchStored, Positions
<1>6. Feed' \subseteq Delivered' /\ (slot' = NoSlot => Feed' = {})
  <2>1. CASE Untouched
    BY <2>1, FeedUnchanged DEF Untouched, Positions, Delivered, Rows
  <2>2. CASE Committed
    <3>1. Feed' = Feed /\ slot' = slot
      BY <2>2, FeedUnchanged DEF Committed
    <3>2. ASSUME NEW d \in Delivered PROVE d \in Delivered'
      BY <3>1, <1>1, <1>2 DEF Delivered, Rows, Grows
    <3> QED
      BY <3>1, <3>2 DEF Positions
  <2>3. CASE SlotOpened
    BY <2>3, FeedUnchanged DEF SlotOpened, Positions
  <2>4. CASE BatchStored
    <3>1. /\ BatchRows \subseteq Delivered /\ Feed' = Feed \cup BatchRows
          /\ Delivered' = Delivered
      BY <2>4, StoredBatchCovers
    <3>2. slot' = slot /\ slot # NoSlot
      BY <2>4 DEF BatchStored, PollInv
    <3> QED
      BY <3>1, <3>2 DEF Positions
  <2> QED
    BY <2>1, <2>2, <2>3, <2>4, DatabaseStep
<1> QED
  BY <1>4, <1>5, <1>6 DEF Positions

\* No step leaves an uncovered row behind an LSN that is stored or notified.
LEMMA NextCovered ==
    ASSUME IInv, TypeOK', [Next]_vars
    PROVE  (HistoryPrefixClosed /\ PositionCovered /\ NotifiedRowsStored)'
<1> USE DEF IInv
<1>1. Grows
  BY DatabaseGrows
<1>2. /\ \A l \in Int : l <= Len(wal) /\ CoveredTo(l) => CoveredTo(l)'
      /\ Len(wal) \in Nat
  BY <1>1 DEF Grows, TypeOK
<1>3. PositionCovered'
  <2>1. CASE lsn' = lsn
    <3>1. lsn \in Int /\ lsn <= Len(wal) /\ CoveredTo(lsn)
      BY DEF TypeOK, Positions, PositionCovered
    <3>2. \A l \in Int : l = lsn => CoveredTo(l)'
      BY <3>1, <1>2
    <3> QED
      BY <3>1, <3>2, <2>1 DEF PositionCovered, CoveredTo
  <2>2. CASE pc \in {"advance", "skip"} /\ lsn' = batch.last
    <3>1. batch.last \in Int /\ batch.last <= Len(wal) /\ CoveredTo(batch.last)
      BY <2>2 DEF TypeOK, PollInv
    <3>2. \A l \in Int : l = batch.last => CoveredTo(l)'
      BY <3>1, <1>2
    <3> QED
      BY <3>1, <3>2, <2>2 DEF PositionCovered, CoveredTo
  <2> QED
    BY <2>1, <2>2, MarksMove
<1>4. NotifiedRowsStored'
  <2> SUFFICES ASSUME NEW c \in Client
               PROVE  CoveredTo(heard[c])'
    BY DEF NotifiedRowsStored
  <2>1. CASE heard'[c] = heard[c]
    <3>1. heard[c] \in Int /\ heard[c] <= Len(wal) /\ CoveredTo(heard[c])
      BY DEF TypeOK, Positions, NotifiedRowsStored
    <3>2. \A l \in Int : l = heard[c] => CoveredTo(l)'
      BY <3>1, <1>2
    <3> QED
      BY <3>1, <3>2, <2>1 DEF CoveredTo
  <2>2. CASE pc = "notify" /\ heard'[c] = batch.last
    <3>1. batch.last \in Int /\ batch.last <= Len(wal) /\ CoveredTo(batch.last)
      BY <2>2 DEF TypeOK, PollInv
    <3>2. \A l \in Int : l = batch.last => CoveredTo(l)'
      BY <3>1, <1>2
    <3> QED
      BY <3>1, <3>2, <2>2 DEF CoveredTo
  <2> QED
    BY <2>1, <2>2, MarksMove
<1>5. HistoryPrefixClosed'
  <2> SUFFICES ASSUME NEW e \in Feed'
               PROVE  \A d \in Delivered' : d[1] <= e[1] => d \in Feed' \/ d[1] \in storeFailed'
    BY DEF HistoryPrefixClosed, CoveredTo
  <2>1. CASE e \in Feed
    <3>1. e[1] \in Int /\ e[1] <= Len(wal) /\ CoveredTo(e[1])
      BY <2>1 DEF Positions, HistoryPrefixClosed, Delivered, Rows
    <3>2. \A l \in Int : l = e[1] => CoveredTo(l)'
      BY <3>1, <1>2
    <3> QED
      BY <3>1, <3>2 DEF CoveredTo
  <2>2. CASE e \notin Feed
    <3>1. BatchStored
      BY <2>2, DatabaseStep, FeedUnchanged
      DEF Untouched, Committed, SlotOpened
    <3>2. Feed' = Feed \cup BatchRows /\ CoveredTo(batch.last)' /\ batch' = batch
      BY <3>1, StoredBatchCovers DEF BatchStored
    <3>3. e[1] \in Int /\ e[1] <= batch.last /\ batch.last \in Int
      BY <2>2, <3>2 DEF BatchRows, Rows, TypeOK
    <3>4. \A d \in Delivered' : d[1] \in Int
      BY DEF Delivered, Rows
    <3> QED
      BY <3>2, <3>3, <3>4 DEF CoveredTo
  <2> QED
    BY <2>1, <2>2
<1> QED
  BY <1>3, <1>4, <1>5

\* A store transaction shows all rows of a transaction or none.
LEMMA NextTransactionsWhole ==
    ASSUME IInv, TypeOK', [Next]_vars
    PROVE  TransactionsWhole'
<1> USE DEF IInv
<1>1. Grows
  BY DatabaseGrows
<1>2. \A e \in Feed : wal'[e[1]] = wal[e[1]]
  BY <1>1 DEF Positions, Delivered, Rows, Grows
<1>3. CASE Feed' = Feed
  BY <1>2, <1>3 DEF TransactionsWhole
<1>4. CASE BatchStored
  <2>1. Feed' = Feed \cup BatchRows /\ BatchRows \subseteq Delivered
    BY <1>4, StoredBatchCovers
  <2>2. \A e \in BatchRows : wal'[e[1]] = wal[e[1]]
    BY <2>1, <1>1 DEF Delivered, Rows, Grows
  <2>3. \A e \in BatchRows : \A r \in wal[e[1]] : <<e[1], r>> \in BatchRows
    <3> SUFFICES ASSUME NEW e \in BatchRows, NEW r \in wal[e[1]]
                 PROVE  <<e[1], r>> \in BatchRows
      OBVIOUS
    <3>1. e[1] \in batch.first..batch.last /\ e[1] \in 1..Len(wal)
      <4>1. e \in Rows(batch.first, batch.last) /\ e \in Rows(1, Len(wal))
        BY <2>1 DEF BatchRows, Delivered
      <4> QED
        BY <4>1 DEF Rows
    <3>2. r \in Row
      <4>1. wal \in Seq(SUBSET Row)
        BY DEF TypeOK
      <4> QED
        BY <3>1, <4>1
    <3> DEFINE d == <<e[1], r>>
    <3>3. d \in (batch.first..batch.last) \X Row /\ d[1] = e[1] /\ d[2] = r
      BY <3>1, <3>2
    <3> HIDE DEF d
    <3>4. d \in BatchRows
      BY <3>3 DEF BatchRows, Rows
    <3> QED
      BY <3>4 DEF d
  <2> QED
    BY <2>1, <2>2, <2>3, <1>2 DEF TransactionsWhole
<1> QED
  BY <1>3, <1>4, DatabaseStep, FeedUnchanged DEF Untouched, Committed, SlotOpened

\* A poll that is not touched by a step stays described by PollInv.
LEMMA PollUntouched ==
    ASSUME IInv, TypeOK', [Next]_vars, lsn' = lsn, batch' = batch,
           store' = store, storeFailed \subseteq storeFailed', pc' \in {pc, "idle"}
    PROVE  PollInv'
<1> USE DEF IInv
<1>1. Grows
  BY DatabaseGrows
<1>2. Len(wal) \in Nat /\ Len(wal') \in Nat /\ batch.first \in Nat /\ batch.last \in Nat
  BY DEF TypeOK
<1> SUFFICES ASSUME pc' = pc, pc # "idle" PROVE PollInv'
  BY DEF PollInv
<1>3. slot' = slot /\ slot # NoSlot
  BY DatabaseStep DEF PollInv, Untouched, Committed, SlotOpened, BatchStored
<1>4. \A l \in Int : l <= Len(wal) /\ CoveredTo(l) => CoveredTo(l)'
  BY <1>1 DEF Grows
<1>5. Len(wal) <= Len(wal')
  BY <1>1, <1>2 DEF Grows
<1>6. batch.last <= Len(wal')
  BY <1>5, <1>2 DEF PollInv
<1>7. pc = "store" => CoveredTo(batch.first - 1)'
  <2> SUFFICES ASSUME pc = "store" PROVE CoveredTo(batch.first - 1)'
    OBVIOUS
  <2>1. \A l \in Int : l = batch.first - 1 => CoveredTo(l)'
    BY <1>2, <1>4 DEF PollInv
  <2> QED
    BY <2>1, <1>2 DEF CoveredTo
<1>8. pc \in {"advance", "skip", "lookup", "notify"} => CoveredTo(batch.last)'
  <2> SUFFICES ASSUME pc \in {"advance", "skip", "lookup", "notify"}
               PROVE  CoveredTo(batch.last)'
    OBVIOUS
  <2>1. \A l \in Int : l = batch.last => CoveredTo(l)'
    BY <1>2, <1>4 DEF PollInv
  <2> QED
    BY <2>1, <1>2 DEF CoveredTo
<1>9. store.aborted /\ pc = "store" => BatchLSNs' \subseteq storeFailed'
  BY DEF PollInv, BatchLSNs
<1> QED
  BY <1>3, <1>6, <1>7, <1>8, <1>9 DEF PollInv

\* Each step of a poll leaves it where the next one expects it.
LEMMA NextPollInv ==
    ASSUME IInv, TypeOK', [Next]_vars
    PROVE  PollInv'
<1> USE DEF IInv
<1>1. Grows
  BY DatabaseGrows
<1>2. /\ \A l \in Int : l <= Len(wal) /\ CoveredTo(l) => CoveredTo(l)'
      /\ Len(wal) \in Nat /\ Len(wal') \in Nat /\ Len(wal') >= Len(wal)
      /\ lsn \in Nat /\ batch.first \in Nat /\ batch.last \in Nat
  <2>1. Len(wal) \in Nat /\ Len(wal') \in Nat
    BY DEF TypeOK
  <2>2. lsn \in Nat /\ batch.first \in Nat /\ batch.last \in Nat
    BY DEF TypeOK
  <2> QED
    BY <1>1, <2>1, <2>2 DEF Grows
<1>3. CASE Commit
  BY <1>3, PollUntouched DEF Commit, pollVars
<1>4. ASSUME NEW c \in Client, Register(c) PROVE PollInv'
  BY <1>4, PollUntouched DEF Register, pollVars
<1>5. ASSUME NEW r \in Caller, Initialise(r) PROVE PollInv'
  BY <1>5, PollUntouched DEF Initialise, InitRequest, CheckSlot, CreateSlot,
                             SlotError, StartPolling, pollVars
<1>6. CASE HandleStatus
  BY <1>6, PollUntouched DEF HandleStatus, pollVars
<1>7. CASE Poll
  <2> DEFINE from == FirstUnread
             last == IF Len(wal) < from + WalBatchSize - 1
                     THEN Len(wal) ELSE from + WalBatchSize - 1
             n    == Cardinality(Rows(from, last))
  <2>1. /\ slot # NoSlot /\ from <= Len(wal)
        /\ batch' = [first |-> from, last |-> last]
        /\ store' = [NoStore EXCEPT !.left = n]
        /\ pc' = IF n = 0 THEN "skip" ELSE "store"
        /\ UNCHANGED <<wal, slot, history, lsn, storeFailed>>
    BY <1>7 DEF Poll, dbVars
  <2>2. slot \in Nat
    BY <2>1 DEF TypeOK
  <2>3. /\ from \in Nat /\ last \in Nat
        /\ from <= last /\ last <= Len(wal)
        /\ lsn < from /\ slot < from /\ 1 <= from
    <3>1. from \in Nat /\ lsn < from /\ slot < from /\ 1 <= from
      BY <2>2, <1>2 DEF FirstUnread
    <3>2. from <= Len(wal)
      BY <2>1
    <3> HIDE DEF from, IInv
    <3> QED
      BY <3>1, <3>2, <1>2, WalBatchSizePositive
  <2>4. batch'.first = from /\ batch'.last = last
    BY <2>1
  <2>5. store'.left = n /\ ~store'.aborted
    BY <2>1 DEF NoStore
  <2>6. n \in Nat
    BY <2>3, RowsFinite
  <2>7. Delivered' = Delivered /\ Feed' = Feed
    BY <2>1 DEF Delivered, Rows, Feed
  <2>8. \A d \in Delivered : d[1] \in Int /\ d[1] > slot
    BY DEF Delivered, Rows
  <2>9. CoveredTo(batch.first - 1)'
    BY <2>1, <2>2, <2>3, <2>4, <2>7, <2>8, <1>2 DEF FirstUnread, CoveredTo, PositionCovered
  <2>10. CASE n = 0
    <3>1. pc' = "skip"
      BY <2>1, <2>10
    <3>2. Rows(from, last) = {}
      BY <2>10, RowsEmpty, <2>3
    <3>3. ASSUME NEW d \in Delivered, d[1] <= last PROVE d[1] <= from - 1
      <4>1. d \in (1..Len(wal)) \X Row /\ d[2] \in wal[d[1]]
        BY DEF Delivered, Rows
      <4> QED
        BY <4>1, <3>2, <3>3, <2>3 DEF Rows
    <3>4. CoveredTo(batch.last)'
      BY <3>3, <2>9, <2>7, <2>4 DEF CoveredTo
    <3> QED
      BY <3>1, <3>4, <2>1, <2>3, <2>4 DEF PollInv
  <2>11. CASE n # 0
    <3>1. pc' = "store" /\ store'.left > 0
      BY <2>1, <2>5, <2>6, <2>11
    <3> QED
      BY <3>1, <2>1, <2>3, <2>4, <2>5, <2>9 DEF PollInv
  <2> QED
    BY <2>10, <2>11
<1>8. CASE InsertBatch
  <2>1. /\ pc = "store" /\ store.left > 0
        /\ store' = [store EXCEPT !.left = LeftAfter(@), !.ok = @ \/ ~store.aborted]
        /\ UNCHANGED <<wal, slot, history, lsn, pc, batch, storeFailed>>
    BY <1>8 DEF InsertBatch, dbVars
  <2>2. (store'.ok <=> store.ok \/ ~store.aborted) /\ (store'.aborted <=> store.aborted)
    BY <2>1 DEF TypeOK
  <2>3. store'.ok \/ store'.aborted
    BY <2>2
  <2>4. CoveredTo(batch.first - 1)'
    BY <2>1 DEF CoveredTo, Delivered, Rows, Feed, PollInv
  <2> QED
    BY <2>1, <2>2, <2>3, <2>4 DEF PollInv, BatchLSNs
<1>9. CASE InsertError
  <2>1. /\ pc = "store"
        /\ store' = [store EXCEPT !.left = LeftAfter(@), !.aborted = TRUE]
        /\ storeFailed' = storeFailed \cup BatchLSNs
        /\ UNCHANGED <<wal, slot, history, lsn, pc, batch>>
    BY <1>9 DEF InsertError, dbVars
  <2>2. store'.aborted
    BY <2>1 DEF TypeOK
  <2>3. CoveredTo(batch.first - 1)'
    BY <2>1 DEF CoveredTo, Delivered, Rows, Feed, PollInv
  <2> QED
    BY <2>1, <2>2, <2>3 DEF PollInv, BatchLSNs
<1>10. CASE CommitStore
  <2>1. /\ pc = "store" /\ store.left = 0 /\ pc' \in {"advance", "skip"}
        /\ UNCHANGED <<slot, lsn, batch, storeFailed>>
    BY <1>10 DEF CommitStore
  <2>2. CoveredTo(batch.last)'
    <3>1. CASE store.aborted
      <4>1. UNCHANGED <<wal, history>>
        BY <1>10, <3>1 DEF CommitStore
      <4>2. Delivered' = Delivered /\ Feed' = Feed
        BY <4>1, <2>1 DEF Delivered, Rows, Feed
      <4>3. BatchLSNs \subseteq storeFailed /\ CoveredTo(batch.first - 1)
        BY <2>1, <3>1 DEF PollInv
      <4>4. \A d \in Delivered : d[1] \in Int
        BY DEF Delivered, Rows
      <4> QED
        BY <4>2, <4>3, <4>4, <2>1, <1>2 DEF CoveredTo, BatchLSNs
    <3>2. CASE ~store.aborted
      <4>1. BatchStored
        BY <1>10, <3>2 DEF CommitStore, BatchStored
      <4> QED
        BY <4>1, StoredBatchCovers
    <3> QED
      BY <3>1, <3>2
  <2> QED
    BY <2>1, <2>2, <1>2 DEF PollInv
<1>11. CASE StoreError
  <2>1. /\ pc = "store" /\ pc' = "skip"
        /\ storeFailed' = storeFailed \cup BatchLSNs
        /\ UNCHANGED <<slot, lsn, batch>>
        /\ \/ UNCHANGED <<wal, history>>
           \/ history' = Append(history, BatchRows) /\ wal' = Append(wal, {})
    BY <1>11 DEF StoreError
  <2>2. CoveredTo(batch.last)'
    <3>1. CASE UNCHANGED <<wal, history>>
      <4>1. Delivered' = Delivered /\ Feed' = Feed
        BY <3>1, <2>1 DEF Delivered, Rows, Feed
      <4>2. \A d \in Delivered : d[1] \in Int
        BY DEF Delivered, Rows
      <4>3. CoveredTo(batch.first - 1)
        BY <2>1 DEF PollInv
      <4> QED
        BY <4>1, <4>2, <4>3, <2>1, <1>2 DEF CoveredTo, BatchLSNs
    <3>2. CASE history' = Append(history, BatchRows) /\ wal' = Append(wal, {})
      BY <2>1, <3>2, StoredBatchCovers DEF BatchStored
    <3> QED
      BY <2>1, <3>1, <3>2
  <2> QED
    BY <2>1, <2>2, <1>2 DEF PollInv
<1>12. CASE SetLSN \/ SetLSNError
  <2>1. /\ pc \in {"advance", "skip"} /\ pc' \in {"lookup", "idle"}
        /\ UNCHANGED <<wal, slot, history, batch, storeFailed>>
    BY <1>12 DEF SetLSN, SetLSNError, AfterLSN, dbVars
  <2>2. CoveredTo(batch.last)'
    BY <2>1 DEF CoveredTo, Delivered, Rows, Feed, PollInv
  <2> QED
    BY <2>1, <2>2 DEF PollInv
<1>13. CASE GetAllClientIds \/ GetAllClientIdsStale
  <2>1. /\ pc = "lookup" /\ pc' = "notify"
        /\ UNCHANGED <<wal, slot, history, batch, storeFailed>>
    BY <1>13 DEF GetAllClientIds, GetAllClientIdsStale, dbVars
  <2>2. CoveredTo(batch.last)'
    BY <2>1 DEF CoveredTo, Delivered, Rows, Feed, PollInv
  <2> QED
    BY <2>1, <2>2 DEF PollInv
<1>14. ASSUME NEW c \in Client, NotifyClient(c) \/ NotifyError(c) PROVE PollInv'
  BY <1>14, PollUntouched DEF NotifyClient, NotifyError, dbVars
<1>15. CASE PollDone
  BY <1>15 DEF PollDone, PollInv
<1>16. CASE Evict
  BY <1>16 DEF Evict, PollInv
<1>17. CASE UNCHANGED vars
  BY <1>17, PollUntouched DEF vars, dbVars, pollVars
<1> QED
  BY <1>3, <1>4, <1>5, <1>6, <1>7, <1>8, <1>9, <1>10, <1>11, <1>12, <1>13, <1>14,
     <1>15, <1>16, <1>17 DEF Next, PollStep, PollFault

\* The inductive invariant holds in every reachable state.
THEOREM Invariant == Spec => []IInv
<1>1. IInv /\ [Next]_vars => IInv'
  <2> SUFFICES ASSUME IInv, [Next]_vars PROVE IInv'
    OBVIOUS
  <2>1. TypeOK'
    BY NextTypeOK DEF IInv
  <2> QED
    BY <2>1, NextPositions, NextPollInv, NextCovered, NextTransactionsWhole DEF IInv
<1> QED
  BY <1>1, InitInvariant, PTL DEF Spec

-----------------------------------------------------------------------------
(* The safety properties.                                                  *)

\* A reader of change_history that saw an LSN has been able to see every
\* earlier delivered row, unless its store was reported to fail.
THEOREM HistoryIsPrefixClosed == Spec => []HistoryPrefixClosed
<1>1. IInv => HistoryPrefixClosed
  BY DEF IInv
<1> QED
  BY <1>1, Invariant, PTL

\* The poller never skips a row without a reported store error.
THEOREM PositionIsCovered == Spec => []PositionCovered
<1>1. IInv => PositionCovered
  BY DEF IInv
<1> QED
  BY <1>1, Invariant, PTL

\* Clients are notified of nothing that change_history does not hold.
THEOREM NotifiedRowsAreStored == Spec => []NotifiedRowsStored
<1>1. IInv => NotifiedRowsStored
  BY DEF IInv
<1> QED
  BY <1>1, Invariant, PTL

\* Readers never see part of a transaction.
THEOREM TransactionsAreWhole == Spec => []TransactionsWhole
<1>1. IInv => TransactionsWhole
  BY DEF IInv
<1> QED
  BY <1>1, Invariant, PTL

\* The stored LSN never moves back: the poll that sets it started above it.
THEOREM PositionIsMonotone == Spec => PositionMonotone
<1>1. IInv /\ [Next]_vars => [lsn' >= lsn]_lsn
  <2> SUFFICES ASSUME IInv, [Next]_vars PROVE lsn' = lsn \/ lsn' >= lsn
    OBVIOUS
  <2>1. lsn \in Nat /\ batch.first \in Nat /\ batch.last \in Nat
    BY DEF IInv, TypeOK
  <2>2. pc \in {"advance", "skip"} => lsn < batch.first /\ batch.first <= batch.last
    BY DEF IInv, PollInv
  <2> QED
    BY <2>1, <2>2, MarksMove DEF IInv
<1> QED
  BY <1>1, Invariant, PTL DEF Spec, PositionMonotone

-----------------------------------------------------------------------------
(* Duplicates.                                                             *)

\* A row has its regular copy once its poll has stored it, or is behind the
\* stored LSN; every other copy is the price of a fault.
Settled(e) ==
    e[1] <= lsn \/ (pc \in {"advance", "skip"} /\ e[1] <= batch.last)

CopiesInv ==
    \A e \in Entry : Copies(e) <= faults + (IF Settled(e) THEN 1 ELSE 0)

\* The number of copies of a row is a natural number.
LEMMA CopiesNumber ==
    ASSUME TypeOK, NEW e
    PROVE  Copies(e) \in Nat /\ IsFiniteSet({ i \in DOMAIN history : e \in history[i] })
<1> DEFINE D == { i \in DOMAIN history : e \in history[i] }
<1>1. IsFiniteSet(DOMAIN history) /\ D \subseteq DOMAIN history
  BY FS_Interval DEF TypeOK
<1>2. IsFiniteSet(D)
  BY <1>1, FS_Subset
<1> QED
  BY <1>2, FS_CardinalityType DEF Copies

\* Storing a set of rows adds a copy of each of them and of no other.
LEMMA CopiesAppend ==
    ASSUME TypeOK, NEW e, NEW S \in SUBSET Entry, history' = Append(history, S)
    PROVE  /\ Copies(e) \in Nat
           /\ e \in S => Copies(e)' = Copies(e) + 1
           /\ e \notin S => Copies(e)' = Copies(e)
<1> DEFINE D == { i \in DOMAIN history : e \in history[i] }
           last == Len(history) + 1
<1>1. Len(history) \in Nat /\ DOMAIN history = 1..Len(history) /\ last \notin D
  BY DEF TypeOK
<1>2. /\ DOMAIN history' = DOMAIN history \cup {last}
      /\ history'[last] = S /\ \A i \in DOMAIN history : history'[i] = history[i]
  BY <1>1 DEF TypeOK
<1>3. IsFiniteSet(D)
  BY CopiesNumber
<1>4. Copies(e) = Cardinality(D) /\ Cardinality(D) \in Nat
  BY <1>3, CopiesNumber DEF Copies
<1>5. Copies(e)' = Cardinality({ i \in DOMAIN history' : e \in history'[i] })
  BY DEF Copies
<1>6. CASE e \in S
  <2>1. { i \in DOMAIN history' : e \in history'[i] } = D \cup {last}
    BY <1>2, <1>6
  <2> HIDE DEF D, last
  <2>2. Cardinality(D \cup {last}) = Cardinality(D) + 1
    BY <1>1, <1>3, FS_AddElement
  <2> QED
    BY <1>4, <1>5, <1>6, <2>1, <2>2
<1>7. CASE e \notin S
  <2>1. { i \in DOMAIN history' : e \in history'[i] } = D
    BY <1>2, <1>7
  <2> QED
    BY <1>4, <1>5, <1>7, <2>1
<1> QED
  BY <1>6, <1>7

\* What a step does to the copies and to what is settled: it stores the batch, or
\* it meets a fault, or it leaves settled what was.
StoresBatch ==
    /\ pc = "store" /\ pc' \in {"advance", "skip"}
    /\ history' = Append(history, BatchRows)
    /\ UNCHANGED <<lsn, batch>> /\ faults' \in {faults, faults + 1}

Faults == UNCHANGED history /\ faults' = faults + 1

KeepsSettled ==
    /\ UNCHANGED <<history, faults>>
    /\ \/ lsn' = lsn /\ (pc \in {"advance", "skip"} => UNCHANGED <<pc, batch>>)
       \/ pc \in {"advance", "skip"} /\ lsn' = batch.last

LEMMA CopiesStep ==
    ASSUME [Next]_vars
    PROVE  StoresBatch \/ Faults \/ KeepsSettled
<1> USE DEF StoresBatch, Faults, KeepsSettled
<1>1. CASE Commit
  BY <1>1 DEF Commit, clientVars, pollVars
<1>2. ASSUME NEW c \in Client, Register(c) PROVE KeepsSettled
  BY <1>2 DEF Register, dbVars, pollVars
<1>3. ASSUME NEW r \in Caller, Initialise(r) PROVE Faults \/ KeepsSettled
  BY <1>3 DEF Initialise, InitRequest, CheckSlot, CreateSlot, SlotError, StartPolling,
              Fault, dbVars, clientVars, pollVars
<1>4. CASE HandleStatus
  BY <1>4 DEF HandleStatus, clientVars, pollVars
<1>5. CASE Poll
  BY <1>5 DEF Poll, dbVars
<1>6. CASE CommitStore
  <2>1. /\ pc = "store" /\ pc' \in {"advance", "skip"}
        /\ UNCHANGED <<lsn, batch, faults>>
        /\ history' = history \/ history' = Append(history, BatchRows)
    BY <1>6 DEF CommitStore
  <2> QED
    BY <2>1
<1>7. CASE StoreError
  <2>1. /\ pc = "store" /\ pc' \in {"advance", "skip"}
        /\ UNCHANGED <<lsn, batch>> /\ faults' = faults + 1
        /\ history' = history \/ history' = Append(history, BatchRows)
    BY <1>7 DEF StoreError, Fault
  <2> QED
    BY <2>1
<1>8. CASE SetLSN
  BY <1>8 DEF SetLSN, HandledLSN, dbVars
<1>9. CASE InsertBatch \/ GetAllClientIds \/ PollDone
  BY <1>9 DEF InsertBatch, GetAllClientIds, PollDone, dbVars
<1>10. CASE InsertError \/ SetLSNError \/ GetAllClientIdsStale \/ Evict
  BY <1>10 DEF InsertError, SetLSNError, GetAllClientIdsStale, Evict, Fault, dbVars
<1>11. ASSUME NEW c \in Client, NotifyClient(c) \/ NotifyError(c)
       PROVE  Faults \/ KeepsSettled
  BY <1>11 DEF NotifyClient, NotifyError, Fault, dbVars
<1>12. CASE UNCHANGED vars
  BY <1>12 DEF vars, dbVars, pollVars
<1> QED
  BY <1>1, <1>2, <1>3, <1>4, <1>5, <1>6, <1>7, <1>8, <1>9, <1>10, <1>11, <1>12
  DEF Next, PollStep, PollFault

\* A batch is stored before it is settled, so that its copy is a regular one.
LEMMA NextCopies ==
    ASSUME IInv, CopiesInv, [Next]_vars
    PROVE  CopiesInv'
<1> SUFFICES ASSUME NEW e \in Entry
             PROVE  Copies(e)' <= faults' + (IF Settled(e)' THEN 1 ELSE 0)
  BY DEF CopiesInv
<1>1. /\ TypeOK /\ e[1] \in Int /\ lsn \in Int /\ faults \in Nat
      /\ batch.first \in Int /\ batch.last \in Int
  BY DEF IInv, TypeOK, Entry
<1>2. Copies(e) <= faults + (IF Settled(e) THEN 1 ELSE 0)
  BY DEF CopiesInv
<1>3. pc \in {"store", "advance", "skip"} => lsn < batch.first /\ batch.first <= batch.last
  BY DEF IInv, PollInv
<1>4. CASE StoresBatch
  <2>1. /\ Copies(e) \in Nat
        /\ e \in BatchRows => Copies(e)' = Copies(e) + 1
        /\ e \notin BatchRows => Copies(e)' = Copies(e)
    BY <1>1, <1>4, CopiesAppend, BatchRowsEntries DEF StoresBatch
  <2>2. CASE e \in BatchRows
    <3>1. batch.first <= e[1] /\ e[1] <= batch.last
      BY <1>1, <2>2 DEF BatchRows, Rows
    <3>2. ~Settled(e) /\ Settled(e)'
      BY <1>1, <1>3, <1>4, <3>1 DEF StoresBatch, Settled
    <3> QED
      BY <1>1, <1>2, <1>4, <2>1, <2>2, <3>2 DEF StoresBatch
  <2>3. CASE e \notin BatchRows
    <3>1. Settled(e) => Settled(e)'
      BY <1>4 DEF StoresBatch, Settled
    <3> QED
      BY <1>1, <1>2, <1>4, <2>1, <2>3, <3>1 DEF StoresBatch
  <2> QED
    BY <2>2, <2>3
<1>5. ASSUME UNCHANGED history PROVE Copies(e)' = Copies(e) /\ Copies(e) \in Nat
  <2>1. Copies(e)' = Copies(e)
    BY <1>5 DEF Copies
  <2> QED
    BY <1>1, <2>1, CopiesNumber
<1>6. CASE Faults
  BY <1>1, <1>2, <1>5, <1>6 DEF Faults
<1>7. CASE KeepsSettled
  <2>1. Settled(e) => Settled(e)'
    BY <1>1, <1>3, <1>7 DEF KeepsSettled, Settled
  <2> QED
    BY <1>1, <1>2, <1>5, <1>7, <2>1 DEF KeepsSettled
<1> QED
  BY <1>4, <1>6, <1>7, CopiesStep

\* Polling again costs at most one copy of a row for each failure or eviction.
THEOREM DuplicatesAreBounded == Spec => []BoundedDuplicates
<1>1. Init => CopiesInv
  <2> SUFFICES ASSUME Init, NEW e \in Entry
               PROVE  Copies(e) <= faults + (IF Settled(e) THEN 1 ELSE 0)
    BY DEF CopiesInv
  <2>1. { i \in DOMAIN history : e \in history[i] } = {}
    BY DEF Init
  <2>2. Copies(e) = 0
    BY <2>1, FS_EmptySet DEF Copies
  <2> QED
    BY <2>2 DEF Init
<1>2. IInv /\ CopiesInv /\ [Next]_vars => CopiesInv'
  BY NextCopies
<1>3. IInv /\ CopiesInv => BoundedDuplicates
  <2> SUFFICES ASSUME IInv, CopiesInv, NEW e \in Feed PROVE Copies(e) <= 1 + faults
    BY DEF BoundedDuplicates
  <2>1. TypeOK /\ e \in Entry /\ faults \in Nat
    BY DEF IInv, TypeOK, Feed
  <2>2. Copies(e) \in Nat
    BY <2>1, CopiesNumber
  <2> QED
    BY <2>1, <2>2 DEF CopiesInv
<1> QED
  BY <1>1, <1>2, <1>3, Invariant, PTL DEF Spec

-----------------------------------------------------------------------------
(* Refinement.                                                             *)

\* Replication implements ChangeFeed: whatever fails, readers of
\* change_history may rely on it alone.
THEOREM Refinement == Spec => ImplementsChangeFeed
<1>1. Init => Abstract!Init
  BY DEF Init, Abstract!Init, Feed, NoSlot
<1>2. IInv /\ IInv' /\ [Next]_vars => [Abstract!Next]_Abstract!vars
  <2> SUFFICES ASSUME IInv, IInv', [Next]_vars PROVE [Abstract!Next]_Abstract!vars
    OBVIOUS
  <2>1. CASE Committed
    BY <2>1, FeedUnchanged DEF Committed, Abstract!Next, Abstract!Commit
  <2>2. CASE SlotOpened
    BY <2>2, FeedUnchanged DEF SlotOpened, Abstract!Next, Abstract!OpenSlot, NoSlot
  <2>3. CASE BatchStored
    <3>1. /\ Abstract!Delivered = Delivered /\ Abstract!Delivered' = Delivered'
          /\ Abstract!Closed' = HistoryPrefixClosed'
      BY DEF Abstract!Delivered, Delivered, Rows, Abstract!Closed,
             HistoryPrefixClosed, CoveredTo
    <3>2. Feed' \subseteq Delivered' /\ HistoryPrefixClosed' /\ TypeOK'
      BY DEF IInv, Positions
    <3>3. Feed \subseteq Feed' /\ Delivered' = Delivered
      BY <2>3, <3>2, StoredBatchCovers
    <3>4. /\ wal' = Append(wal, {}) /\ slot' = slot
          /\ storeFailed \subseteq storeFailed'
      BY <2>3 DEF BatchStored
    <3>5. Abstract!Publish
      BY <3>1, <3>2, <3>3, <3>4 DEF Abstract!Publish
    <3> QED
      BY <3>5 DEF Abstract!Next
  <2>4. CASE Untouched
    <3>1. \E lsns \in SUBSET (1..Len(wal)) : storeFailed' = storeFailed \cup lsns
      BY FailuresAreCommitted DEF IInv
    <3>2. UNCHANGED <<wal, slot, Feed>>
      BY <2>4, FeedUnchanged DEF Untouched
    <3>3. Abstract!GiveUp
      BY <3>1, <3>2 DEF Abstract!GiveUp
    <3> QED
      BY <3>3 DEF Abstract!Next
  <2> QED
    BY <2>1, <2>2, <2>3, <2>4, DatabaseStep
<1> QED
  BY <1>1, <1>2, Invariant, PTL DEF Spec, Abstract!Spec, ImplementsChangeFeed
=============================================================================
