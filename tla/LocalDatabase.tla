---------------------------- MODULE LocalDatabase ----------------------------
(***************************************************************************)
(* The browser's database: batches from the server (db/change-processor.ts *)
(* of apps/web, sync-adapters.ts, IncomingChangeProcessor), edits of the   *)
(* user (services.ts, trackChange) and saves of the LSN, statement by      *)
(* statement on the one PGlite session that all query runners share        *)
(* (newtypeorm/NewPGliteQueryRunner.ts).                                   *)
(*                                                                         *)
(* PGlite follows Postgres: BEGIN inside a transaction changes nothing,    *)
(* COMMIT and ROLLBACK end whatever is open, whoever opened it, a failing  *)
(* statement aborts it, and an aborted transaction refuses everything but  *)
(* its end, where COMMIT rolls back without an error.  TypeORM's save      *)
(* selects the row and, if it differs, writes it between a BEGIN and a     *)
(* COMMIT of its own, or sends ROLLBACK after an error.                    *)
(*                                                                         *)
(* The server's changes arrive in order; module ServerChanges has the      *)
(* order in which they really arrive.  An operator named X_Y is X with a   *)
(* plausible defect.                                                       *)
(***************************************************************************)
EXTENDS Integers, Sequences, FiniteSets

CONSTANTS
    Parent, Child,  \* ids (numbers) of synced rows of a referenced, a referencing table
    NewChild,       \* ids of referencing rows the user may create
    ParentOf,       \* the row a referencing row refers to
    MaxWrites,      \* bound: changes on the server
    MaxBatches,     \* bound: batches delivered, the last number of one
    MaxEdits,       \* bound: edits by the user, the last number of one
    MaxStarts,      \* bound: batches and edits together
    MaxCrashes      \* bound: restarts of the application

Synced == Parent \cup Child
Row == Synced \cup NewChild

ASSUME RowNumbers == Row \subseteq Nat /\ IsFiniteSet(Row)
ASSUME TablesDisjoint == Parent \cap (Child \cup NewChild) = {}
ASSUME ParentOfType == ParentOf \in [Child \cup NewChild -> Parent]
ASSUME BoundsNat == {MaxWrites, MaxBatches, MaxEdits, MaxStarts, MaxCrashes} \subseteq Nat

\* Who sends statements: a batch, the save of its LSN, an edit.
Proc == {"batch", "lsn"} \X (1..MaxBatches) \cup {"edit"} \X (1..MaxEdits)

\* "mark" is a record of another table: the tracked change, the saved LSN.
\* Versions stand for the data of a row; 0 is no row.
Change == [op : {"insert", "update", "delete", "mark"}, row : Row \cup {0}, v : Nat, ts : Nat]
Mark == [op |-> "mark", row |-> 0, v |-> 0, ts |-> 0]

VARIABLES
    srv,        \* the rows on the server
    feed,       \* change_history not delivered yet
    work,       \* the session's view: rows and, as a history variable, what was done by whom
    committed,  \* what the other readers and the next start see
    txn,        \* state of the session's transaction
    pc, todo,   \* what a process does next, for which changes
    insertion,  \* a save found no row and will insert
    outcome,    \* how a process ended
    hit,        \* history: whose uncommitted effects somebody else destroyed
    given,      \* history: the changes of each batch
    collapsed,  \* history: batches in which an insert became an update
    writes, crashes     \* bound counters

dbVars   == <<work, committed, txn, hit>>
procVars == <<pc, todo, insertion, outcome>>
feedVars == <<srv, feed, given, collapsed, writes>>
vars     == <<dbVars, procVars, feedVars, crashes>>

DB == [rows : [Row -> Nat], did : SUBSET (Proc \X Change)]

PC == {"idle", "begin", "next", "write", "read", "saveBegin", "saveWrite", "saveCommit",
       "commit", "rollbackSave", "rollback", "done"}
AtChange == {"next", "write", "read", "saveBegin", "saveWrite", "saveCommit"}
Outcome == {"none", "running", "ok", "failed", "noop", "refused", "cut"}

TypeOK ==
    /\ srv \in [Synced -> Nat] /\ feed \in Seq(Change)
    /\ work \in DB /\ committed \in DB
    /\ txn \in {"none", "open", "aborted"}
    /\ pc \in [Proc -> PC] /\ todo \in [Proc -> Seq(Change)]
    /\ insertion \in [Proc -> BOOLEAN] /\ outcome \in [Proc -> Outcome]
    /\ \A p \in Proc :
          /\ pc[p] = "idle" <=> outcome[p] = "none"
          /\ pc[p] = "done" <=> outcome[p] \notin {"none", "running"}
          /\ pc[p] \in {"begin", "commit", "rollback"} => p[1] = "batch"
          /\ pc[p] \in {"begin"} \cup AtChange => todo[p] # << >>
    /\ hit \subseteq Proc
    /\ given \in [1..MaxBatches -> SUBSET Change] /\ collapsed \subseteq 1..MaxBatches
    /\ writes \in Nat /\ crashes \in Nat

IsChild(r) == r \in Child \cup NewChild

\* The initial sync has left the browser with the rows of the server.
Init ==
    /\ srv \in [Synced -> {0, 1}] /\ feed = << >>
    /\ \A r \in Child : srv[r] # 0 => srv[ParentOf[r]] # 0
    /\ work = [rows |-> [r \in Row |-> IF r \in Synced THEN srv[r] ELSE 0], did |-> {}]
    /\ committed = work
    /\ txn = "none"
    /\ pc = [p \in Proc |-> "idle"] /\ todo = [p \in Proc |-> << >>]
    /\ insertion = [p \in Proc |-> FALSE] /\ outcome = [p \in Proc |-> "none"]
    /\ hit = {} /\ given = [b \in 1..MaxBatches |-> {}] /\ collapsed = {}
    /\ writes = 0 /\ crashes = 0

-----------------------------------------------------------------------------
(* Constraints of the tables.                                              *)

MayInsert(rows, r) == rows[r] = 0 /\ (IsChild(r) => rows[ParentOf[r]] # 0)
MayDelete(rows, r) == \A c \in DOMAIN rows : IsChild(c) /\ ParentOf[c] = r => rows[c] = 0

-----------------------------------------------------------------------------
(* The server and what it makes of its changes.                            *)

\* The places of the changes of a row in a list of changes.
Places(raw, r) == { i \in DOMAIN raw : raw[i].row = r }
First(S) == CHOOSE i \in S : \A j \in S : i <= j
Last(S) == CHOOSE i \in S : \A j \in S : j <= i

\* updated_at never moves back, but two changes of a row may have the same one.
LastTs(r) == IF Places(feed, r) = {} THEN 0 ELSE feed[Last(Places(feed, r))].ts

\* The browser learns of a change only when it receives it and takes any part of
\* the feed then: nothing is lost by writing the whole feed first.
ServerWrite ==
    /\ writes < MaxWrites /\ writes' = writes + 1
    /\ \A p \in Proc : outcome[p] = "none"
    /\ \E r \in Synced, op \in {"insert", "update", "delete"}, newer \in {0, 1} :
          /\ IF op = "insert"
             THEN MayInsert(srv, r) /\ Places(feed, r) = {}
             ELSE srv[r] # 0
          /\ op = "delete" => MayDelete(srv, r)
          /\ op # "update" => newer = 1
          /\ srv' = [srv EXCEPT ![r] = IF op = "delete" THEN 0 ELSE writes' + 1]
          /\ feed' = Append(feed, [op |-> op, row |-> r, v |-> srv'[r], ts |-> LastTs(r) + newer])
    /\ UNCHANGED <<dbVars, procVars, given, collapsed, crashes>>

Newest(raw, S) == { i \in S : \A j \in S : raw[j].ts <= raw[i].ts }

\* deduplicateChanges: a delete wins (it has no updated_at); otherwise what is
\* older than the newest updated_at is skipped, updates of that very moment are
\* merged into an insert, and of such updates the first one's data stays.
Net(raw, r) ==
    LET S == Places(raw, r)
        N == Newest(raw, S)
    IN  IF raw[Last(S)].op = "delete" THEN raw[Last(S)]
        ELSE IF raw[First(N)].op = "insert" THEN [raw[First(N)] EXCEPT !.v = raw[Last(N)].v]
        ELSE raw[First(N)]

Rows(raw) == { raw[i].row : i \in DOMAIN raw }
Deduplicated(raw) == { Net(raw, r) : r \in Rows(raw) }

\* A row that this batch creates is sent as an update only.
Collapsed(raw) ==
    \E r \in Rows(raw) :
        raw[First(Places(raw, r))].op = "insert" /\ Net(raw, r).op = "update"

\* getDependencyOrder in the browser sorts by table alone; within a table the
\* server has put deletes last.
DependencyOrder(c) ==
    (IF IsChild(c.row) THEN 2 ELSE 0) + (IF c.op = "delete" THEN 1 ELSE 0)

Orders_Unsorted(S) ==
    { s \in [1..Cardinality(S) -> S] : \A i, j \in DOMAIN s : i < j => s[i] # s[j] }

Orders(S) ==
    { s \in [1..Cardinality(S) -> S] :
        /\ \A i, j \in DOMAIN s : i < j => s[i] # s[j]
        /\ \A i, j \in DOMAIN s : i < j => DependencyOrder(s[i]) <= DependencyOrder(s[j]) }

-----------------------------------------------------------------------------
(* The processes.                                                          *)

Start(p, first, s) ==
    /\ pc' = [pc EXCEPT ![p] = first]
    /\ todo' = [todo EXCEPT ![p] = s]
    /\ outcome' = [outcome EXCEPT ![p] = "running"]
    /\ UNCHANGED insertion

Starts == Cardinality({p \in Proc : p[1] # "lsn" /\ outcome[p] # "none"})

Fresh(k, n) ==
    /\ outcome[<<k, n>>] = "none" /\ (n > 1 => outcome[<<k, n-1>>] # "none")
    /\ Starts < MaxStarts

\* handleTableChangesMessage saves the LSN and passes the batch on; it is
\* refused while isProcessing is set.  The last batch of a bounded run takes what
\* is left of the feed, which might as well not have been written.
Receive(b) ==
    /\ Fresh("batch", b) /\ feed # << >>
    /\ LET busy == \E k \in 1..MaxBatches : outcome[<<"batch", k>>] = "running" IN
       \E n \in (IF Starts + 1 < MaxStarts THEN 1 ELSE Len(feed))..Len(feed) :
          LET raw == SubSeq(feed, 1, n) IN
          /\ feed' = SubSeq(feed, n + 1, Len(feed))
          /\ given' = [given EXCEPT ![b] = Deduplicated(raw)]
          /\ collapsed' = IF Collapsed(raw) THEN collapsed \cup {b} ELSE collapsed
          /\ \E s \in Orders(Deduplicated(raw)) :
                /\ pc' = [pc EXCEPT ![<<"lsn", b>>] = "next",
                                    ![<<"batch", b>>] = IF busy THEN "done" ELSE "begin"]
                /\ todo' = [todo EXCEPT ![<<"lsn", b>>] = <<Mark>>,
                                        ![<<"batch", b>>] = IF busy THEN << >> ELSE s]
                /\ outcome' = [outcome EXCEPT
                      ![<<"lsn", b>>] = "running",
                      ![<<"batch", b>>] = IF busy THEN "refused" ELSE "running"]
    /\ UNCHANGED <<srv, dbVars, insertion, writes, crashes>>

Edit_TracksFirst(e) ==
    /\ Fresh("edit", e)
    /\ \E r \in Row :
          /\ committed.rows[r] # 0
          /\ Start(<<"edit", e>>, "next",
                   <<Mark, [op |-> "update", row |-> r, v |-> MaxWrites + 1 + e, ts |-> 0]>>)
    /\ UNCHANGED <<dbVars, feedVars, crashes>>

\* The user creates, updates or deletes a row he sees.  The version of an edit
\* differs from the server's.
Edit(e) ==
    /\ Fresh("edit", e)
    /\ \E r \in Row, op \in {"insert", "update", "delete"} :
          /\ IF op = "insert" THEN r \in NewChild /\ MayInsert(committed.rows, r)
                              ELSE committed.rows[r] # 0
          /\ Start(<<"edit", e>>, "next",
                   <<[op |-> op, row |-> r, v |-> IF op = "delete" THEN 0 ELSE MaxWrites + 1 + e,
                      ts |-> 0], Mark>>)
    /\ UNCHANGED <<dbVars, feedVars, crashes>>

Now(p) == Head(todo[p])

Advance_OneMore(p) ==
    LET rest == Tail(todo[p]) IN
    /\ todo' = [todo EXCEPT ![p] = rest]
    /\ pc' = [pc EXCEPT ![p] = IF todo[p] # << >> THEN "next"
                               ELSE IF p[1] = "batch" THEN "commit" ELSE "done"]
    /\ UNCHANGED <<insertion, outcome>>

Advance_NotAwaited(p) ==
    LET rest == Tail(todo[p]) IN
    /\ todo' = [todo EXCEPT ![p] = rest]
    /\ pc' = [pc EXCEPT ![p] = IF rest # << >> /\ p[1] # "edit" THEN "next"
                               ELSE IF p[1] = "batch" THEN "commit" ELSE "done"]
    /\ outcome' = IF p[1] = "edit" \/ (rest = << >> /\ p[1] = "lsn")
                  THEN [outcome EXCEPT ![p] = "ok"] ELSE outcome
    /\ UNCHANGED insertion

\* A process ends its current change and turns to the next one.
Advance(p) ==
    LET rest == Tail(todo[p]) IN
    /\ todo' = [todo EXCEPT ![p] = rest]
    /\ pc' = [pc EXCEPT ![p] = IF rest # << >> THEN "next"
                               ELSE IF p[1] = "batch" THEN "commit" ELSE "done"]
    /\ outcome' = IF rest = << >> /\ p[1] # "batch" THEN [outcome EXCEPT ![p] = "ok"] ELSE outcome
    /\ UNCHANGED insertion

Goto(p, l) == pc' = [pc EXCEPT ![p] = l] /\ UNCHANGED <<todo, insertion, outcome>>

Throw_LogsOnly(p, inSave) ==
    IF p[1] = "batch" /\ ~inSave THEN Advance(p)
    ELSE /\ pc' = [pc EXCEPT ![p] = IF inSave THEN "rollbackSave" ELSE "done"]
         /\ outcome' = IF inSave THEN outcome ELSE [outcome EXCEPT ![p] = "failed"]
         /\ UNCHANGED <<todo, insertion>>

\* An error ends the process with the ROLLBACKs of the transactions it has
\* begun: the one of the save, the one of the batch.
Throw(p, inSave) ==
    /\ pc' = [pc EXCEPT ![p] = IF inSave THEN "rollbackSave"
                               ELSE IF p[1] = "batch" THEN "rollback" ELSE "done"]
    /\ outcome' = IF inSave \/ p[1] = "batch" THEN outcome ELSE [outcome EXCEPT ![p] = "failed"]
    /\ UNCHANGED <<todo, insertion>>

Uncommitted == { d[1] : d \in work.did \ committed.did }

-----------------------------------------------------------------------------
(* The session.                                                            *)

Effect(p, rows) == [rows |-> rows, did |-> work.did \cup {<<p, Now(p)>>}]

\* A statement that succeeds; outside a transaction it is committed at once.
Write(p, rows) ==
    /\ work' = Effect(p, rows)
    /\ committed' = IF txn = "none" THEN work' ELSE committed
    /\ UNCHANGED <<txn, hit>>

\* A statement that fails.
Abort(p) ==
    /\ txn' = IF txn = "none" THEN "none" ELSE "aborted"
    /\ hit' = IF txn = "none" THEN hit ELSE hit \cup (Uncommitted \ {p})
    /\ UNCHANGED <<work, committed>>

Begin(p, next, inSave) ==
    IF txn = "aborted" THEN Abort(p) /\ Throw(p, inSave)
    ELSE /\ txn' = "open"
         /\ Goto(p, next)
         /\ UNCHANGED <<work, committed, hit>>

EndTransaction(rolledBack) ==
    /\ txn' = "none"
    /\ IF rolledBack THEN work' = committed /\ UNCHANGED committed
                     ELSE committed' = work /\ UNCHANGED work

\* COMMIT of an aborted transaction reports no error.
CommitSession == EndTransaction(txn = "aborted") /\ UNCHANGED hit

RollbackSession(p) ==
    /\ EndTransaction(TRUE)
    /\ hit' = hit \cup (Uncommitted \ {p})

-----------------------------------------------------------------------------
(* Statements of processBatch.                                             *)

\* A failing BEGIN leaves isTransactionActive unset: rollbackTransaction throws.
BeginBatch(b) ==
    LET p == <<"batch", b>> IN
    /\ pc[p] = "begin"
    /\ IF txn = "aborted"
       THEN /\ Abort(p)
            /\ pc' = [pc EXCEPT ![p] = "done"] /\ outcome' = [outcome EXCEPT ![p] = "failed"]
            /\ UNCHANGED <<todo, insertion>>
       ELSE Begin(p, "next", FALSE)
    /\ UNCHANGED <<feedVars, crashes>>

CommitBatch(b) ==
    LET p == <<"batch", b>> IN
    /\ pc[p] = "commit"
    /\ CommitSession
    /\ pc' = [pc EXCEPT ![p] = "done"] /\ outcome' = [outcome EXCEPT ![p] = "ok"]
    /\ UNCHANGED <<todo, insertion, feedVars, crashes>>

RollbackBatch_OnlyReports(b) ==
    LET p == <<"batch", b>> IN
    /\ pc[p] = "rollback"
    /\ pc' = [pc EXCEPT ![p] = "done"] /\ outcome' = [outcome EXCEPT ![p] = "failed"]
    /\ UNCHANGED <<dbVars, todo, insertion, feedVars, crashes>>

RollbackBatch(b) ==
    LET p == <<"batch", b>> IN
    /\ pc[p] = "rollback"
    /\ RollbackSession(p)
    /\ pc' = [pc EXCEPT ![p] = "done"] /\ outcome' = [outcome EXCEPT ![p] = "failed"]
    /\ UNCHANGED <<todo, insertion, feedVars, crashes>>

-----------------------------------------------------------------------------
(* Repository.save, of a row, a tracked change or the LSN.                 *)

\* The SELECT.  A row that is already as it should be is not written.
SaveFind(p) ==
    /\ pc[p] = "next" /\ Now(p).op \in {"insert", "mark"}
    /\ IF txn = "aborted" THEN Abort(p) /\ Throw(p, FALSE)
       ELSE IF Now(p).op = "insert" /\ work.rows[Now(p).row] = Now(p).v
       THEN Write(p, work.rows) /\ Advance(p)
       ELSE /\ UNCHANGED dbVars
            /\ pc' = [pc EXCEPT ![p] = "saveBegin"]
            /\ insertion' = [insertion EXCEPT ![p] =
                  Now(p).op = "insert" /\ work.rows[Now(p).row] = 0]
            /\ UNCHANGED <<todo, outcome>>
    /\ UNCHANGED <<feedVars, crashes>>

SaveBegin(p) ==
    /\ pc[p] = "saveBegin"
    /\ Begin(p, "saveWrite", FALSE)
    /\ UNCHANGED <<feedVars, crashes>>

\* INSERT, or UPDATE of the row found, which may be gone.
SaveWrite(p) ==
    /\ pc[p] = "saveWrite"
    /\ LET c == Now(p) IN
       IF txn = "aborted" \/ (insertion[p] /\ ~MayInsert(work.rows, c.row))
       THEN Abort(p) /\ Throw(p, TRUE)
       ELSE /\ Write(p, IF c.op = "mark" \/ (~insertion[p] /\ work.rows[c.row] = 0)
                        THEN work.rows ELSE [work.rows EXCEPT ![c.row] = c.v])
            /\ Goto(p, "saveCommit")
    /\ UNCHANGED <<feedVars, crashes>>

SaveCommit(p) ==
    /\ pc[p] = "saveCommit"
    /\ CommitSession
    /\ Advance(p)
    /\ UNCHANGED <<feedVars, crashes>>

RollbackSave(p) ==
    /\ pc[p] = "rollbackSave"
    /\ RollbackSession(p)
    /\ Throw(p, FALSE)
    /\ UNCHANGED <<feedVars, crashes>>

-----------------------------------------------------------------------------
(* Repository.update and delete.  A service looks for the row first.       *)

ServiceFind(p) ==
    /\ p[1] = "edit" /\ pc[p] = "next" /\ Now(p).op \in {"update", "delete"}
    /\ IF txn = "aborted" THEN Abort(p) /\ Throw(p, FALSE)
       ELSE /\ UNCHANGED dbVars
            /\ IF work.rows[Now(p).row] = 0 THEN Throw(p, FALSE) ELSE Goto(p, "write")
    /\ UNCHANGED <<feedVars, crashes>>

AtWrite(p, op) ==
    /\ pc[p] = (IF p[1] = "edit" THEN "write" ELSE "next")
    /\ Now(p).op = op

\* An UPDATE of an absent row changes nothing and is no error.
Update(p) ==
    /\ AtWrite(p, "update")
    /\ LET c == Now(p) IN
       IF txn = "aborted" THEN Abort(p) /\ Throw(p, FALSE)
       ELSE /\ Write(p, IF work.rows[c.row] = 0 THEN work.rows
                        ELSE [work.rows EXCEPT ![c.row] = c.v])
            /\ Goto(p, "read")
    /\ UNCHANGED <<feedVars, crashes>>

\* update returns findById; a service that gets null fails in trackChange.
Read(p) ==
    /\ pc[p] = "read"
    /\ IF txn = "aborted" THEN Abort(p) /\ Throw(p, FALSE)
       ELSE /\ UNCHANGED dbVars
            /\ IF p[1] = "edit" /\ work.rows[Now(p).row] = 0 THEN Throw(p, FALSE) ELSE Advance(p)
    /\ UNCHANGED <<feedVars, crashes>>

\* A service that deleted nothing tracks nothing.
Delete(p) ==
    /\ AtWrite(p, "delete")
    /\ LET c == Now(p)
           absent == work.rows[c.row] = 0
       IN
       IF txn = "aborted" \/ (~absent /\ ~MayDelete(work.rows, c.row))
       THEN Abort(p) /\ Throw(p, FALSE)
       ELSE /\ Write(p, [work.rows EXCEPT ![c.row] = 0])
            /\ IF absent /\ p[1] = "edit"
               THEN /\ pc' = [pc EXCEPT ![p] = "done"] /\ outcome' = [outcome EXCEPT ![p] = "noop"]
                    /\ UNCHANGED <<todo, insertion>>
               ELSE Advance(p)
    /\ UNCHANGED <<feedVars, crashes>>

-----------------------------------------------------------------------------
\* The application restarts: what was not committed is gone.
Crash ==
    /\ crashes < MaxCrashes /\ crashes' = crashes + 1
    /\ \E p \in Proc : outcome[p] = "running"
    /\ txn' = "none" /\ work' = committed
    /\ pc' = [p \in Proc |-> IF pc[p] = "idle" THEN "idle" ELSE "done"]
    /\ outcome' = [p \in Proc |-> IF outcome[p] = "running" THEN "cut" ELSE outcome[p]]
    /\ hit' = hit \cup Uncommitted
    /\ UNCHANGED <<committed, todo, insertion, feedVars>>

Statement(p) ==
    \/ SaveFind(p) \/ SaveBegin(p) \/ SaveWrite(p) \/ SaveCommit(p) \/ RollbackSave(p)
    \/ ServiceFind(p) \/ Update(p) \/ Read(p) \/ Delete(p)

BatchStatement(b) == BeginBatch(b) \/ CommitBatch(b) \/ RollbackBatch(b)

Next ==
    \/ ServerWrite
    \/ \E b \in 1..MaxBatches : Receive(b) \/ BatchStatement(b)
    \/ \E e \in 1..MaxEdits : Edit(e)
    \/ \E p \in Proc : Statement(p)
    \/ Crash

Spec == Init /\ [][Next]_vars

\* PGlite answers every statement.
FairSpec ==
    /\ Spec
    /\ \A p \in Proc : WF_vars(Statement(p))
    /\ \A b \in 1..MaxBatches : WF_vars(BatchStatement(b))

-----------------------------------------------------------------------------
(* Correctness.                                                            *)

Done(p, c) == <<p, c>> \in committed.did
RowDone(p) == \E d \in committed.did : d[1] = p /\ d[2] # Mark

\* A batch that is acknowledged was carried out and committed, change by change,
\* unless another process destroyed its transaction: the server will not send
\* it again.
AckedIsApplied ==
    \A b \in 1..MaxBatches :
        LET p == <<"batch", b>> IN
        outcome[p] = "ok" /\ p \notin hit => \A c \in given[b] : Done(p, c)

\* An edit a service reports as done is in the table and tracked for sending,
\* unless another process destroyed its transaction.
EditKept ==
    \A e \in 1..MaxEdits :
        LET p == <<"edit", e>> IN
        outcome[p] = "ok" /\ p \notin hit => Done(p, Mark) /\ RowDone(p)

\* What is tracked for sending was done in the table, under the same excuse; the
\* opposite does not hold: a service that fails or is cut off in between leaves
\* an edit that is never sent.
TrackedWasDone ==
    \A e \in 1..MaxEdits :
        LET p == <<"edit", e>> IN
        Done(p, Mark) /\ p \notin hit => RowDone(p)

\* A batch of a browser without edits fails only if this or an earlier batch
\* created a row as an update, deletes a row together with the rows that refer
\* to it (the browser has the former first), or was itself not applied.
Cause(b) ==
    \/ b \in collapsed
    \/ \E c, d \in given[b] : c.op = "delete" /\ d.op = "delete" /\ IsChild(c.row)
                            /\ ParentOf[c.row] = d.row
    \/ outcome[<<"batch", b>>] \in {"refused", "cut"}

FailsOnlyWithCause ==
    \A b \in 1..MaxBatches :
        outcome[<<"batch", b>>] = "failed" =>
            \/ \E e \in 1..MaxEdits : outcome[<<"edit", e>>] # "none"
            \/ \E k \in 1..b : Cause(k)

\* README.md of the web sync client: "Changes are processed in database
\* transactions for atomicity".  A failed batch leaves nothing in the tables.
BatchAtomic ==
    \A b \in 1..MaxBatches :
        outcome[<<"batch", b>>] = "failed" => ~RowDone(<<"batch", b>>)

\* A failing process leaves the transaction to be ended by whoever has begun
\* it: the session never stays in a transaction, in which nothing would be kept.
TransactionEnds == txn # "none" ~> txn = "none"
=============================================================================
