-------------------------- MODULE LocalDatabaseProofs --------------------------
(***************************************************************************)
(* Proofs about LocalDatabase for any tables, constraints and bounds: what *)
(* is acknowledged was applied, what is reported as done is kept, and what *)
(* is tracked was done, unless another process destroyed it; rows, changes *)
(* and processes keep their types; and in a browser without edits a batch  *)
(* fails only for one of the causes that FailsOnlyWithCause lists.         *)
(*                                                                         *)
(* IInv follows every effect from the session's view, where a process has  *)
(* put it, to what is committed: effects that are not in it yet belong to  *)
(* a process that is hit or fails, as soon as the transaction is aborted.  *)
(*                                                                         *)
(* CInv, for the causes, relates four things: the feed leads from the rows *)
(* of the browser to the rows of the server (FeedInv); a batch of it says  *)
(* for each row what the feed says (NetMeans) and, without a cause, fits   *)
(* the rows it will find (BatchFits); what fits goes on fitting while the  *)
(* batch is carried out (Carried); so the batch that runs, or the last one *)
(* that did, leaves the rows the feed goes on from (Healthy).              *)
(***************************************************************************)
EXTENDS LocalDatabase, FiniteNumbers

-----------------------------------------------------------------------------
(* The invariant.                                                          *)

\* Where a process stands before and after the statement that does its current
\* change.
Ahead == {"begin", "next", "write", "saveBegin", "saveWrite"}
HeadDone == {"read", "saveCommit"}

Failing(p) ==
    pc[p] \in {"rollbackSave", "rollback"} \/ (pc[p] = "done" /\ outcome[p] # "ok")

\* The session against what is committed.
SessionInv ==
    /\ txn \in {"none", "open", "aborted"}
    /\ committed.did \subseteq work.did
    /\ \A d \in work.did : d[1] \in Proc
    /\ txn = "none" => work = committed
    /\ txn = "aborted" => \A d \in work.did \ committed.did : d[1] \in hit \/ Failing(d[1])

WorkRow(p) == \E d \in work.did : d[1] = p /\ d[2] # Mark

Tracked(p) ==
    p \notin hit =>
        /\ <<p, Mark>> \in work.did => WorkRow(p)
        /\ <<p, Mark>> \in committed.did => RowDone(p)

IsSeq(q) == q \in Seq({ q[i] : i \in DOMAIN q })

\* The control state and what is left to do.
ControlInv(p) ==
    /\ IsSeq(todo[p])
    /\ pc[p] \in Ahead \cup HeadDone => todo[p] # << >>
    /\ pc[p] = "commit" => p[1] = "batch" /\ todo[p] = << >>
    /\ pc[p] = "begin" => p[1] = "batch"
    /\ outcome[p] = "ok" => pc[p] = "done"
    /\ outcome[p] = "none" => pc[p] = "idle"

\* An edit has its row and its mark to do, or its mark only.
EditInv(p) ==
    /\ pc[p] \in Ahead \cup HeadDone =>
        \/ /\ Len(todo[p]) = 2 /\ todo[p][1].op # "mark" /\ todo[p][2] = Mark
           /\ p \notin hit /\ pc[p] \in HeadDone => <<p, todo[p][1]>> \in work.did
        \/ /\ Len(todo[p]) = 1 /\ todo[p][1] = Mark /\ pc[p] \notin {"write", "read"}
           /\ p \notin hit => WorkRow(p) /\ (pc[p] = "saveCommit" => <<p, Mark>> \in work.did)
    /\ outcome[p] = "ok" /\ p \notin hit => Done(p, Mark) /\ RowDone(p)

Elements(q) == { q[i] : i \in DOMAIN q }
Left(p) == IF pc[p] \in HeadDone THEN Elements(Tail(todo[p])) ELSE Elements(todo[p])

\* A change of a batch has been done or is left.
BatchInv(b) ==
    LET p == <<"batch", b>> IN p \notin hit =>
        /\ pc[p] \in Ahead \cup HeadDone \cup {"commit"} =>
              \A c \in given[b] : <<p, c>> \in work.did \/ c \in Left(p)
        /\ outcome[p] = "ok" => \A c \in given[b] : Done(p, c)

\* The save of the LSN starts with its batch.
StartInv(b) == outcome[<<"batch", b>>] = "none" => outcome[<<"lsn", b>>] = "none"

IInv ==
    /\ DOMAIN pc = Proc /\ DOMAIN todo = Proc /\ DOMAIN outcome = Proc
    /\ DOMAIN given = 1..MaxBatches /\ IsSeq(feed)
    /\ SessionInv
    /\ \A p \in Proc : ControlInv(p)
    /\ \A e \in 1..MaxEdits : Tracked(<<"edit", e>>) /\ EditInv(<<"edit", e>>)
    /\ \A b \in 1..MaxBatches : BatchInv(b) /\ StartInv(b)

-----------------------------------------------------------------------------
(* The kinds of statements.                                                *)

\* Only one process moves.
Only(p) ==
    /\ DOMAIN pc' = Proc /\ DOMAIN todo' = Proc /\ DOMAIN outcome' = Proc
    /\ \A q \in Proc \ {p} :
          pc'[q] = pc[q] /\ todo'[q] = todo[q] /\ outcome'[q] = outcome[q]
    /\ UNCHANGED feedVars

Stays(p) == todo'[p] = todo[p] /\ outcome'[p] = outcome[p]

Writes(p) ==
    /\ txn # "aborted"
    /\ work'.did = work.did \cup {<<p, Now(p)>>}
    /\ committed' = IF txn = "none" THEN work' ELSE committed
    /\ UNCHANGED <<txn, hit>>

\* A process fails, or finds that there is nothing to do for it.
Fails(p) ==
    /\ todo'[p] = todo[p] /\ Failing(p)' /\ outcome'[p] \notin {"ok", "none"}
    /\ \/ UNCHANGED dbVars \/ Abort(p) \/ RollbackSession(p)
       \/ Writes(p) /\ pc[p] \in Ahead /\ Now(p).op # "mark"

\* It takes a step towards the statement that does its change.
Turns(p) ==
    /\ pc[p] \in Ahead /\ pc'[p] \in Ahead \ {"begin"} /\ Stays(p)
    /\ pc'[p] = "write" => Now(p).op # "mark"
    /\ \/ UNCHANGED dbVars
       \/ txn # "aborted" /\ txn' = "open" /\ UNCHANGED <<work, committed, hit>>

\* It does its change.
DoesHead(p) ==
    /\ pc[p] \in Ahead /\ pc'[p] \in HeadDone /\ Stays(p)
    /\ pc'[p] = "read" => Now(p).op # "mark"
    /\ Writes(p)

\* It goes on to the next change, in the statement itself or after it.
MovesOn(p) ==
    /\ todo'[p] = Tail(todo[p])
    /\ pc'[p] = (IF todo'[p] # << >> THEN "next" ELSE IF p[1] = "batch" THEN "commit" ELSE "done")
    /\ outcome'[p] = (IF todo'[p] = << >> /\ p[1] # "batch" THEN "ok" ELSE outcome[p])

DoesAndMovesOn(p) ==
    pc[p] \in Ahead /\ Now(p).op # "mark" /\ Writes(p) /\ MovesOn(p)

GoesOn(p) ==
    /\ MovesOn(p)
    /\ \/ pc[p] = "saveCommit" /\ CommitSession
       \/ pc[p] = "read" /\ UNCHANGED dbVars

Ends(p) ==
    /\ pc[p] = "commit" /\ CommitSession
    /\ pc'[p] = "done" /\ outcome'[p] = "ok" /\ todo'[p] = todo[p]

Kind(p) ==
    /\ Only(p)
    /\ Fails(p) \/ Turns(p) \/ DoesHead(p) \/ DoesAndMovesOn(p) \/ GoesOn(p) \/ Ends(p)

\* Reports of failure.
LEMMA ThrowFails ==
    ASSUME IInv, NEW p \in Proc, NEW inSave, Throw(p, inSave), UNCHANGED feedVars,
           outcome[p] \notin {"ok", "none"},
           UNCHANGED dbVars \/ Abort(p) \/ RollbackSession(p)
    PROVE  Kind(p)
<1>1. Only(p) /\ todo'[p] = todo[p]
  BY DEF Throw, Only, IInv
<1>2. Failing(p)' /\ outcome'[p] \notin {"ok", "none"}
  BY DEF Throw, Failing, IInv
<1> QED
  BY <1>1, <1>2 DEF Kind, Fails

\* Turning to a place before the statement that does the change.
LEMMA GotoTurns ==
    ASSUME IInv, NEW p \in Proc, NEW l \in Ahead \ {"begin"}, Goto(p, l), UNCHANGED feedVars,
           pc[p] \in Ahead, l = "write" => Now(p).op # "mark",
           UNCHANGED dbVars \/ (txn # "aborted" /\ txn' = "open" /\ UNCHANGED <<work, committed, hit>>)
    PROVE  Kind(p)
  BY DEF Goto, Kind, Only, Turns, Stays, IInv

\* A change that is done.
LEMMA WriteWrites ==
    ASSUME NEW p, NEW rows, Write(p, rows), txn # "aborted"
    PROVE  Writes(p)
  BY DEF Write, Effect, Writes

\* A process that has written goes on to what follows the write.
LEMMA GotoDoes ==
    ASSUME IInv, NEW p \in Proc, NEW l \in HeadDone, Goto(p, l), UNCHANGED feedVars,
           pc[p] \in Ahead, l = "read" => Now(p).op # "mark", Writes(p)
    PROVE  Kind(p)
  BY DEF Goto, Kind, Only, DoesHead, Stays, IInv

\* The next change.
LEMMA AdvanceMoves ==
    ASSUME IInv, NEW p \in Proc, Advance(p), UNCHANGED feedVars
    PROVE  Only(p) /\ MovesOn(p)
  BY DEF Advance, Only, MovesOn, IInv

\* A process that is about to do something is running.
LEMMA NotOk ==
    ASSUME IInv, NEW p \in Proc, pc[p] \notin {"idle", "done"}
    PROVE  outcome[p] \notin {"ok", "none"}
  BY DEF IInv, ControlInv

\* BEGIN.
LEMMA BeginKind ==
    ASSUME IInv, NEW p \in Proc, NEW l \in {"next", "saveWrite"}, Begin(p, l, FALSE),
           UNCHANGED feedVars, pc[p] \in Ahead
    PROVE  Kind(p)
<1>1. outcome[p] \notin {"ok", "none"} /\ l \in Ahead \ {"begin"}
  BY NotOk DEF Ahead
<1>2. CASE txn = "aborted"
  BY <1>1, <1>2, ThrowFails DEF Begin
<1>3. CASE txn # "aborted"
  BY <1>1, <1>3, GotoTurns DEF Begin
<1> QED
  BY <1>2, <1>3

\* Every statement is of one of these kinds.
LEMMA StatementKind ==
    ASSUME IInv, NEW p \in Proc, Statement(p)
    PROVE  Kind(p) /\ outcome[p] # "none"
<1>1. outcome[p] \notin {"ok", "none"}
  <2>1. pc[p] \notin {"idle", "done"}
    BY DEF Statement, SaveFind, SaveBegin, SaveWrite, SaveCommit, RollbackSave,
           ServiceFind, Update, Read, Delete, AtWrite
  <2> QED
    BY <2>1, NotOk
<1> SUFFICES Kind(p)
  BY <1>1
<1>2. CASE SaveFind(p)
  <2>1. pc[p] = "next" /\ pc[p] \in Ahead /\ UNCHANGED feedVars
    BY <1>2 DEF SaveFind, Ahead
  <2>2. CASE txn = "aborted"
    BY <1>1, <1>2, <2>1, <2>2, ThrowFails DEF SaveFind
  <2>3. CASE txn # "aborted" /\ Now(p).op = "insert" /\ work.rows[Now(p).row] = Now(p).v
    <3>1. Write(p, work.rows) /\ Advance(p)
      BY <1>2, <2>3 DEF SaveFind
    <3> QED
      BY <2>1, <2>3, <3>1, WriteWrites, AdvanceMoves DEF Kind, DoesAndMovesOn
  <2>4. CASE txn # "aborted" /\ ~(Now(p).op = "insert" /\ work.rows[Now(p).row] = Now(p).v)
    <3>1. /\ UNCHANGED dbVars /\ pc' = [pc EXCEPT ![p] = "saveBegin"]
          /\ UNCHANGED <<todo, outcome>>
      BY <1>2, <2>4 DEF SaveFind
    <3> QED
      BY <2>1, <3>1 DEF Kind, Only, Turns, Stays, Ahead, IInv
  <2> QED
    BY <2>2, <2>3, <2>4
<1>3. CASE SaveBegin(p)
  BY <1>3, BeginKind DEF SaveBegin, Ahead
<1>4. CASE SaveWrite(p)
  <2>1. pc[p] \in Ahead /\ UNCHANGED feedVars
    BY <1>4 DEF SaveWrite, Ahead
  <2>2. CASE txn = "aborted" \/ (insertion[p] /\ ~MayInsert(work.rows, Now(p).row))
    BY <1>1, <1>4, <2>1, <2>2, ThrowFails DEF SaveWrite
  <2>3. CASE ~(txn = "aborted" \/ (insertion[p] /\ ~MayInsert(work.rows, Now(p).row)))
    <3>1. (\E rows : Write(p, rows)) /\ Goto(p, "saveCommit")
      BY <1>4, <2>3 DEF SaveWrite
    <3>2. Writes(p)
      BY <2>3, <3>1, WriteWrites
    <3> QED
      BY <2>1, <3>1, <3>2, GotoDoes DEF HeadDone
  <2> QED
    BY <2>2, <2>3
<1>5. CASE SaveCommit(p)
  <2>1. pc[p] = "saveCommit" /\ CommitSession /\ Advance(p) /\ UNCHANGED feedVars
    BY <1>5 DEF SaveCommit
  <2>2. Only(p) /\ MovesOn(p)
    BY <2>1, AdvanceMoves
  <2> QED
    BY <2>1, <2>2 DEF Kind, GoesOn
<1>6. CASE RollbackSave(p)
  BY <1>1, <1>6, ThrowFails DEF RollbackSave
<1>7. CASE ServiceFind(p)
  <2>1. /\ pc[p] \in Ahead /\ Now(p).op # "mark" /\ UNCHANGED feedVars
    BY <1>7 DEF ServiceFind, Ahead
  <2>2. CASE Throw(p, FALSE) /\ (UNCHANGED dbVars \/ Abort(p))
    BY <1>1, <2>1, <2>2, ThrowFails
  <2>3. CASE UNCHANGED dbVars /\ Goto(p, "write")
    BY <2>1, <2>3, GotoTurns DEF Ahead
  <2> QED
    BY <1>7, <2>2, <2>3 DEF ServiceFind
<1>8. CASE Update(p)
  <2>1. /\ pc[p] \in Ahead /\ Now(p).op # "mark" /\ UNCHANGED feedVars
    BY <1>8 DEF Update, AtWrite, Ahead
  <2>2. CASE txn = "aborted"
    BY <1>1, <1>8, <2>1, <2>2, ThrowFails DEF Update
  <2>3. CASE txn # "aborted"
    <3>1. (\E rows : Write(p, rows)) /\ Goto(p, "read")
      BY <1>8, <2>3 DEF Update
    <3>2. Writes(p)
      BY <2>3, <3>1, WriteWrites
    <3> QED
      BY <2>1, <3>1, <3>2, GotoDoes DEF HeadDone
  <2> QED
    BY <2>2, <2>3
<1>9. CASE Read(p)
  <2>1. pc[p] = "read" /\ UNCHANGED feedVars
    BY <1>9 DEF Read
  <2>2. CASE Throw(p, FALSE) /\ (UNCHANGED dbVars \/ Abort(p))
    BY <1>1, <2>1, <2>2, ThrowFails
  <2>3. CASE UNCHANGED dbVars /\ Advance(p)
    BY <2>1, <2>3, AdvanceMoves DEF Kind, GoesOn
  <2> QED
    BY <1>9, <2>2, <2>3 DEF Read
<1>10. CASE Delete(p)
  <2>1. /\ pc[p] \in Ahead /\ Now(p).op # "mark" /\ UNCHANGED feedVars
    BY <1>10 DEF Delete, AtWrite, Ahead
  <2>2. CASE Abort(p) /\ Throw(p, FALSE)
    BY <1>1, <2>1, <2>2, ThrowFails
  <2>3. CASE txn # "aborted" /\ ~(Abort(p) /\ Throw(p, FALSE))
    <3>1. /\ Write(p, [work.rows EXCEPT ![Now(p).row] = 0])
          /\ \/ Advance(p)
             \/ /\ pc' = [pc EXCEPT ![p] = "done"] /\ outcome' = [outcome EXCEPT ![p] = "noop"]
                /\ UNCHANGED todo
      BY <1>10, <2>3 DEF Delete
    <3>2. Writes(p)
      BY <2>3, <3>1, WriteWrites
    <3>3. CASE Advance(p)
      BY <2>1, <3>2, <3>3, AdvanceMoves DEF Kind, DoesAndMovesOn
    <3>4. CASE /\ pc' = [pc EXCEPT ![p] = "done"] /\ outcome' = [outcome EXCEPT ![p] = "noop"]
               /\ UNCHANGED todo
      BY <2>1, <3>2, <3>4 DEF Kind, Fails, Failing, Only, IInv
    <3> QED
      BY <3>1, <3>3, <3>4
  <2> QED
    BY <1>10, <2>2, <2>3 DEF Delete
<1> QED
  BY <1>2, <1>3, <1>4, <1>5, <1>6, <1>7, <1>8, <1>9, <1>10 DEF Statement

\* The statements of processBatch are of those kinds too.
LEMMA BatchStatementKind ==
    ASSUME IInv, NEW b \in 1..MaxBatches, BatchStatement(b)
    PROVE  Kind(<<"batch", b>>) /\ outcome[<<"batch", b>>] # "none"
<1> DEFINE p == <<"batch", b>>
<1>1. p \in Proc
  BY DEF Proc
<1>2. outcome[p] # "none"
  <2>1. pc[p] \notin {"idle", "done"}
    BY DEF BatchStatement, BeginBatch, CommitBatch, RollbackBatch
  <2> HIDE DEF p
  <2> QED
    BY <1>1, <2>1, NotOk
<1> SUFFICES Kind(p)
  BY <1>2
<1>3. CASE BeginBatch(b)
  <2>1. pc[p] \in Ahead /\ UNCHANGED feedVars
    BY <1>3 DEF BeginBatch, Ahead
  <2>2. CASE txn = "aborted"
    <3>1. /\ Abort(p) /\ pc' = [pc EXCEPT ![p] = "done"] /\ outcome' = [outcome EXCEPT ![p] = "failed"]
          /\ UNCHANGED todo
      BY <1>3, <2>2 DEF BeginBatch
    <3> HIDE DEF p
    <3>2. Kind(p)
      BY <1>1, <2>1, <3>1 DEF Kind, Fails, Failing, Only, IInv
    <3> QED
      BY <3>2 DEF p
  <2>3. CASE txn # "aborted"
    BY <1>1, <1>3, <2>1, <2>3, BeginKind DEF BeginBatch
  <2> QED
    BY <2>2, <2>3
<1>4. CASE CommitBatch(b)
  <2>1. /\ pc[p] = "commit" /\ CommitSession /\ UNCHANGED feedVars /\ UNCHANGED todo
        /\ pc' = [pc EXCEPT ![p] = "done"] /\ outcome' = [outcome EXCEPT ![p] = "ok"]
    BY <1>4 DEF CommitBatch
  <2> HIDE DEF p
  <2>2. Kind(p)
    BY <1>1, <2>1 DEF Kind, Ends, Only, IInv
  <2> QED
    BY <2>2 DEF p
<1>5. CASE RollbackBatch(b)
  <2>1. /\ RollbackSession(p) /\ UNCHANGED feedVars /\ UNCHANGED todo
        /\ pc' = [pc EXCEPT ![p] = "done"] /\ outcome' = [outcome EXCEPT ![p] = "failed"]
    BY <1>5 DEF RollbackBatch
  <2> HIDE DEF p
  <2>2. Kind(p)
    BY <1>1, <2>1 DEF Kind, Fails, Failing, Only, IInv
  <2> QED
    BY <2>2 DEF p
<1> QED
  BY <1>3, <1>4, <1>5 DEF BatchStatement

-----------------------------------------------------------------------------
(* What a statement does to the session.                                   *)

\* The effects of a statement, with what they mean for the process.
LEMMA Effects ==
    ASSUME IInv, NEW p \in Proc, Kind(p)
    PROVE  \/ UNCHANGED dbVars /\ (Failing(p) => Failing(p)')
           \/ (Abort(p) \/ RollbackSession(p)) /\ Failing(p)'
           \/ Writes(p) /\ pc[p] \in Ahead
           \/ txn # "aborted" /\ txn' = "open" /\ UNCHANGED <<work, committed, hit>>
           \/ CommitSession /\ ~Failing(p)
<1>1. Fails(p) \/ Turns(p) \/ DoesHead(p) \/ DoesAndMovesOn(p) \/ GoesOn(p) \/ Ends(p)
  BY DEF Kind
<1>2. CASE Fails(p)
  BY <1>2 DEF Fails
<1>3. CASE Turns(p)
  BY <1>3 DEF Turns, Ahead, Failing
<1>4. CASE DoesHead(p) \/ DoesAndMovesOn(p)
  BY <1>4 DEF DoesHead, DoesAndMovesOn
<1>5. CASE GoesOn(p)
  BY <1>5 DEF GoesOn, Failing
<1>6. CASE Ends(p)
  BY <1>6 DEF Ends, Failing
<1> QED
  BY <1>1, <1>2, <1>3, <1>4, <1>5, <1>6

\* A process that does not move keeps failing, or not.
LEMMA OthersFailing ==
    ASSUME IInv, NEW p \in Proc, Kind(p), NEW q \in Proc \ {p}
    PROVE  Failing(q)' <=> Failing(q)
  BY DEF Kind, Only, Failing

\* The session keeps its invariant.
LEMMA SessionKept ==
    ASSUME IInv, NEW p \in Proc, Kind(p)
    PROVE  SessionInv' /\ hit \subseteq hit' /\ committed.did \subseteq committed'.did
<1> USE DEF SessionInv
<1>1. SessionInv
  BY DEF IInv
<1>2. CASE UNCHANGED dbVars /\ (Failing(p) => Failing(p)')
  <2>1. UNCHANGED <<work, committed, txn, hit>>
    BY <1>2 DEF dbVars
  <2>2. ASSUME txn = "aborted", NEW d \in work.did \ committed.did
        PROVE  d[1] \in hit \/ Failing(d[1])'
    <3>1. d[1] \in Proc /\ (d[1] \in hit \/ Failing(d[1]))
      BY <1>1, <2>2
    <3> QED
      BY <1>2, <3>1, OthersFailing DEF Failing
  <2> QED
    BY <1>1, <2>1, <2>2 DEF Failing
<1>3. CASE Abort(p) /\ Failing(p)'
  <2>1. /\ UNCHANGED <<work, committed>>
        /\ txn' = IF txn = "none" THEN "none" ELSE "aborted"
        /\ hit' = IF txn = "none" THEN hit ELSE hit \cup (Uncommitted \ {p})
    BY <1>3 DEF Abort
  <2>2. ASSUME txn # "none", NEW d \in work.did \ committed.did
        PROVE  d[1] \in hit' \/ Failing(d[1])'
    <3>1. d[1] \in Uncommitted
      BY DEF Uncommitted
    <3> QED
      BY <1>3, <2>1, <2>2, <3>1 DEF Failing
  <2> QED
    BY <1>1, <2>1, <2>2 DEF Failing
<1>4. CASE RollbackSession(p)
  BY <1>1, <1>4 DEF RollbackSession, EndTransaction
<1>5. CASE Writes(p)
  <2>1. \A d \in work'.did : d[1] \in Proc
    BY <1>1, <1>5 DEF Writes
  <2>2. committed'.did \subseteq work'.did /\ (txn = "none" => work' = committed')
        /\ committed.did \subseteq committed'.did
    BY <1>1, <1>5 DEF Writes
  <2> QED
    BY <1>1, <1>5, <2>1, <2>2 DEF Writes
<1>6. CASE txn # "aborted" /\ txn' = "open" /\ UNCHANGED <<work, committed, hit>>
  BY <1>1, <1>6
<1>7. CASE CommitSession
  BY <1>1, <1>7 DEF CommitSession, EndTransaction
<1> QED
  BY <1>2, <1>3, <1>4, <1>5, <1>6, <1>7, Effects

\* What a process has done is still there, unless it is hit or fails; after a
\* COMMIT it is committed.
LEMMA Survives ==
    ASSUME IInv, NEW p \in Proc, Kind(p), NEW q \in Proc, q \notin hit', ~Failing(q)'
    PROVE  /\ \A x : <<q, x>> \in work.did => <<q, x>> \in work'.did
           /\ WorkRow(q) => WorkRow(q)'
           /\ CommitSession => work' = committed'
<1>1. SessionInv
  BY DEF IInv
<1>2. ~Failing(q) \/ p = q
  BY OthersFailing
<1>3. ASSUME NEW d \in work.did, d[1] = q PROVE d \in work'.did
  <2>1. CASE UNCHANGED dbVars
    BY <2>1 DEF dbVars
  <2>2. CASE Abort(p)
    BY <2>2 DEF Abort
  <2>3. CASE RollbackSession(p) /\ Failing(p)'
    <3>1. work' = committed /\ hit' = hit \cup (Uncommitted \ {p}) /\ q # p
      BY <2>3 DEF RollbackSession, EndTransaction
    <3>2. d \notin committed.did => q \in Uncommitted
      BY <1>3 DEF Uncommitted
    <3> QED
      BY <3>1, <3>2
  <2>4. CASE Writes(p)
    BY <2>4 DEF Writes
  <2>5. CASE UNCHANGED <<work, committed, hit>>
    BY <2>5
  <2>6. CASE CommitSession /\ ~Failing(p)
    <3>1. CASE txn = "aborted"
      <4>1. work' = committed /\ hit' = hit
        BY <2>6, <3>1 DEF CommitSession, EndTransaction
      <4>2. q \notin hit /\ ~Failing(q)
        BY <1>2, <2>6, <4>1
      <4> QED
        BY <1>1, <1>3, <3>1, <4>1, <4>2 DEF SessionInv
    <3>2. CASE txn # "aborted"
      BY <2>6, <3>2 DEF CommitSession, EndTransaction
    <3> QED
      BY <3>1, <3>2
  <2> QED
    BY <2>1, <2>2, <2>3, <2>4, <2>5, <2>6, Effects
<1>4. CommitSession => work' = committed'
  BY DEF CommitSession, EndTransaction
<1>5. WorkRow(q) => WorkRow(q)'
  BY <1>3 DEF WorkRow
<1> QED
  BY <1>3, <1>4, <1>5

-----------------------------------------------------------------------------
(* The processes.                                                          *)

\* A process that does not move keeps its invariant.
LEMMA OtherEdits ==
    ASSUME IInv, NEW p \in Proc, Kind(p), NEW e \in 1..MaxEdits, p # <<"edit", e>>
    PROVE  EditInv(<<"edit", e>>)'
<1> DEFINE q == <<"edit", e>>
<1>1. q \in Proc /\ q # p
  BY DEF Proc
<1>2. EditInv(q)
  BY DEF IInv
<1> HIDE DEF q
<1>3. pc'[q] = pc[q] /\ todo'[q] = todo[q] /\ outcome'[q] = outcome[q]
  BY <1>1 DEF Kind, Only
<1>4. hit \subseteq hit' /\ committed.did \subseteq committed'.did
  BY SessionKept
<1>5. ASSUME pc[q] \in Ahead \cup HeadDone, q \notin hit'
      PROVE  /\ \A x : <<q, x>> \in work.did => <<q, x>> \in work'.did
             /\ WorkRow(q) => WorkRow(q)'
  <2>1. ~Failing(q)'
    BY <1>3, <1>5 DEF Failing, Ahead, HeadDone
  <2> QED
    BY <1>1, <1>5, <2>1, Survives
<1>6. ASSUME pc'[q] \in Ahead \cup HeadDone
      PROVE \/ /\ Len(todo'[q]) = 2 /\ todo'[q][1].op # "mark" /\ todo'[q][2] = Mark
               /\ q \notin hit' /\ pc'[q] \in HeadDone => <<q, todo'[q][1]>> \in work'.did
            \/ /\ Len(todo'[q]) = 1 /\ todo'[q][1] = Mark /\ pc'[q] \notin {"write", "read"}
               /\ q \notin hit' =>
                     WorkRow(q)' /\ (pc'[q] = "saveCommit" => <<q, Mark>> \in work'.did)
  BY <1>2, <1>3, <1>4, <1>5, <1>6 DEF EditInv
<1>7. outcome'[q] = "ok" /\ q \notin hit' => Done(q, Mark)' /\ RowDone(q)'
  BY <1>2, <1>3, <1>4 DEF EditInv, Done, RowDone
<1>8. EditInv(q)'
  BY <1>6, <1>7 DEF EditInv
<1> QED
  BY <1>8 DEF q

\* A statement of another process keeps what is known of a batch.
LEMMA OtherBatches ==
    ASSUME IInv, NEW p \in Proc, Kind(p), NEW b \in 1..MaxBatches, p # <<"batch", b>>
    PROVE  BatchInv(b)'
<1> DEFINE q == <<"batch", b>>
<1>1. q \in Proc /\ q # p
  BY DEF Proc
<1>2. BatchInv(b)
  BY DEF IInv
<1>3. pc'[q] = pc[q] /\ todo'[q] = todo[q] /\ outcome'[q] = outcome[q] /\ given' = given
  BY <1>1 DEF Kind, Only, feedVars
<1>4. hit \subseteq hit' /\ committed.did \subseteq committed'.did
  BY SessionKept
<1>5. ASSUME pc[q] \in Ahead \cup HeadDone \cup {"commit"}, q \notin hit'
      PROVE  \A x : <<q, x>> \in work.did => <<q, x>> \in work'.did
  <2>1. ~Failing(q)'
    BY <1>3, <1>5 DEF Failing, Ahead, HeadDone
  <2> HIDE DEF q
  <2> QED
    BY <1>1, <1>5, <2>1, Survives
<1>6. Left(q)' = Left(q)
  BY <1>3 DEF Left, Elements
<1> QED
  BY <1>2, <1>3, <1>4, <1>5, <1>6 DEF BatchInv, Done

\* Whatever set the elements are taken from.
LEMMA SeqOver ==
    ASSUME NEW S, NEW q \in Seq(S)
    PROVE  IsSeq(q)
<1>1. PICK n \in Nat : q \in [1..n -> S]
  OBVIOUS
<1> DEFINE R == { q[i] : i \in DOMAIN q }
<1>2. q \in [1..n -> R]
  BY <1>1
<1>3. q \in Seq(R)
  <2> HIDE DEF R
  <2> QED
    BY <1>2
<1> QED
  BY <1>3 DEF IsSeq

\* What is left of a sequence.
LEMMA Rest ==
    ASSUME NEW q, IsSeq(q), q # << >>
    PROVE  /\ IsSeq(Tail(q)) /\ Elements(q) = {Head(q)} \cup Elements(Tail(q))
           /\ Head(q) = q[1]
           /\ Len(q) = 1 => Tail(q) = << >>
           /\ Len(q) = 2 => Len(Tail(q)) = 1 /\ Tail(q)[1] = q[2] /\ Tail(q) # << >>
<1> DEFINE S == { q[i] : i \in DOMAIN q }
<1>1. q \in Seq(S)
  BY DEF IsSeq
<1>2. \A i \in 1..Len(q) : q[i] \in S
  BY <1>1
<1> HIDE DEF S
<1>3. /\ Len(q) \in Nat \ {0} /\ DOMAIN q = 1..Len(q) /\ Tail(q) \in Seq(S) /\ Head(q) = q[1]
      /\ DOMAIN Tail(q) = 1..(Len(q) - 1) /\ Len(Tail(q)) = Len(q) - 1
      /\ \A i \in 1..(Len(q) - 1) : Tail(q)[i] = q[i+1]
  BY <1>1
<1>4. IsSeq(Tail(q))
  BY <1>3, SeqOver
<1>5. ASSUME NEW x
      PROVE  x \in Elements(q) <=> x \in {Head(q)} \cup Elements(Tail(q))
  <2>1. ASSUME NEW i \in DOMAIN q, i # 1, x = q[i] PROVE x \in Elements(Tail(q))
    <3>1. i - 1 \in DOMAIN Tail(q) /\ x = Tail(q)[i-1]
      BY <1>3, <2>1
    <3> QED
      BY <3>1 DEF Elements
  <2>2. ASSUME NEW i \in DOMAIN Tail(q), x = Tail(q)[i] PROVE x \in Elements(q)
    <3>1. i + 1 \in DOMAIN q /\ x = q[i+1]
      BY <1>3, <2>2
    <3> QED
      BY <3>1 DEF Elements
  <2>3. 1 \in DOMAIN q /\ q[1] \in Elements(q)
    BY <1>3 DEF Elements
  <2> QED
    BY <1>3, <2>1, <2>2, <2>3 DEF Elements
<1>6. Elements(q) = {Head(q)} \cup Elements(Tail(q))
  BY <1>5
<1>7. ASSUME Len(q) = 1 PROVE Tail(q) = << >>
  BY <1>3, <1>7
<1>8. ASSUME Len(q) = 2 PROVE Len(Tail(q)) = 1 /\ Tail(q)[1] = q[2] /\ Tail(q) # << >>
  BY <1>3, <1>8
<1> QED
  BY <1>3, <1>4, <1>6, <1>7, <1>8

\* A process that moves keeps its control state.
LEMMA ControlKept ==
    ASSUME IInv, NEW p \in Proc, Kind(p), NEW q \in Proc
    PROVE  ControlInv(q)'
<1>1. ControlInv(p) /\ ControlInv(q)
  BY DEF IInv
<1>2. CASE q # p
  BY <1>1, <1>2 DEF Kind, Only, ControlInv, IsSeq
<1>3. ControlInv(p)'
  <2>1. CASE Fails(p)
    BY <1>1, <2>1 DEF Fails, Failing, ControlInv, IsSeq, Ahead, HeadDone
  <2>2. CASE Turns(p) \/ DoesHead(p)
    BY <1>1, <2>2 DEF Turns, DoesHead, Stays, ControlInv, IsSeq, Ahead, HeadDone
  <2>3. CASE DoesAndMovesOn(p) \/ GoesOn(p)
    <3>1. pc[p] \in Ahead \cup HeadDone /\ MovesOn(p)
      BY <2>3 DEF DoesAndMovesOn, GoesOn, HeadDone
    <3>2. IsSeq(todo[p]) /\ todo[p] # << >> /\ outcome[p] \notin {"ok", "none"}
      BY <1>1, <3>1 DEF ControlInv, Ahead, HeadDone
    <3>3. IsSeq(Tail(todo[p]))
      BY <3>2, Rest
    <3>4. IsSeq(todo[p])'
      BY <3>1, <3>3 DEF MovesOn, IsSeq
    <3> QED
      BY <3>1, <3>2, <3>4 DEF MovesOn, ControlInv, Ahead, HeadDone
  <2>4. CASE Ends(p)
    BY <1>1, <2>4 DEF Ends, ControlInv, IsSeq, Ahead, HeadDone
  <2> QED
    BY <2>1, <2>2, <2>3, <2>4 DEF Kind
<1> QED
  BY <1>2, <1>3

\* An edit that moves keeps its invariant.
LEMMA OwnEdit ==
    ASSUME IInv, NEW e \in 1..MaxEdits, Kind(<<"edit", e>>)
    PROVE  EditInv(<<"edit", e>>)'
<1> DEFINE p == <<"edit", e>>
<1>1. p \in Proc /\ p[1] = "edit"
  BY DEF Proc
<1> SUFFICES EditInv(p)'
  OBVIOUS
<1>2. EditInv(p) /\ ControlInv(p) /\ Kind(p)
  BY <1>1 DEF IInv
<1> HIDE DEF p
<1>3. hit \subseteq hit' /\ committed.did \subseteq committed'.did
  BY <1>1, <1>2, SessionKept
<1>4. CASE Fails(p)
  BY <1>4 DEF Fails, Failing, EditInv, Ahead, HeadDone
<1>5. CASE Turns(p)
  <2>1. /\ pc[p] \in Ahead /\ pc'[p] \in Ahead \ {"begin"} /\ pc'[p] \notin HeadDone
        /\ todo'[p] = todo[p] /\ outcome'[p] # "ok" /\ pc'[p] # "read"
        /\ work'.did = work.did
        /\ pc'[p] = "write" => Now(p).op # "mark"
    BY <1>2, <1>5 DEF Turns, Stays, dbVars, Ahead, HeadDone, ControlInv
  <2>2. CASE Len(todo[p]) = 2 /\ todo[p][1].op # "mark" /\ todo[p][2] = Mark
    BY <2>1, <2>2 DEF EditInv
  <2>3. CASE Len(todo[p]) = 1 /\ todo[p][1] = Mark /\ (p \notin hit => WorkRow(p))
    <3>1. Now(p) = Mark
      BY <1>2, <2>1, <2>3, Rest DEF Now, ControlInv, Ahead, HeadDone
    <3>2. pc'[p] # "write" /\ pc'[p] # "saveCommit" /\ (WorkRow(p) => WorkRow(p)')
      BY <2>1, <3>1 DEF Mark, WorkRow, Ahead
    <3> QED
      BY <1>3, <2>1, <2>3, <3>2 DEF EditInv
  <2> QED
    BY <1>2, <2>1, <2>2, <2>3 DEF EditInv
<1>6. CASE DoesHead(p)
  <2>1. /\ pc[p] \in Ahead /\ pc'[p] \in HeadDone /\ todo'[p] = todo[p] /\ outcome'[p] # "ok"
        /\ work'.did = work.did \cup {<<p, Now(p)>>} /\ pc'[p] # "write"
        /\ pc'[p] = "read" => Now(p).op # "mark"
    BY <1>2, <1>6 DEF DoesHead, Stays, Writes, Ahead, HeadDone, ControlInv
  <2>2. CASE Len(todo[p]) = 2 /\ todo[p][1].op # "mark" /\ todo[p][2] = Mark
    <3>1. Now(p) = todo[p][1]
      BY <1>2, <2>1, Rest DEF ControlInv, Now
    <3> QED
      BY <2>1, <2>2, <3>1 DEF EditInv
  <2>3. CASE Len(todo[p]) = 1 /\ todo[p][1] = Mark /\ (p \notin hit => WorkRow(p))
    <3>1. Now(p) = Mark
      BY <1>2, <2>1, <2>3, Rest DEF Now, ControlInv, Ahead, HeadDone
    <3>2. pc'[p] # "read" /\ (WorkRow(p) => WorkRow(p)') /\ <<p, Mark>> \in work'.did
      BY <2>1, <3>1 DEF Mark, WorkRow
    <3> QED
      BY <1>3, <2>1, <2>3, <3>2 DEF EditInv
  <2> QED
    BY <1>2, <2>1, <2>2, <2>3 DEF EditInv
<1>7. CASE DoesAndMovesOn(p) \/ GoesOn(p)
  <2>1. /\ pc[p] \in Ahead \cup HeadDone /\ MovesOn(p) /\ outcome[p] # "ok"
        /\ todo[p] # << >> /\ IsSeq(todo[p])
    BY <1>2, <1>7 DEF DoesAndMovesOn, GoesOn, HeadDone, ControlInv, Ahead
  <2>2. CASE Len(todo[p]) = 2 /\ todo[p][1].op # "mark" /\ todo[p][2] = Mark
    <3>1. Len(Tail(todo[p])) = 1 /\ Tail(todo[p])[1] = Mark /\ Tail(todo[p]) # << >>
      BY <2>1, <2>2, Rest
    <3>2. pc'[p] = "next" /\ Len(todo'[p]) = 1 /\ todo'[p][1] = Mark /\ outcome'[p] # "ok"
      BY <2>1, <3>1 DEF MovesOn
    <3>3. ASSUME p \notin hit' PROVE WorkRow(p)'
      <4>1. CASE DoesAndMovesOn(p)
        <5>1. Now(p) = todo[p][1] /\ <<p, Now(p)>> \in work'.did
          BY <2>1, <4>1, Rest DEF Now, DoesAndMovesOn, Writes
        <5> QED
          BY <2>2, <5>1 DEF WorkRow, Mark
      <4>2. CASE GoesOn(p)
        <5>1. <<p, todo[p][1]>> \in work.did
          BY <1>2, <1>3, <2>2, <3>3, <4>2 DEF EditInv, GoesOn, HeadDone
        <5>2. WorkRow(p)
          BY <2>2, <5>1 DEF WorkRow, Mark
        <5>3. ~Failing(p)'
          BY <3>2 DEF Failing
        <5> QED
          BY <1>1, <1>2, <3>3, <5>2, <5>3, Survives
      <4> QED
        BY <1>7, <4>1, <4>2
    <3> QED
      BY <3>2, <3>3 DEF EditInv
  <2>3. CASE Len(todo[p]) = 1 /\ todo[p][1] = Mark /\ pc[p] \notin {"write", "read"}
             /\ (p \notin hit => WorkRow(p) /\ (pc[p] = "saveCommit" => <<p, Mark>> \in work.did))
    <3>1. Now(p) = Mark /\ ~DoesAndMovesOn(p)
      BY <2>1, <2>3, Rest DEF Now, DoesAndMovesOn, Mark
    <3>2. pc[p] = "saveCommit" /\ CommitSession
      BY <1>7, <2>3, <3>1 DEF GoesOn
    <3>3. pc'[p] = "done" /\ outcome'[p] = "ok"
      BY <1>1, <2>1, <2>3, Rest DEF MovesOn
    <3>4. ASSUME p \notin hit' PROVE Done(p, Mark)' /\ RowDone(p)'
      <4>1. ~Failing(p)'
        BY <3>3 DEF Failing
      <4>2. <<p, Mark>> \in work'.did /\ WorkRow(p)' /\ work' = committed'
        BY <1>1, <1>2, <1>3, <2>3, <3>2, <3>4, <4>1, Survives
      <4> QED
        BY <4>2 DEF Done, RowDone, WorkRow
    <3> QED
      BY <3>3, <3>4 DEF EditInv, Ahead, HeadDone
  <2> QED
    BY <1>2, <2>1, <2>2, <2>3 DEF EditInv
<1>8. ~Ends(p)
  BY <1>1, <1>2 DEF Ends, ControlInv
<1> QED
  BY <1>2, <1>4, <1>5, <1>6, <1>7, <1>8 DEF Kind

\* A batch that moves keeps its invariant.
LEMMA OwnBatch ==
    ASSUME IInv, NEW b \in 1..MaxBatches, Kind(<<"batch", b>>)
    PROVE  BatchInv(b)'
<1> DEFINE p == <<"batch", b>>
           G == given[b]
<1>1. p \in Proc /\ p[1] = "batch"
  BY DEF Proc
<1>2. BatchInv(b) /\ ControlInv(p) /\ Kind(p) /\ given' = given
  BY <1>1 DEF IInv, Kind, Only, feedVars
<1>3. /\ p \notin hit /\ pc[p] \in Ahead \cup HeadDone \cup {"commit"} =>
            \A c \in G : <<p, c>> \in work.did \/ c \in Left(p)
      /\ BatchInv(b)' <=> (p \notin hit' =>
            /\ pc'[p] \in Ahead \cup HeadDone \cup {"commit"} =>
                  \A c \in G : <<p, c>> \in work'.did \/ c \in Left(p)'
            /\ outcome'[p] = "ok" => \A c \in G : <<p, c>> \in committed'.did)
  BY <1>2 DEF BatchInv, Done
<1> HIDE DEF p, G
<1> SUFFICES ASSUME p \notin hit'
             PROVE  /\ pc'[p] \in Ahead \cup HeadDone \cup {"commit"} =>
                          \A c \in G : <<p, c>> \in work'.did \/ c \in Left(p)'
                    /\ outcome'[p] = "ok" => \A c \in G : <<p, c>> \in committed'.did
  BY <1>3
<1>4. p \notin hit
  BY <1>1, <1>2, SessionKept
<1>5. CASE Fails(p)
  BY <1>5 DEF Fails, Failing, Ahead, HeadDone
<1>6. CASE Turns(p)
  <2>1. /\ pc[p] \in Ahead /\ outcome'[p] # "ok" /\ work'.did = work.did
        /\ pc[p] \notin HeadDone /\ pc'[p] \notin HeadDone /\ todo'[p] = todo[p]
    BY <1>2, <1>6 DEF Turns, Stays, dbVars, Ahead, HeadDone, ControlInv
  <2>2. Left(p)' = Left(p)
    BY <2>1 DEF Left, Elements
  <2> QED
    BY <1>3, <1>4, <2>1, <2>2
<1>7. CASE DoesHead(p) \/ DoesAndMovesOn(p)
  <2>1. /\ pc[p] \in Ahead /\ pc[p] \notin HeadDone /\ outcome'[p] # "ok"
        /\ work'.did = work.did \cup {<<p, Now(p)>>}
        /\ todo[p] # << >> /\ IsSeq(todo[p])
        /\ \/ pc'[p] \in HeadDone /\ todo'[p] = todo[p]
           \/ pc'[p] \notin HeadDone /\ todo'[p] = Tail(todo[p])
    BY <1>1, <1>2, <1>7
       DEF DoesHead, DoesAndMovesOn, MovesOn, Stays, Writes, Ahead, HeadDone, ControlInv
  <2>2. Left(p) = {Now(p)} \cup Left(p)'
    <3>1. Left(p) = Elements(todo[p]) /\ Left(p)' = Elements(Tail(todo[p]))
      BY <2>1 DEF Left, Elements
    <3> QED
      BY <2>1, <3>1, Rest DEF Now
  <2> QED
    BY <1>3, <1>4, <2>1, <2>2
<1>8. CASE GoesOn(p)
  <2>1. /\ pc[p] \in HeadDone /\ outcome'[p] # "ok" /\ todo'[p] = Tail(todo[p])
        /\ pc'[p] \in {"next", "commit"} /\ pc'[p] \notin HeadDone
    BY <1>1, <1>2, <1>8 DEF GoesOn, MovesOn, HeadDone, ControlInv
  <2>2. Left(p)' = Left(p)
    BY <2>1 DEF Left, Elements
  <2>3. ~Failing(p)'
    BY <2>1 DEF Failing
  <2>4. \A x : <<p, x>> \in work.did => <<p, x>> \in work'.did
    BY <1>1, <1>2, <2>3, Survives
  <2> QED
    BY <1>3, <1>4, <2>1, <2>2, <2>4
<1>9. CASE Ends(p)
  <2>1. pc[p] = "commit" /\ CommitSession /\ pc'[p] = "done" /\ outcome'[p] = "ok"
    BY <1>9 DEF Ends
  <2>2. ~Failing(p)'
    BY <2>1 DEF Failing
  <2>3. (\A x : <<p, x>> \in work.did => <<p, x>> \in work'.did) /\ work' = committed'
    BY <1>1, <1>2, <2>1, <2>2, Survives
  <2>4. Left(p) = {}
    BY <1>2, <2>1 DEF ControlInv, Left, Elements, HeadDone
  <2> QED
    BY <1>3, <1>4, <2>1, <2>3, <2>4 DEF Ahead, HeadDone
<1> QED
  BY <1>2, <1>5, <1>6, <1>7, <1>8, <1>9 DEF Kind

\* What is tracked was done, whoever moves.
LEMMA TrackedKept ==
    ASSUME IInv, NEW p \in Proc, Kind(p), NEW e \in 1..MaxEdits
    PROVE  Tracked(<<"edit", e>>)'
<1> DEFINE q == <<"edit", e>>
<1>1. Tracked(q) /\ EditInv(q) /\ SessionInv /\ (q \in Proc /\ ControlInv(q))
  BY DEF IInv, Proc
<1> SUFFICES Tracked(q)'
  OBVIOUS
<1> HIDE DEF q
<1> SUFFICES ASSUME q \notin hit'
             PROVE  /\ <<q, Mark>> \in work'.did => WorkRow(q)'
                    /\ <<q, Mark>> \in committed'.did => RowDone(q)'
  BY DEF Tracked
<1>2. hit \subseteq hit' /\ SessionInv'
  BY SessionKept
<1>3. /\ <<q, Mark>> \in work.did => WorkRow(q)
      /\ <<q, Mark>> \in committed.did => RowDone(q)
  BY <1>1, <1>2 DEF Tracked
<1>4. CASE work' = work /\ committed' = committed
  BY <1>3, <1>4 DEF WorkRow, RowDone
<1>5. CASE work' = committed /\ committed' = committed
  BY <1>3, <1>5 DEF WorkRow, RowDone
<1>6. CASE work' = work /\ committed' = work
  BY <1>3, <1>6 DEF WorkRow, RowDone
<1>7. CASE Writes(p) /\ pc[p] \in Ahead
  <2>1. /\ work'.did = work.did \cup {<<p, Now(p)>>}
        /\ committed' = IF txn = "none" THEN work' ELSE committed
    BY <1>7 DEF Writes
  <2>2. <<q, Mark>> \in work'.did => WorkRow(q)
    <3>1. ASSUME p = q, Now(p) = Mark PROVE WorkRow(q)
      <4>1. todo[q] # << >> /\ IsSeq(todo[q]) /\ pc[q] \in Ahead
        BY <1>1, <1>7, <3>1 DEF ControlInv
      <4>2. todo[q][1] = Mark
        BY <3>1, <4>1, Rest DEF Now
      <4> QED
        BY <1>1, <1>2, <4>1, <4>2 DEF EditInv, Mark
    <3> QED
      BY <1>3, <2>1, <3>1
  <2>3. WorkRow(q) => WorkRow(q)'
    BY <2>1 DEF WorkRow
  <2>4. txn = "none" => (WorkRow(q)' => RowDone(q)')
    BY <2>1 DEF WorkRow, RowDone
  <2>5. txn # "none" => (RowDone(q) => RowDone(q)')
    BY <2>1 DEF RowDone
  <2> QED
    BY <1>3, <2>1, <2>2, <2>3, <2>4, <2>5
<1> QED
  BY <1>4, <1>5, <1>6, <1>7, Effects
     DEF dbVars, Abort, RollbackSession, EndTransaction, CommitSession

\* A statement keeps the invariant.
LEMMA KindKeeps ==
    ASSUME IInv, NEW p \in Proc, Kind(p), outcome[p] # "none"
    PROVE  IInv'
<1>1. /\ DOMAIN pc' = Proc /\ DOMAIN todo' = Proc /\ DOMAIN outcome' = Proc
      /\ UNCHANGED feedVars
  BY DEF Kind, Only
<1>2. DOMAIN given' = 1..MaxBatches /\ IsSeq(feed)'
  BY <1>1 DEF feedVars, IInv, IsSeq
<1>3. SessionInv'
  BY SessionKept
<1>4. \A q \in Proc : ControlInv(q)'
  BY ControlKept
<1>5. \A e \in 1..MaxEdits : Tracked(<<"edit", e>>)' /\ EditInv(<<"edit", e>>)'
  BY TrackedKept, OtherEdits, OwnEdit
<1>6. ASSUME NEW b \in 1..MaxBatches PROVE BatchInv(b)' /\ StartInv(b)'
  <2>1. BatchInv(b)'
    BY OtherBatches, OwnBatch
  <2>2. outcome'[p] # "none"
    BY DEF Kind, Fails, Turns, DoesHead, DoesAndMovesOn, GoesOn, Ends, Stays, MovesOn
  <2>3. <<"batch", b>> \in Proc /\ <<"lsn", b>> \in Proc /\ StartInv(b)
    BY DEF Proc, IInv
  <2>4. \A q \in Proc : q # p => outcome'[q] = outcome[q]
    BY DEF Kind, Only
  <2> QED
    BY <2>1, <2>2, <2>3, <2>4 DEF StartInv
<1> QED
  BY <1>1, <1>2, <1>3, <1>4, <1>5, <1>6 DEF IInv

-----------------------------------------------------------------------------
(* The other actions.                                                      *)

\* The session keeps its invariant when processes start.
LEMMA StartSession ==
    ASSUME IInv, UNCHANGED dbVars,
           \A q \in Proc : outcome[q] # "none" => pc'[q] = pc[q] /\ outcome'[q] = outcome[q]
    PROVE  SessionInv'
<1>1. SessionInv /\ \A q \in Proc : ControlInv(q)
  BY DEF IInv
<1>2. UNCHANGED <<work, committed, txn, hit>>
  BY DEF dbVars
<1>3. ASSUME NEW d \in work.did, Failing(d[1]) PROVE Failing(d[1])'
  <2>1. d[1] \in Proc /\ outcome[d[1]] # "none"
    BY <1>1, <1>3 DEF SessionInv, ControlInv, Failing
  <2> QED
    BY <1>3, <2>1 DEF Failing
<1> QED
  BY <1>1, <1>2, <1>3 DEF SessionInv, Failing

\* A process that neither starts nor moves.
LEMMA Untouched ==
    ASSUME IInv, UNCHANGED dbVars, NEW q \in Proc,
           pc'[q] = pc[q], todo'[q] = todo[q], outcome'[q] = outcome[q]
    PROVE  /\ ControlInv(q)'
           /\ \A e \in 1..MaxEdits : q = <<"edit", e>> => EditInv(q)'
<1>1. UNCHANGED <<work, committed, hit>>
  BY DEF dbVars
<1>2. ControlInv(q)'
  <2>1. ControlInv(q)
    BY DEF IInv
  <2> QED
    BY <2>1 DEF ControlInv, IsSeq
<1>3. ASSUME NEW e \in 1..MaxEdits, q = <<"edit", e>> PROVE EditInv(q)'
  <2>1. EditInv(q)
    BY <1>3 DEF IInv
  <2> QED
    BY <1>1, <2>1 DEF EditInv, Done, RowDone, WorkRow
<1> QED
  BY <1>2, <1>3

\* What a batch has done and has left depends on its own state only.
LEMMA UntouchedBatch ==
    ASSUME IInv, UNCHANGED dbVars, NEW b \in 1..MaxBatches,
           given'[b] = given[b], UNCHANGED <<pc[<<"batch", b>>], todo[<<"batch", b>>], outcome[<<"batch", b>>]>>
    PROVE  BatchInv(b)'
<1> DEFINE q == <<"batch", b>>
<1>1. UNCHANGED <<work, committed, hit>>
  BY DEF dbVars
<1>2. BatchInv(b)
  BY DEF IInv
<1>3. Left(q)' = Left(q)
  BY DEF Left, Elements
<1> QED
  BY <1>1, <1>2, <1>3 DEF BatchInv, Done

\* The history of an edit does not change without a statement.
LEMMA UntouchedTracked ==
    ASSUME IInv, UNCHANGED dbVars, NEW e \in 1..MaxEdits
    PROVE  Tracked(<<"edit", e>>)'
  BY DEF dbVars, IInv, Tracked, WorkRow, RowDone

\* The changes of a batch are finitely many, at least one.
LEMMA FiniteBatch ==
    ASSUME NEW n \in Nat \ {0}, NEW raw, DOMAIN raw = 1..n
    PROVE  IsFiniteSet(Deduplicated(raw)) /\ Deduplicated(raw) # {}
<1> DEFINE D == Deduplicated(raw)
           f == [i \in 1..n |-> Net(raw, raw[i].row)]
<1>1. D = { Net(raw, raw[i].row) : i \in 1..n }
  BY DEF Deduplicated, Rows
<1>2. f \in Surjection(1..n, D)
  <2>1. f \in [1..n -> D]
    BY <1>1
  <2>2. \A t \in D : \E i \in 1..n : f[i] = t
    BY <1>1
  <2> HIDE DEF f, D
  <2> QED
    BY <2>1, <2>2 DEF Surjection
<1>3. 1 \in 1..n /\ IsFiniteSet(1..n)
  BY FS_Interval
<1>4. D # {}
  BY <1>1, <1>3
<1> HIDE DEF f, D
<1>5. IsFiniteSet(D)
  BY <1>2, <1>3, FS_Surjection
<1> QED
  BY <1>4, <1>5 DEF D

\* In whatever order: every change is there.
LEMMA OrdersComplete ==
    ASSUME NEW S, IsFiniteSet(S), S # {}, NEW s \in Orders(S)
    PROVE  IsSeq(s) /\ s # << >> /\ Elements(s) = S
<1> DEFINE n == Cardinality(S)
<1>1. n \in Nat /\ n # 0 /\ IsFiniteSet(1..n) /\ Cardinality(1..n) = n
  <2>1. n \in Nat /\ n # 0
    BY FS_CardinalityType, FS_EmptySet
  <2> HIDE DEF n
  <2> QED
    BY <2>1, FS_Interval
<1>2. s \in [1..n -> S] /\ \A i, j \in 1..n : i < j => s[i] # s[j]
  BY DEF Orders
<1> HIDE DEF n
<1>3. s \in Seq(S) /\ s # << >>
  BY <1>1, <1>2
<1>4. s \in Injection(1..n, S)
  <2>1. \A a, b \in 1..n : s[a] = s[b] => a = b
    BY <1>1, <1>2
  <2> QED
    BY <1>2, <2>1 DEF Injection, IsInjective
<1>5. s \in Surjection(1..n, S)
  BY <1>1, <1>4, FS_Injection DEF n
<1>6. Elements(s) = S
  <2>1. \A t \in S : \E i \in 1..n : s[i] = t
    BY <1>5 DEF Surjection
  <2> QED
    BY <1>2, <2>1 DEF Elements
<1> QED
  BY <1>3, <1>6, SeqOver

\* A batch arrives.
LEMMA ReceiveKeeps ==
    ASSUME IInv, NEW b \in 1..MaxBatches, Receive(b)
    PROVE  IInv'
<1> DEFINE p == <<"batch", b>>
           l == <<"lsn", b>>
<1>1. /\ feed # << >> /\ outcome[p] = "none" /\ UNCHANGED dbVars
  BY DEF Receive, Fresh
<1>2. PICK busy \in BOOLEAN, n \in 1..Len(feed) :
         LET raw == SubSeq(feed, 1, n) IN
          /\ feed' = SubSeq(feed, n + 1, Len(feed))
          /\ given' = [given EXCEPT ![b] = Deduplicated(raw)]
          /\ \E s \in Orders(Deduplicated(raw)) :
                /\ pc' = [pc EXCEPT ![l] = "next", ![p] = IF busy THEN "done" ELSE "begin"]
                /\ todo' = [todo EXCEPT ![l] = <<Mark>>, ![p] = IF busy THEN << >> ELSE s]
                /\ outcome' = [outcome EXCEPT
                      ![l] = "running", ![p] = IF busy THEN "refused" ELSE "running"]
  <2> DEFINE B == \E k \in 1..MaxBatches : outcome[<<"batch", k>>] = "running"
  <2>1. B \in BOOLEAN
    OBVIOUS
  <2>2. Len(feed) \in Nat \ {0} /\ Len(feed) \in 1..Len(feed)
    BY <1>1 DEF IInv, IsSeq
  <2>3. \A n \in (IF Starts + 1 < MaxStarts THEN 1 ELSE Len(feed))..Len(feed) : n \in 1..Len(feed)
    BY <2>2
  <2> QED
    BY <2>1, <2>3 DEF Receive
<1> DEFINE raw == SubSeq(feed, 1, n)
           D == Deduplicated(raw)
<1>3. /\ IsSeq(feed') /\ DOMAIN raw = 1..n /\ n \in Nat \ {0}
  <2>1. PICK S : feed \in Seq(S)
    BY DEF IInv, IsSeq
  <2>2. n \in 1..Len(feed) /\ Len(feed) \in Nat
    BY <2>1
  <2>3. SubSeq(feed, n + 1, Len(feed)) \in Seq(S) /\ DOMAIN raw = 1..n
    BY <2>1, <2>2
  <2>4. feed' = SubSeq(feed, n + 1, Len(feed))
    BY <1>2
  <2>5. IsSeq(feed')
    BY <2>3, <2>4, SeqOver
  <2> QED
    BY <2>2, <2>3, <2>5
<1>4. IsFiniteSet(D) /\ D # {}
  BY <1>3, FiniteBatch
<1> HIDE DEF raw
<1>5. PICK s \in Orders(D) :
          /\ pc' = [pc EXCEPT ![l] = "next", ![p] = IF busy THEN "done" ELSE "begin"]
          /\ todo' = [todo EXCEPT ![l] = <<Mark>>, ![p] = IF busy THEN << >> ELSE s]
          /\ outcome' = [outcome EXCEPT
                ![l] = "running", ![p] = IF busy THEN "refused" ELSE "running"]
  BY <1>2 DEF raw
<1>6. given' = [given EXCEPT ![b] = D]
  BY <1>2 DEF raw
<1> HIDE DEF D
<1>7. IsSeq(s) /\ s # << >> /\ Elements(s) = D
  BY <1>4, OrdersComplete
<1>8. /\ p \in Proc /\ l \in Proc /\ p # l /\ p[1] = "batch"
      /\ \A e \in 1..MaxEdits : <<"edit", e>> \in Proc /\ <<"edit", e>> \notin {p, l}
      /\ \A k \in 1..MaxBatches \ {b} : <<"batch", k>> \notin {p, l} /\ <<"lsn", k>> \notin {p, l}
      /\ \A k \in 1..MaxBatches : <<"batch", k>> \in Proc /\ <<"lsn", k>> \in Proc
  BY DEF Proc
<1>9. outcome[l] = "none"
  BY <1>1 DEF IInv, StartInv
<1>10. DOMAIN pc = Proc /\ DOMAIN todo = Proc /\ DOMAIN outcome = Proc /\ DOMAIN given = 1..MaxBatches
  BY DEF IInv
<1>11. IsSeq(<<Mark>>) /\ IsSeq(<< >>) /\ <<Mark>> # << >>
  <2>1. <<Mark>> \in Seq({Mark}) /\ << >> \in Seq({Mark})
    OBVIOUS
  <2> QED
    BY <2>1, SeqOver
<1>12. /\ DOMAIN pc' = Proc /\ DOMAIN todo' = Proc /\ DOMAIN outcome' = Proc
       /\ DOMAIN given' = 1..MaxBatches
       /\ pc'[l] = "next" /\ todo'[l] = <<Mark>> /\ outcome'[l] = "running"
       /\ \/ pc'[p] = "done" /\ todo'[p] = << >> /\ outcome'[p] = "refused"
          \/ pc'[p] = "begin" /\ todo'[p] = s /\ outcome'[p] = "running"
       /\ given'[b] = D /\ \A k \in 1..MaxBatches \ {b} : given'[k] = given[k]
       /\ \A q \in Proc \ {p, l} :
             pc'[q] = pc[q] /\ todo'[q] = todo[q] /\ outcome'[q] = outcome[q]
  <2> HIDE DEF p, l
  <2> QED
    BY <1>5, <1>6, <1>8, <1>10
<1>13. SessionInv'
  BY <1>1, <1>9, <1>12, StartSession
<1>14. \A q \in Proc : ControlInv(q)'
  <2> HIDE DEF p, l
  <2>1. \A q \in Proc \ {p, l} : ControlInv(q)'
    BY <1>1, <1>12, Untouched
  <2>2. IsSeq(todo[p])' /\ IsSeq(todo[l])'
    <3>1. todo'[l] = <<Mark>> /\ (todo'[p] = << >> \/ todo'[p] = s)
      BY <1>12
    <3>2. IsSeq(todo'[p]) /\ IsSeq(todo'[l])
      BY <1>7, <1>11, <3>1
    <3> QED
      BY <3>2 DEF IsSeq
  <2>3. ControlInv(p)'
    BY <1>7, <1>8, <1>12, <2>2 DEF ControlInv, Ahead, HeadDone
  <2>4. ControlInv(l)'
    BY <1>11, <1>12, <2>2 DEF ControlInv, Ahead, HeadDone
  <2> QED
    BY <2>1, <2>3, <2>4
<1>15. \A e \in 1..MaxEdits : Tracked(<<"edit", e>>)' /\ EditInv(<<"edit", e>>)'
  <2> HIDE DEF p, l
  <2> QED
    BY <1>1, <1>8, <1>12, Untouched, UntouchedTracked
<1>16. \A k \in 1..MaxBatches : BatchInv(k)' /\ StartInv(k)'
  <2>1. BatchInv(b)'
    <3>1. pc'[p] # "done" => Left(p)' = D
      BY <1>7, <1>12 DEF Left, Elements, HeadDone
    <3> QED
      BY <1>12, <3>1 DEF BatchInv, Ahead, HeadDone, p
  <2>2. \A k \in 1..MaxBatches \ {b} : BatchInv(k)'
    BY <1>1, <1>8, <1>12, UntouchedBatch
  <2>3. ASSUME NEW k \in 1..MaxBatches PROVE StartInv(k)'
    <3>1. StartInv(k)
      BY DEF IInv
    <3> QED
      BY <1>8, <1>12, <3>1 DEF StartInv
  <2> QED
    BY <2>1, <2>2, <2>3
<1>17. IsSeq(feed)'
  BY <1>3 DEF IsSeq
<1> QED
  BY <1>12, <1>13, <1>14, <1>15, <1>16, <1>17 DEF IInv

\* The user edits.
LEMMA EditKeeps ==
    ASSUME IInv, NEW e \in 1..MaxEdits, Edit(e)
    PROVE  IInv'
<1> DEFINE p == <<"edit", e>>
<1>1. /\ outcome[p] = "none" /\ UNCHANGED dbVars /\ UNCHANGED feedVars
  BY DEF Edit, Fresh
<1>2. PICK c : /\ c.op # "mark"
               /\ pc' = [pc EXCEPT ![p] = "next"] /\ todo' = [todo EXCEPT ![p] = <<c, Mark>>]
               /\ outcome' = [outcome EXCEPT ![p] = "running"]
  <2>1. PICK r \in Row, op \in {"insert", "update", "delete"} :
           Start(p, "next",
                 <<[op |-> op, row |-> r, v |-> IF op = "delete" THEN 0 ELSE MaxWrites + 1 + e,
                    ts |-> 0], Mark>>)
    BY DEF Edit
  <2> DEFINE d == [op |-> op, row |-> r, v |-> IF op = "delete" THEN 0 ELSE MaxWrites + 1 + e,
                   ts |-> 0]
  <2>2. d.op # "mark" /\ Start(p, "next", <<d, Mark>>)
    BY <2>1
  <2> HIDE DEF d
  <2> QED
    BY <2>2 DEF Start
<1>3. /\ p \in Proc /\ p[1] = "edit"
      /\ \A k \in 1..MaxEdits : <<"edit", k>> \in Proc
      /\ \A k \in 1..MaxBatches : /\ <<"batch", k>> \in Proc /\ <<"lsn", k>> \in Proc
                                  /\ <<"batch", k>> # p /\ <<"lsn", k>> # p
  BY DEF Proc
<1>4. IsSeq(<<c, Mark>>) /\ Len(<<c, Mark>>) = 2 /\ <<c, Mark>>[1] = c /\ <<c, Mark>>[2] = Mark
      /\ <<c, Mark>> # << >>
  <2>1. <<c, Mark>> \in Seq({c, Mark})
    OBVIOUS
  <2> QED
    BY <2>1, SeqOver
<1>5. /\ DOMAIN pc' = Proc /\ DOMAIN todo' = Proc /\ DOMAIN outcome' = Proc
      /\ pc'[p] = "next" /\ todo'[p] = <<c, Mark>> /\ outcome'[p] = "running"
      /\ \A q \in Proc \ {p} :
             pc'[q] = pc[q] /\ todo'[q] = todo[q] /\ outcome'[q] = outcome[q]
  <2> HIDE DEF p
  <2> QED
    BY <1>2, <1>3 DEF IInv
<1>6. SessionInv'
  BY <1>1, <1>5, StartSession
<1>7. \A q \in Proc : ControlInv(q)'
  <2> HIDE DEF p
  <2>1. \A q \in Proc \ {p} : ControlInv(q)'
    BY <1>1, <1>5, Untouched
  <2>2. IsSeq(todo[p])'
    <3>1. IsSeq(todo'[p])
      BY <1>4, <1>5
    <3> QED
      BY <3>1 DEF IsSeq
  <2>3. ControlInv(p)'
    BY <1>4, <1>5, <2>2 DEF ControlInv, Ahead, HeadDone
  <2> QED
    BY <2>1, <2>3
<1>8. \A k \in 1..MaxEdits : EditInv(<<"edit", k>>)'
  <2> HIDE DEF p
  <2>1. EditInv(p)'
    BY <1>2, <1>4, <1>5 DEF EditInv, HeadDone
  <2>2. ASSUME NEW k \in 1..MaxEdits, <<"edit", k>> # p PROVE EditInv(<<"edit", k>>)'
    BY <1>1, <1>3, <1>5, <2>2, Untouched
  <2> QED
    BY <2>1, <2>2
<1>9. \A k \in 1..MaxEdits : Tracked(<<"edit", k>>)'
  BY <1>1, UntouchedTracked
<1>10. ASSUME NEW k \in 1..MaxBatches PROVE BatchInv(k)' /\ StartInv(k)'
  <2>1. BatchInv(k)'
    BY <1>1, <1>3, <1>5, UntouchedBatch DEF feedVars
  <2>2. StartInv(k)'
    BY <1>3, <1>5 DEF StartInv, IInv
  <2> QED
    BY <2>1, <2>2
<1>11. DOMAIN given' = 1..MaxBatches /\ IsSeq(feed)'
  BY <1>1 DEF feedVars, IInv, IsSeq
<1> QED
  BY <1>5, <1>6, <1>7, <1>8, <1>9, <1>10, <1>11 DEF IInv

\* The server writes, or nothing happens.
LEMMA WriteKeeps ==
    ASSUME IInv, ServerWrite \/ UNCHANGED vars
    PROVE  IInv'
<1>1. UNCHANGED <<dbVars, procVars, given>>
  BY DEF ServerWrite, vars, feedVars
<1>2. IsSeq(feed)'
  <2>1. PICK S : feed \in Seq(S)
    BY DEF IInv, IsSeq
  <2>2. (\E c : feed' = Append(feed, c)) \/ feed' = feed
    BY DEF ServerWrite, vars, feedVars
  <2>3. ASSUME NEW c, feed' = Append(feed, c) PROVE IsSeq(feed')
    <3>1. feed \in Seq(S \cup {c})
      BY <2>1, SeqMonotone
    <3>2. feed' \in Seq(S \cup {c})
      BY <2>3, <3>1
    <3> QED
      BY <3>2, SeqOver
  <2>4. IsSeq(feed')
    BY <2>1, <2>2, <2>3, SeqOver
  <2> QED
    BY <2>4 DEF IsSeq
<1>3. /\ UNCHANGED dbVars /\ UNCHANGED <<pc, todo, outcome, given>>
  BY <1>1 DEF procVars
<1>4. SessionInv'
  BY <1>3, StartSession
<1>5. \A q \in Proc : ControlInv(q)'
  BY <1>3, Untouched
<1>6. \A e \in 1..MaxEdits : Tracked(<<"edit", e>>)' /\ EditInv(<<"edit", e>>)'
  <2>1. \A e \in 1..MaxEdits : <<"edit", e>> \in Proc
    BY DEF Proc
  <2> QED
    BY <1>3, <2>1, Untouched, UntouchedTracked
<1>7. \A b \in 1..MaxBatches : BatchInv(b)' /\ StartInv(b)'
  <2>1. \A b \in 1..MaxBatches : BatchInv(b)'
    BY <1>3, UntouchedBatch
  <2> QED
    BY <1>3, <2>1 DEF StartInv, IInv
<1> QED
  BY <1>2, <1>3, <1>4, <1>5, <1>6, <1>7 DEF IInv

\* The application restarts.
LEMMA CrashKeeps ==
    ASSUME IInv, Crash
    PROVE  IInv'
<1>1. /\ txn' = "none" /\ work' = committed /\ committed' = committed /\ hit \subseteq hit'
      /\ todo' = todo /\ UNCHANGED feedVars
      /\ DOMAIN pc' = Proc /\ DOMAIN outcome' = Proc
  BY DEF Crash
<1>2. ASSUME NEW q \in Proc
      PROVE  /\ pc'[q] \in {"idle", "done"} /\ (pc[q] = "idle" <=> pc'[q] = "idle")
             /\ outcome'[q] \in {"ok", "none"} \/ outcome[q] \in {"ok", "none"} =>
                   outcome'[q] = outcome[q]
  BY DEF Crash
<1>3. SessionInv'
  <2>1. SessionInv
    BY DEF IInv
  <2> QED
    BY <1>1, <2>1 DEF SessionInv
<1>4. ASSUME NEW q \in Proc PROVE ControlInv(q)'
  <2>1. ControlInv(q)
    BY DEF IInv
  <2> QED
    BY <1>1, <1>2, <2>1 DEF ControlInv, IsSeq, Ahead, HeadDone
<1>5. ASSUME NEW e \in 1..MaxEdits
      PROVE  Tracked(<<"edit", e>>)' /\ EditInv(<<"edit", e>>)'
  <2> DEFINE q == <<"edit", e>>
  <2>1. Tracked(q) /\ EditInv(q) /\ q \in Proc
    BY DEF IInv, Proc
  <2> HIDE DEF q
  <2>2. Tracked(q)'
    BY <1>1, <2>1 DEF Tracked, WorkRow, RowDone
  <2>3. EditInv(q)'
    BY <1>1, <1>2, <2>1 DEF EditInv, Done, RowDone, Ahead, HeadDone
  <2> QED
    BY <2>2, <2>3 DEF q
<1>6. ASSUME NEW b \in 1..MaxBatches PROVE BatchInv(b)' /\ StartInv(b)'
  <2>1. BatchInv(b) /\ StartInv(b) /\ <<"batch", b>> \in Proc /\ <<"lsn", b>> \in Proc
    BY DEF IInv, Proc
  <2>2. BatchInv(b)'
    BY <1>1, <1>2, <2>1 DEF BatchInv, Done, feedVars, Ahead, HeadDone
  <2>3. StartInv(b)'
    BY <1>2, <2>1 DEF StartInv
  <2> QED
    BY <2>2, <2>3
<1>7. DOMAIN given' = 1..MaxBatches /\ IsSeq(feed)' /\ DOMAIN todo' = Proc
  BY <1>1 DEF feedVars, IInv, IsSeq
<1> QED
  BY <1>1, <1>3, <1>4, <1>5, <1>6, <1>7 DEF IInv

-----------------------------------------------------------------------------
(* The theorems.                                                           *)

\* Nothing has been started or done yet.
LEMMA InitIInv == Init => IInv
<1> SUFFICES ASSUME Init PROVE IInv
  OBVIOUS
<1>1. /\ pc = [p \in Proc |-> "idle"] /\ todo = [p \in Proc |-> << >>]
      /\ outcome = [p \in Proc |-> "none"] /\ given = [b \in 1..MaxBatches |-> {}]
      /\ feed = << >> /\ txn = "none" /\ committed = work /\ work.did = {}
  BY DEF Init
<1>2. IsSeq(<< >>)
  <2>1. << >> \in Seq({})
    OBVIOUS
  <2> QED
    BY <2>1, SeqOver
<1>3. SessionInv
  BY <1>1 DEF SessionInv
<1>4. \A p \in Proc : ControlInv(p)
  BY <1>1, <1>2 DEF ControlInv, Ahead, HeadDone
<1>5. ASSUME NEW e \in 1..MaxEdits PROVE Tracked(<<"edit", e>>) /\ EditInv(<<"edit", e>>)
  <2>1. <<"edit", e>> \in Proc
    BY DEF Proc
  <2> QED
    BY <1>1, <2>1 DEF Tracked, EditInv, Ahead, HeadDone
<1>6. ASSUME NEW b \in 1..MaxBatches PROVE BatchInv(b) /\ StartInv(b)
  <2>1. <<"batch", b>> \in Proc /\ <<"lsn", b>> \in Proc
    BY DEF Proc
  <2> QED
    BY <1>1, <2>1 DEF BatchInv, StartInv, Ahead, HeadDone
<1> QED
  BY <1>1, <1>2, <1>3, <1>4, <1>5, <1>6 DEF IInv

\* Every step keeps the invariant.
LEMMA NextIInv == IInv /\ [Next]_vars => IInv'
<1> SUFFICES ASSUME IInv, [Next]_vars PROVE IInv'
  OBVIOUS
<1>1. CASE ServerWrite \/ UNCHANGED vars
  BY <1>1, WriteKeeps
<1>2. ASSUME NEW b \in 1..MaxBatches, Receive(b) PROVE IInv'
  BY <1>2, ReceiveKeeps
<1>3. ASSUME NEW b \in 1..MaxBatches, BatchStatement(b) PROVE IInv'
  <2>1. <<"batch", b>> \in Proc
    BY DEF Proc
  <2> QED
    BY <1>3, <2>1, BatchStatementKind, KindKeeps
<1>4. ASSUME NEW e \in 1..MaxEdits, Edit(e) PROVE IInv'
  BY <1>4, EditKeeps
<1>5. ASSUME NEW p \in Proc, Statement(p) PROVE IInv'
  BY <1>5, StatementKind, KindKeeps
<1>6. CASE Crash
  BY <1>6, CrashKeeps
<1> QED
  BY <1>1, <1>2, <1>3, <1>4, <1>5, <1>6 DEF Next

\* A batch the server is told of as applied was carried out and committed as a
\* whole, unless another process destroyed its transaction.
THEOREM AppliedBeforeAck == Spec => []AckedIsApplied
<1>1. IInv => AckedIsApplied
  BY DEF IInv, BatchInv, AckedIsApplied
<1> QED
  BY <1>1, InitIInv, NextIInv, PTL DEF Spec

\* An edit that a service reports as done is in the table and tracked.
THEOREM ReportedEditKept == Spec => []EditKept
<1>1. IInv => EditKept
  BY DEF IInv, EditInv, EditKept
<1> QED
  BY <1>1, InitIInv, NextIInv, PTL DEF Spec

\* What is tracked for sending was done in the table.
THEOREM NoPhantomChange == Spec => []TrackedWasDone
<1>1. IInv => TrackedWasDone
  BY DEF IInv, Tracked, TrackedWasDone, Done, RowDone
<1> QED
  BY <1>1, InitIInv, NextIInv, PTL DEF Spec

-----------------------------------------------------------------------------
(* Types.                                                                  *)

DBTypes ==
    /\ work \in DB /\ committed \in DB
    /\ txn \in {"none", "open", "aborted"} /\ hit \subseteq Proc

ProcTypes ==
    /\ pc \in [Proc -> PC] /\ todo \in [Proc -> Seq(Change)]
    /\ insertion \in [Proc -> BOOLEAN] /\ outcome \in [Proc -> Outcome]
    /\ \A p \in Proc :
          /\ pc[p] = "idle" <=> outcome[p] = "none"
          /\ pc[p] = "done" <=> outcome[p] \notin {"none", "running"}
          /\ pc[p] \in {"begin", "commit", "rollback"} => p[1] = "batch"
          /\ pc[p] \in {"begin"} \cup AtChange => todo[p] # << >>

FeedTypes ==
    /\ srv \in [Synced -> Nat] /\ feed \in Seq(Change)
    /\ given \in [1..MaxBatches -> SUBSET Change] /\ collapsed \subseteq 1..MaxBatches
    /\ writes \in Nat /\ crashes \in Nat

\* The parts of the type invariant.
LEMMA TypeParts == TypeOK <=> DBTypes /\ ProcTypes /\ FeedTypes
  BY DEF TypeOK, DBTypes, ProcTypes, FeedTypes

\* The same, after a step.
LEMMA TypePartsNext == DBTypes' /\ ProcTypes' /\ FeedTypes' => TypeOK'
  BY DEF TypeOK, DBTypes, ProcTypes, FeedTypes

\* One process moves to a place that fits.
LEMMA ProcStep ==
    ASSUME ProcTypes, NEW p \in Proc, NEW l \in PC, NEW q \in Seq(Change), NEW o \in Outcome,
           l = "idle" <=> o = "none", l = "done" <=> o \notin {"none", "running"},
           l \in {"begin", "commit", "rollback"} => p[1] = "batch",
           l \in {"begin"} \cup AtChange => q # << >>,
           pc' = [pc EXCEPT ![p] = l], todo' = [todo EXCEPT ![p] = q],
           outcome' = [outcome EXCEPT ![p] = o], insertion' \in [Proc -> BOOLEAN]
    PROVE  ProcTypes'
<1>1. /\ pc' \in [Proc -> PC] /\ todo' \in [Proc -> Seq(Change)]
      /\ insertion' \in [Proc -> BOOLEAN] /\ outcome' \in [Proc -> Outcome]
  BY DEF ProcTypes
<1>2. ASSUME NEW r \in Proc
      PROVE  /\ pc'[r] = "idle" <=> outcome'[r] = "none"
             /\ pc'[r] = "done" <=> outcome'[r] \notin {"none", "running"}
             /\ pc'[r] \in {"begin", "commit", "rollback"} => r[1] = "batch"
             /\ pc'[r] \in {"begin"} \cup AtChange => todo'[r] # << >>
  <2>1. CASE r = p
    <3>1. pc'[r] = l /\ todo'[r] = q /\ outcome'[r] = o
      BY <2>1 DEF ProcTypes
    <3> QED
      BY <2>1, <3>1
  <2>2. CASE r # p
    <3>1. pc'[r] = pc[r] /\ todo'[r] = todo[r] /\ outcome'[r] = outcome[r]
      BY <2>2 DEF ProcTypes
    <3> QED
      BY <3>1 DEF ProcTypes
  <2> QED
    BY <2>1, <2>2
<1> QED
  BY <1>1, <1>2 DEF ProcTypes

\* A process that is about to do something is running.
LEMMA MovingRuns ==
    ASSUME ProcTypes, NEW p \in Proc, pc[p] \notin {"idle", "done"}
    PROVE  outcome[p] = "running"
  BY DEF ProcTypes, Outcome

\* A process goes to a place at the same change.
LEMMA GotoTypes ==
    ASSUME ProcTypes, NEW p \in Proc, NEW l \in AtChange, Goto(p, l),
           pc[p] \in {"begin"} \cup AtChange
    PROVE  ProcTypes'
<1>1. /\ outcome[p] = "running" /\ todo[p] # << >> /\ todo[p] \in Seq(Change)
      /\ l \in PC /\ l \notin {"idle", "done", "begin", "commit", "rollback"}
      /\ outcome[p] \in Outcome
  BY MovingRuns DEF ProcTypes, AtChange, PC
<1>2. /\ pc' = [pc EXCEPT ![p] = l] /\ todo' = [todo EXCEPT ![p] = todo[p]]
      /\ outcome' = [outcome EXCEPT ![p] = outcome[p]] /\ insertion' \in [Proc -> BOOLEAN]
  BY DEF Goto, ProcTypes
<1> QED
  BY <1>1, <1>2, ProcStep

\* A process ends its current change.
LEMMA AdvanceTypes ==
    ASSUME ProcTypes, NEW p \in Proc, Advance(p), pc[p] \in AtChange
    PROVE  ProcTypes'
<1> DEFINE rest == Tail(todo[p])
           l == IF rest # << >> THEN "next" ELSE IF p[1] = "batch" THEN "commit" ELSE "done"
           o == IF rest = << >> /\ p[1] # "batch" THEN "ok" ELSE outcome[p]
<1>1. /\ outcome[p] = "running" /\ todo[p] # << >> /\ todo[p] \in Seq(Change)
  BY MovingRuns DEF ProcTypes, AtChange
<1>2. rest \in Seq(Change)
  BY <1>1
<1>3. /\ pc' = [pc EXCEPT ![p] = l] /\ todo' = [todo EXCEPT ![p] = rest]
      /\ insertion' \in [Proc -> BOOLEAN]
  BY DEF Advance, ProcTypes
<1>4. outcome' = [outcome EXCEPT ![p] = o]
  BY DEF Advance, ProcTypes
<1>5. /\ l \in PC /\ o \in Outcome /\ o # "none" /\ l # "idle"
      /\ l = "done" <=> o \notin {"none", "running"}
      /\ l \in {"begin", "commit", "rollback"} => p[1] = "batch"
      /\ l \in {"begin"} \cup AtChange => rest # << >>
  BY <1>1 DEF PC, Outcome, AtChange
<1> HIDE DEF rest, l, o
<1> QED
  BY <1>2, <1>3, <1>4, <1>5, ProcStep

\* An error leads to a place from which the process ends.
LEMMA ThrowTypes ==
    ASSUME ProcTypes, NEW p \in Proc, NEW inSave \in BOOLEAN, Throw(p, inSave),
           pc[p] \notin {"idle", "done"}
    PROVE  ProcTypes'
<1> DEFINE l == IF inSave THEN "rollbackSave" ELSE IF p[1] = "batch" THEN "rollback" ELSE "done"
           o == IF inSave \/ p[1] = "batch" THEN outcome[p] ELSE "failed"
<1>1. outcome[p] = "running" /\ todo[p] \in Seq(Change)
  BY MovingRuns DEF ProcTypes
<1>2. /\ pc' = [pc EXCEPT ![p] = l] /\ todo' = [todo EXCEPT ![p] = todo[p]]
      /\ insertion' \in [Proc -> BOOLEAN]
  BY DEF Throw, ProcTypes
<1>3. outcome' = [outcome EXCEPT ![p] = o]
  BY DEF Throw, ProcTypes
<1>4. /\ l \in PC /\ o \in Outcome /\ o # "none" /\ l # "idle"
      /\ l = "done" <=> o \notin {"none", "running"}
      /\ l \in {"begin", "commit", "rollback"} => p[1] = "batch"
      /\ l \notin {"begin"} \cup AtChange
  BY <1>1 DEF PC, Outcome, AtChange
<1> HIDE DEF l, o
<1> QED
  BY <1>1, <1>2, <1>3, <1>4, ProcStep

\* The end of a process.
LEMMA DoneTypes ==
    ASSUME ProcTypes, NEW p \in Proc, NEW o \in Outcome \ {"none", "running"},
           pc' = [pc EXCEPT ![p] = "done"], outcome' = [outcome EXCEPT ![p] = o],
           UNCHANGED <<todo, insertion>>
    PROVE  ProcTypes'
<1>1. todo[p] \in Seq(Change) /\ "done" \in PC /\ "done" \notin {"begin"} \cup AtChange
  BY DEF ProcTypes, PC, AtChange
<1>2. todo' = [todo EXCEPT ![p] = todo[p]] /\ insertion' \in [Proc -> BOOLEAN]
  BY DEF ProcTypes
<1> QED
  BY <1>1, <1>2, ProcStep

\* The session.
LEMMA UncommittedProcs ==
    ASSUME DBTypes
    PROVE  Uncommitted \subseteq Proc
  BY DEF DBTypes, DB, Uncommitted

\* A statement that succeeds leaves rows and effects.
LEMMA WriteTypes ==
    ASSUME DBTypes, NEW p \in Proc, Now(p) \in Change, NEW rows \in [Row -> Nat], Write(p, rows)
    PROVE  DBTypes'
<1>1. /\ work.did \subseteq Proc \X Change /\ <<p, Now(p)>> \in Proc \X Change
  BY DEF DBTypes, DB
<1>2. Effect(p, rows) \in DB
  BY <1>1 DEF Effect, DB
<1> QED
  BY <1>2 DEF Write, DBTypes

\* A statement that fails leaves them as they are.
LEMMA AbortTypes ==
    ASSUME DBTypes, NEW p, Abort(p)
    PROVE  DBTypes'
  BY UncommittedProcs DEF Abort, DBTypes

\* COMMIT ends the transaction, whether it is aborted or not.
LEMMA CommitTypes ==
    ASSUME DBTypes, CommitSession
    PROVE  DBTypes'
  BY DEF CommitSession, EndTransaction, DBTypes

\* ROLLBACK goes back to what is committed.
LEMMA RollbackTypes ==
    ASSUME DBTypes, NEW p, RollbackSession(p)
    PROVE  DBTypes'
  BY UncommittedProcs DEF RollbackSession, EndTransaction, DBTypes

\* A step that leaves the session alone.
LEMMA SameDB ==
    ASSUME DBTypes, UNCHANGED dbVars
    PROVE  DBTypes'
  BY DEF DBTypes, dbVars

\* A step that leaves the server and the batches alone.
LEMMA SameFeed ==
    ASSUME FeedTypes, UNCHANGED <<feedVars, crashes>>
    PROVE  FeedTypes'
  BY DEF FeedTypes, feedVars

\* BEGIN opens a transaction or fails in an aborted one.
LEMMA BeginTypes ==
    ASSUME DBTypes, ProcTypes, NEW p \in Proc, NEW l \in AtChange, Begin(p, l, FALSE),
           pc[p] \in {"begin"} \cup AtChange
    PROVE  DBTypes' /\ ProcTypes'
<1>1. CASE txn = "aborted"
  <2>1. pc[p] \notin {"idle", "done"}
    BY DEF AtChange
  <2> QED
    BY <1>1, <2>1, AbortTypes, ThrowTypes DEF Begin
<1>2. CASE txn # "aborted"
  <2>1. /\ txn' = "open" /\ Goto(p, l) /\ UNCHANGED <<work, committed, hit>>
    BY <1>2 DEF Begin
  <2> QED
    BY <2>1, GotoTypes DEF DBTypes
<1> QED
  BY <1>1, <1>2

\* The change at hand.
LEMMA NowTypes ==
    ASSUME ProcTypes, NEW p \in Proc, pc[p] \in {"begin"} \cup AtChange
    PROVE  Now(p) \in Change
  BY DEF ProcTypes, Now

\* The tables after a change.
LEMMA RowsTypes ==
    ASSUME NEW rows \in [Row -> Nat], NEW r, NEW v \in Nat
    PROVE  [rows EXCEPT ![r] = v] \in [Row -> Nat]
  OBVIOUS

\* Every statement of a process keeps the types.
LEMMA StatementTypes ==
    ASSUME TypeOK, NEW p \in Proc, Statement(p)
    PROVE  TypeOK'
<1>1. DBTypes /\ ProcTypes /\ FeedTypes
  BY TypeParts
<1>2. UNCHANGED <<feedVars, crashes>>
  BY DEF Statement, SaveFind, SaveBegin, SaveWrite, SaveCommit, RollbackSave,
         ServiceFind, Update, Read, Delete
<1>3. FeedTypes'
  BY <1>1, <1>2, SameFeed
<1>4. /\ pc[p] \in AtChange => Now(p) \in Change /\ Now(p).row \in Row \cup {0} /\ Now(p).v \in Nat
      /\ pc[p] \in AtChange => pc[p] \notin {"idle", "done"} /\ pc[p] \in {"begin"} \cup AtChange
      /\ work.rows \in [Row -> Nat]
  <2>1. pc[p] \in AtChange => Now(p) \in Change
    BY <1>1, NowTypes
  <2>2. work.rows \in [Row -> Nat]
    BY <1>1 DEF DBTypes, DB
  <2>3. pc[p] \in AtChange => pc[p] \notin {"idle", "done"}
    BY DEF AtChange
  <2> QED
    BY <2>1, <2>2, <2>3 DEF Change
<1> SUFFICES DBTypes' /\ ProcTypes'
  BY <1>3, TypePartsNext
<1>5. CASE SaveFind(p)
  <2>1. pc[p] = "next" /\ pc[p] \in AtChange
    BY <1>5 DEF SaveFind, AtChange
  <2>2. CASE Abort(p) /\ Throw(p, FALSE)
    BY <1>1, <1>4, <2>1, <2>2, AbortTypes, ThrowTypes
  <2>3. CASE Write(p, work.rows) /\ Advance(p)
    BY <1>1, <1>4, <2>1, <2>3, WriteTypes, AdvanceTypes
  <2>4. CASE /\ UNCHANGED dbVars
             /\ pc' = [pc EXCEPT ![p] = "saveBegin"]
             /\ insertion' = [insertion EXCEPT ![p] =
                   Now(p).op = "insert" /\ work.rows[Now(p).row] = 0]
             /\ UNCHANGED <<todo, outcome>>
    <3>1. /\ outcome[p] = "running" /\ todo[p] # << >> /\ todo[p] \in Seq(Change)
          /\ outcome[p] \in Outcome /\ "saveBegin" \in PC
      BY <1>1, <1>4, <2>1, MovingRuns DEF ProcTypes, PC
    <3>2. /\ todo' = [todo EXCEPT ![p] = todo[p]] /\ outcome' = [outcome EXCEPT ![p] = outcome[p]]
          /\ insertion' \in [Proc -> BOOLEAN]
      BY <1>1, <2>4 DEF ProcTypes
    <3>3. ProcTypes'
      BY <1>1, <2>4, <3>1, <3>2, ProcStep
    <3> QED
      BY <1>1, <2>4, <3>3, SameDB
  <2> QED
    BY <1>5, <2>2, <2>3, <2>4 DEF SaveFind
<1>6. CASE SaveBegin(p)
  <2>1. pc[p] = "saveBegin" /\ pc[p] \in AtChange /\ "saveWrite" \in AtChange
        /\ Begin(p, "saveWrite", FALSE)
    BY <1>6 DEF SaveBegin, AtChange
  <2> QED
    BY <1>1, <1>4, <2>1, BeginTypes
<1>7. CASE SaveWrite(p)
  <2>1. pc[p] = "saveWrite" /\ pc[p] \in AtChange /\ "saveCommit" \in AtChange
    BY <1>7 DEF SaveWrite, AtChange
  <2>2. CASE Abort(p) /\ Throw(p, TRUE)
    BY <1>1, <1>4, <2>1, <2>2, AbortTypes, ThrowTypes
  <2>3. CASE /\ Write(p, IF Now(p).op = "mark" \/ (~insertion[p] /\ work.rows[Now(p).row] = 0)
                         THEN work.rows ELSE [work.rows EXCEPT ![Now(p).row] = Now(p).v])
             /\ Goto(p, "saveCommit")
    <3>1. (IF Now(p).op = "mark" \/ (~insertion[p] /\ work.rows[Now(p).row] = 0)
           THEN work.rows ELSE [work.rows EXCEPT ![Now(p).row] = Now(p).v]) \in [Row -> Nat]
      BY <1>4, <2>1, RowsTypes
    <3> QED
      BY <1>1, <1>4, <2>1, <2>3, <3>1, WriteTypes, GotoTypes
  <2> QED
    BY <1>7, <2>2, <2>3 DEF SaveWrite
<1>8. CASE SaveCommit(p)
  <2>1. pc[p] \in AtChange /\ CommitSession /\ Advance(p)
    BY <1>8 DEF SaveCommit, AtChange
  <2> QED
    BY <1>1, <2>1, CommitTypes, AdvanceTypes
<1>9. CASE RollbackSave(p)
  <2>1. pc[p] \notin {"idle", "done"} /\ RollbackSession(p) /\ Throw(p, FALSE)
    BY <1>9 DEF RollbackSave
  <2> QED
    BY <1>1, <2>1, RollbackTypes, ThrowTypes
<1>10. CASE ServiceFind(p)
  <2>1. pc[p] \in AtChange /\ "write" \in AtChange
    BY <1>10 DEF ServiceFind, AtChange
  <2>2. CASE Abort(p) /\ Throw(p, FALSE)
    BY <1>1, <1>4, <2>1, <2>2, AbortTypes, ThrowTypes
  <2>3. CASE UNCHANGED dbVars /\ Throw(p, FALSE)
    BY <1>1, <1>4, <2>1, <2>3, SameDB, ThrowTypes
  <2>4. CASE UNCHANGED dbVars /\ Goto(p, "write")
    BY <1>1, <1>4, <2>1, <2>4, SameDB, GotoTypes
  <2> QED
    BY <1>10, <2>2, <2>3, <2>4 DEF ServiceFind
<1>11. CASE Update(p)
  <2>1. pc[p] \in AtChange /\ "read" \in AtChange
    BY <1>11 DEF Update, AtWrite, AtChange
  <2>2. CASE Abort(p) /\ Throw(p, FALSE)
    BY <1>1, <1>4, <2>1, <2>2, AbortTypes, ThrowTypes
  <2>3. CASE /\ Write(p, IF work.rows[Now(p).row] = 0 THEN work.rows
                         ELSE [work.rows EXCEPT ![Now(p).row] = Now(p).v])
             /\ Goto(p, "read")
    <3>1. (IF work.rows[Now(p).row] = 0 THEN work.rows
           ELSE [work.rows EXCEPT ![Now(p).row] = Now(p).v]) \in [Row -> Nat]
      BY <1>4, <2>1, RowsTypes
    <3> QED
      BY <1>1, <1>4, <2>1, <2>3, <3>1, WriteTypes, GotoTypes
  <2> QED
    BY <1>11, <2>2, <2>3 DEF Update
<1>12. CASE Read(p)
  <2>1. pc[p] \in AtChange
    BY <1>12 DEF Read, AtChange
  <2>2. CASE Abort(p) /\ Throw(p, FALSE)
    BY <1>1, <1>4, <2>1, <2>2, AbortTypes, ThrowTypes
  <2>3. CASE UNCHANGED dbVars /\ Throw(p, FALSE)
    BY <1>1, <1>4, <2>1, <2>3, SameDB, ThrowTypes
  <2>4. CASE UNCHANGED dbVars /\ Advance(p)
    BY <1>1, <2>1, <2>4, SameDB, AdvanceTypes
  <2> QED
    BY <1>12, <2>2, <2>3, <2>4 DEF Read
<1>13. CASE Delete(p)
  <2>1. pc[p] \in AtChange
    BY <1>13 DEF Delete, AtWrite, AtChange
  <2>2. CASE Abort(p) /\ Throw(p, FALSE)
    BY <1>1, <1>4, <2>1, <2>2, AbortTypes, ThrowTypes
  <2>3. CASE /\ Write(p, [work.rows EXCEPT ![Now(p).row] = 0])
             /\ \/ /\ pc' = [pc EXCEPT ![p] = "done"] /\ outcome' = [outcome EXCEPT ![p] = "noop"]
                   /\ UNCHANGED <<todo, insertion>>
                \/ Advance(p)
    <3>1. [work.rows EXCEPT ![Now(p).row] = 0] \in [Row -> Nat]
      BY <1>4, RowsTypes
    <3>2. DBTypes'
      BY <1>1, <1>4, <2>1, <2>3, <3>1, WriteTypes
    <3>3. "noop" \in Outcome \ {"none", "running"}
      BY DEF Outcome
    <3>4. ProcTypes'
      BY <1>1, <2>1, <2>3, <3>3, DoneTypes, AdvanceTypes
    <3> QED
      BY <3>2, <3>4
  <2> QED
    BY <1>13, <2>2, <2>3 DEF Delete
<1> QED
  BY <1>5, <1>6, <1>7, <1>8, <1>9, <1>10, <1>11, <1>12, <1>13 DEF Statement

\* So do BEGIN, COMMIT and ROLLBACK of processBatch.
LEMMA BatchStatementTypes ==
    ASSUME TypeOK, NEW b \in 1..MaxBatches, BatchStatement(b)
    PROVE  TypeOK'
<1> DEFINE p == <<"batch", b>>
<1>1. DBTypes /\ ProcTypes /\ FeedTypes /\ p \in Proc
  BY TypeParts DEF Proc
<1>2. UNCHANGED <<feedVars, crashes>>
  BY DEF BatchStatement, BeginBatch, CommitBatch, RollbackBatch
<1>3. FeedTypes'
  BY <1>1, <1>2, SameFeed
<1> SUFFICES DBTypes' /\ ProcTypes'
  BY <1>3, TypePartsNext
<1>4. {"failed", "ok"} \subseteq Outcome \ {"none", "running"} /\ "next" \in AtChange
  BY DEF Outcome, AtChange
<1>5. CASE BeginBatch(b)
  <2>1. pc[p] = "begin"
    BY <1>5 DEF BeginBatch
  <2>2. CASE /\ Abort(p)
             /\ pc' = [pc EXCEPT ![p] = "done"] /\ outcome' = [outcome EXCEPT ![p] = "failed"]
             /\ UNCHANGED <<todo, insertion>>
    <3> HIDE DEF p
    <3> QED
      BY <1>1, <1>4, <2>2, AbortTypes, DoneTypes
  <2>3. CASE Begin(p, "next", FALSE)
    <3> HIDE DEF p
    <3> QED
      BY <1>1, <1>4, <2>1, <2>3, BeginTypes
  <2> QED
    BY <1>5, <2>2, <2>3 DEF BeginBatch
<1>6. CASE CommitBatch(b)
  <2>1. /\ CommitSession
        /\ pc' = [pc EXCEPT ![p] = "done"] /\ outcome' = [outcome EXCEPT ![p] = "ok"]
        /\ UNCHANGED <<todo, insertion>>
    BY <1>6 DEF CommitBatch
  <2> HIDE DEF p
  <2> QED
    BY <1>1, <1>4, <2>1, CommitTypes, DoneTypes
<1>7. CASE RollbackBatch(b)
  <2>1. /\ RollbackSession(p)
        /\ pc' = [pc EXCEPT ![p] = "done"] /\ outcome' = [outcome EXCEPT ![p] = "failed"]
        /\ UNCHANGED <<todo, insertion>>
    BY <1>7 DEF RollbackBatch
  <2> HIDE DEF p
  <2> QED
    BY <1>1, <1>4, <2>1, RollbackTypes, DoneTypes
<1> QED
  BY <1>5, <1>6, <1>7 DEF BatchStatement

-----------------------------------------------------------------------------
(* What the server makes of the changes of a row.                          *)

\* The first of a finite set of places.
LEMMA FirstIs ==
    ASSUME NEW S \in SUBSET Int, IsFiniteSet(S), S # {}
    PROVE  First(S) \in S /\ \A j \in S : First(S) <= j
  BY LeastExists DEF First

\* The last of a finite set of places.
LEMMA LastIs ==
    ASSUME NEW S \in SUBSET Int, IsFiniteSet(S), S # {}
    PROVE  Last(S) \in S /\ \A j \in S : j <= Last(S)
  BY GreatestExists DEF Last

\* Some change has the newest updated_at.
LEMMA NewestIs ==
    ASSUME NEW raw \in Seq(Change), NEW S \in SUBSET (DOMAIN raw), S # {}
    PROVE  Newest(raw, S) \in SUBSET S /\ Newest(raw, S) # {}
<1> DEFINE f == [i \in S |-> raw[i].ts]
           T == { raw[i].ts : i \in S }
<1>1. IsFiniteSet(S) /\ S \in SUBSET Int
  BY PlacesFinite
<1>2. \A i \in S : raw[i].ts \in Nat
  <2>1. \A i \in S : raw[i] \in Change
    OBVIOUS
  <2> QED
    BY <2>1 DEF Change
<1>3. f \in Surjection(S, T)
  <2>1. f \in [S -> T]
    OBVIOUS
  <2>2. \A t \in T : \E i \in S : f[i] = t
    OBVIOUS
  <2> QED
    BY <2>1, <2>2 DEF Surjection
<1>4. T # {} /\ T \in SUBSET Int
  BY <1>2
<1>5. IsFiniteSet(T)
  BY <1>1, <1>3, FS_Surjection
<1>6. PICK m \in T : \A x \in T : x <= m
  <2> HIDE DEF T
  <2> QED
    BY <1>4, <1>5, GreatestExists
<1>7. PICK i \in S : raw[i].ts = m
  OBVIOUS
<1>8. i \in Newest(raw, S)
  BY <1>6, <1>7 DEF Newest
<1> QED
  BY <1>8 DEF Newest

\* The places that Net looks at.
LEMMA NetPlaces ==
    ASSUME NEW raw \in Seq(Change), NEW r \in Rows(raw),
           NEW S, S = Places(raw, r), NEW N, N = Newest(raw, S)
    PROVE  /\ S \in SUBSET (DOMAIN raw) /\ \A i \in S : raw[i] \in Change /\ raw[i].row = r
           /\ First(S) \in S /\ \A j \in S : First(S) <= j
           /\ Last(S) \in S /\ \A j \in S : j <= Last(S)
           /\ First(N) \in S /\ Last(N) \in S
<1>1. S \in SUBSET (DOMAIN raw) /\ S # {} /\ \A i \in S : raw[i].row = r
  BY DEF Rows, Places
<1>2. \A i \in S : raw[i] \in Change
  BY <1>1
<1>3. IsFiniteSet(S) /\ S \in SUBSET Int
  BY <1>1, PlacesFinite
<1>4. N \in SUBSET S /\ N # {}
  BY <1>1, NewestIs
<1>5. N \in SUBSET (DOMAIN raw)
  BY <1>1, <1>4
<1>6. IsFiniteSet(N) /\ N \in SUBSET Int
  BY <1>5, PlacesFinite
<1>7. First(N) \in N /\ Last(N) \in N
  BY <1>4, <1>6, FirstIs, LastIs
<1>8. /\ First(S) \in S /\ \A j \in S : First(S) <= j
      /\ Last(S) \in S /\ \A j \in S : j <= Last(S)
  BY <1>1, <1>3, FirstIs, LastIs
<1> QED
  BY <1>1, <1>2, <1>4, <1>7, <1>8

\* It is a change of the row.
LEMMA NetTypes ==
    ASSUME NEW raw \in Seq(Change), NEW r \in Rows(raw)
    PROVE  Net(raw, r) \in Change /\ Net(raw, r).row = r
<1> DEFINE S == Places(raw, r)
           N == Newest(raw, S)
<1>1. /\ \A i \in S : raw[i] \in Change /\ raw[i].row = r
      /\ Last(S) \in S /\ First(N) \in S /\ Last(N) \in S
  BY NetPlaces
<1>2. Net(raw, r) = IF raw[Last(S)].op = "delete" THEN raw[Last(S)]
                    ELSE IF raw[First(N)].op = "insert"
                         THEN [raw[First(N)] EXCEPT !.v = raw[Last(N)].v]
                         ELSE raw[First(N)]
  BY DEF Net
<1> HIDE DEF S, N
<1>3. raw[Last(N)].v \in Nat
  BY <1>1 DEF Change
<1>4. /\ [raw[First(N)] EXCEPT !.v = raw[Last(N)].v] \in Change
      /\ [raw[First(N)] EXCEPT !.v = raw[Last(N)].v].row = r
  BY <1>1, <1>3 DEF Change
<1> QED
  BY <1>1, <1>2, <1>4

\* Deduplication returns changes.
LEMMA DeduplicatedTypes ==
    ASSUME NEW raw \in Seq(Change)
    PROVE  Deduplicated(raw) \subseteq Change
  BY NetTypes DEF Deduplicated

-----------------------------------------------------------------------------
(* Types of the other actions.                                             *)

\* A batch that arrives is put in order as a list of changes.
LEMMA ReceiveTypes ==
    ASSUME TypeOK, NEW b \in 1..MaxBatches, Receive(b)
    PROVE  TypeOK'
<1> DEFINE p == <<"batch", b>>
           l == <<"lsn", b>>
<1>1. DBTypes /\ ProcTypes /\ FeedTypes /\ p \in Proc /\ l \in Proc /\ l # p /\ p[1] = "batch"
  BY TypeParts DEF Proc
<1>2. /\ feed \in Seq(Change) /\ feed # << >> /\ Len(feed) \in Nat \ {0}
      /\ UNCHANGED dbVars /\ UNCHANGED <<srv, insertion, writes, crashes>>
  BY <1>1 DEF Receive, FeedTypes
<1>3. PICK busy \in BOOLEAN, n \in 1..Len(feed) :
         LET raw == SubSeq(feed, 1, n) IN
          /\ feed' = SubSeq(feed, n + 1, Len(feed))
          /\ given' = [given EXCEPT ![b] = Deduplicated(raw)]
          /\ collapsed' = IF Collapsed(raw) THEN collapsed \cup {b} ELSE collapsed
          /\ \E s \in Orders(Deduplicated(raw)) :
                /\ pc' = [pc EXCEPT ![l] = "next", ![p] = IF busy THEN "done" ELSE "begin"]
                /\ todo' = [todo EXCEPT ![l] = <<Mark>>, ![p] = IF busy THEN << >> ELSE s]
                /\ outcome' = [outcome EXCEPT
                      ![l] = "running", ![p] = IF busy THEN "refused" ELSE "running"]
  <2> DEFINE B == \E k \in 1..MaxBatches : outcome[<<"batch", k>>] = "running"
  <2>1. B \in BOOLEAN
    OBVIOUS
  <2>2. \A n \in (IF Starts + 1 < MaxStarts THEN 1 ELSE Len(feed))..Len(feed) : n \in 1..Len(feed)
    BY <1>2
  <2> QED
    BY <2>1, <2>2 DEF Receive
<1> DEFINE raw == SubSeq(feed, 1, n)
           D == Deduplicated(raw)
<1>4. /\ raw \in Seq(Change) /\ feed' \in Seq(Change) /\ DOMAIN raw = 1..n /\ n \in Nat \ {0}
  BY <1>2, <1>3
<1>5. D \subseteq Change /\ IsFiniteSet(D) /\ D # {}
  BY <1>4, DeduplicatedTypes, FiniteBatch
<1> HIDE DEF raw
<1>6. PICK s \in Orders(D) :
          /\ pc' = [pc EXCEPT ![l] = "next", ![p] = IF busy THEN "done" ELSE "begin"]
          /\ todo' = [todo EXCEPT ![l] = <<Mark>>, ![p] = IF busy THEN << >> ELSE s]
          /\ outcome' = [outcome EXCEPT
                ![l] = "running", ![p] = IF busy THEN "refused" ELSE "running"]
  BY <1>3 DEF raw
<1>7. given' = [given EXCEPT ![b] = D] /\ collapsed' \in {collapsed, collapsed \cup {b}}
  BY <1>3 DEF raw
<1> HIDE DEF D
<1>8. s \in Seq(Change) /\ s # << >>
  <2>1. s \in [1..Cardinality(D) -> D] /\ Cardinality(D) \in Nat
    BY <1>5, FS_CardinalityType DEF Orders
  <2>2. s \in Seq(Change)
    BY <1>5, <2>1
  <2>3. Cardinality(D) # 0
    BY <1>5, FS_EmptySet
  <2> QED
    BY <2>1, <2>2, <2>3
<1>9. FeedTypes'
  BY <1>1, <1>2, <1>4, <1>5, <1>7 DEF FeedTypes
<1>10. Mark \in Change /\ <<Mark>> \in Seq(Change) /\ << >> \in Seq(Change) /\ <<Mark>> # << >>
  BY DEF Mark, Change
<1>11. ProcTypes'
  <2> HIDE DEF p, l
  <2>1. /\ pc' \in [Proc -> PC] /\ todo' \in [Proc -> Seq(Change)]
        /\ insertion' \in [Proc -> BOOLEAN] /\ outcome' \in [Proc -> Outcome]
    BY <1>1, <1>2, <1>6, <1>8, <1>10 DEF ProcTypes, PC, Outcome
  <2>2. /\ pc'[l] = "next" /\ todo'[l] = <<Mark>> /\ outcome'[l] = "running"
        /\ \/ pc'[p] = "done" /\ outcome'[p] = "refused"
           \/ pc'[p] = "begin" /\ todo'[p] = s /\ outcome'[p] = "running"
        /\ \A q \in Proc \ {p, l} :
              pc'[q] = pc[q] /\ todo'[q] = todo[q] /\ outcome'[q] = outcome[q]
    BY <1>1, <1>6 DEF ProcTypes
  <2>3. ASSUME NEW q \in Proc
        PROVE  /\ pc'[q] = "idle" <=> outcome'[q] = "none"
               /\ pc'[q] = "done" <=> outcome'[q] \notin {"none", "running"}
               /\ pc'[q] \in {"begin", "commit", "rollback"} => q[1] = "batch"
               /\ pc'[q] \in {"begin"} \cup AtChange => todo'[q] # << >>
    <3>1. CASE q = p
      BY <1>1, <1>8, <2>2, <3>1 DEF AtChange
    <3>2. CASE q = l
      BY <1>10, <2>2, <3>2
    <3>3. CASE q \notin {p, l}
      BY <1>1, <2>2, <3>3 DEF ProcTypes
    <3> QED
      BY <3>1, <3>2, <3>3
  <2> QED
    BY <2>1, <2>3 DEF ProcTypes
<1> QED
  BY <1>1, <1>2, <1>9, <1>11, SameDB, TypePartsNext

\* An edit is a change of a row and its mark.
LEMMA EditTypes ==
    ASSUME TypeOK, NEW e \in 1..MaxEdits, Edit(e)
    PROVE  TypeOK'
<1> DEFINE p == <<"edit", e>>
<1>1. DBTypes /\ ProcTypes /\ FeedTypes /\ p \in Proc
  BY TypeParts DEF Proc
<1>2. UNCHANGED <<dbVars, feedVars, crashes>>
  BY DEF Edit
<1>3. PICK r \in Row, op \in {"insert", "update", "delete"} :
         Start(p, "next",
               <<[op |-> op, row |-> r, v |-> IF op = "delete" THEN 0 ELSE MaxWrites + 1 + e,
                  ts |-> 0], Mark>>)
  BY DEF Edit
<1> DEFINE c == [op |-> op, row |-> r, v |-> IF op = "delete" THEN 0 ELSE MaxWrites + 1 + e,
                 ts |-> 0]
<1>4. c \in Change /\ Mark \in Change
  <2>1. MaxWrites \in Nat /\ e \in Nat
    BY BoundsNat
  <2>2. (IF op = "delete" THEN 0 ELSE MaxWrites + 1 + e) \in Nat
    BY <2>1
  <2> QED
    BY <2>2 DEF Change, Mark
<1>5. Start(p, "next", <<c, Mark>>)
  BY <1>3
<1> HIDE DEF c
<1>6. <<c, Mark>> \in Seq(Change) /\ <<c, Mark>> # << >>
  BY <1>4
<1>7. /\ pc' = [pc EXCEPT ![p] = "next"] /\ todo' = [todo EXCEPT ![p] = <<c, Mark>>]
      /\ outcome' = [outcome EXCEPT ![p] = "running"] /\ insertion' \in [Proc -> BOOLEAN]
  BY <1>1, <1>5 DEF Start, ProcTypes
<1>8. "next" \in PC /\ "running" \in Outcome
  BY DEF PC, Outcome
<1> HIDE DEF p
<1>9. ProcTypes'
  BY <1>1, <1>6, <1>7, <1>8, ProcStep
<1> QED
  BY <1>1, <1>2, <1>9, SameDB, SameFeed, TypePartsNext

\* What a write on the server adds.
LEMMA WrittenTypes ==
    ASSUME TypeOK, ServerWrite
    PROVE  /\ srv' \in [Synced -> Nat] /\ feed' \in Seq(Change) /\ writes' \in Nat
           /\ UNCHANGED <<dbVars, procVars, given, collapsed, crashes>>
<1>1. /\ srv \in [Synced -> Nat] /\ feed \in Seq(Change) /\ writes \in Nat
  BY DEF TypeOK
<1>2. writes' \in Nat /\ writes' = writes + 1
  BY <1>1 DEF ServerWrite
<1>3. PICK r \in Synced, op \in {"insert", "update", "delete"}, newer \in {0, 1} :
          /\ srv' = [srv EXCEPT ![r] = IF op = "delete" THEN 0 ELSE writes' + 1]
          /\ feed' = Append(feed, [op |-> op, row |-> r, v |-> srv'[r], ts |-> LastTs(r) + newer])
  BY DEF ServerWrite
<1>4. srv' \in [Synced -> Nat] /\ srv'[r] \in Nat
  BY <1>1, <1>2, <1>3
<1>5. LastTs(r) \in Nat
  <2>1. CASE Places(feed, r) = {}
    BY <2>1 DEF LastTs
  <2>2. CASE Places(feed, r) # {}
    <3>1. Places(feed, r) \in SUBSET (DOMAIN feed)
      BY DEF Places
    <3>2. IsFiniteSet(Places(feed, r)) /\ Places(feed, r) \in SUBSET Int
      BY <1>1, <3>1, PlacesFinite
    <3>3. Last(Places(feed, r)) \in DOMAIN feed
      BY <2>2, <3>1, <3>2, LastIs
    <3>4. feed[Last(Places(feed, r))] \in Change
      BY <1>1, <3>3
    <3> QED
      BY <2>2, <3>4 DEF LastTs, Change
  <2> QED
    BY <2>1, <2>2
<1>6. [op |-> op, row |-> r, v |-> srv'[r], ts |-> LastTs(r) + newer] \in Change
  BY <1>4, <1>5 DEF Change, Row
<1>7. feed' \in Seq(Change)
  BY <1>1, <1>3, <1>6
<1> QED
  BY <1>2, <1>4, <1>7 DEF ServerWrite

\* A restart ends every process.
LEMMA CrashTypes ==
    ASSUME TypeOK, Crash
    PROVE  TypeOK'
<1>1. DBTypes /\ ProcTypes /\ FeedTypes
  BY TypeParts
<1>2. DBTypes'
  BY <1>1, UncommittedProcs DEF Crash, DBTypes
<1>3. FeedTypes'
  BY <1>1 DEF Crash, FeedTypes, feedVars
<1>4. /\ pc' = [p \in Proc |-> IF pc[p] = "idle" THEN "idle" ELSE "done"]
      /\ outcome' = [p \in Proc |-> IF outcome[p] = "running" THEN "cut" ELSE outcome[p]]
      /\ UNCHANGED <<todo, insertion>>
  BY DEF Crash
<1>5. /\ pc' \in [Proc -> PC] /\ todo' \in [Proc -> Seq(Change)]
      /\ insertion' \in [Proc -> BOOLEAN] /\ outcome' \in [Proc -> Outcome]
  BY <1>1, <1>4 DEF ProcTypes, PC, Outcome
<1>6. ASSUME NEW q \in Proc
      PROVE  /\ pc'[q] = "idle" <=> outcome'[q] = "none"
             /\ pc'[q] = "done" <=> outcome'[q] \notin {"none", "running"}
             /\ pc'[q] \in {"begin", "commit", "rollback"} => q[1] = "batch"
             /\ pc'[q] \in {"begin"} \cup AtChange => todo'[q] # << >>
  BY <1>1, <1>4 DEF ProcTypes, AtChange
<1>7. ProcTypes'
  BY <1>5, <1>6 DEF ProcTypes
<1> QED
  BY <1>2, <1>3, <1>7, TypePartsNext

\* The initial state is of the types.
LEMMA InitTypes == Init => TypeOK
<1> SUFFICES ASSUME Init PROVE TypeOK
  OBVIOUS
<1>1. /\ srv \in [Synced -> Nat] /\ feed \in Seq(Change) /\ writes \in Nat /\ crashes \in Nat
      /\ given \in [1..MaxBatches -> SUBSET Change] /\ collapsed \subseteq 1..MaxBatches
  <2>1. srv \in [Synced -> {0, 1}] /\ feed = << >> /\ writes = 0 /\ crashes = 0
        /\ given = [b \in 1..MaxBatches |-> {}] /\ collapsed = {}
    BY DEF Init
  <2>2. << >> \in Seq(Change)
    OBVIOUS
  <2> QED
    BY <2>1, <2>2
<1>2. DBTypes
  <2>1. /\ work = [rows |-> [r \in Row |-> IF r \in Synced THEN srv[r] ELSE 0], did |-> {}]
        /\ committed = work /\ txn = "none" /\ hit = {}
    BY DEF Init
  <2>2. work \in DB
    BY <1>1, <2>1 DEF DB
  <2> QED
    BY <2>1, <2>2 DEF DBTypes
<1>3. ProcTypes
  <2>1. /\ pc = [p \in Proc |-> "idle"] /\ todo = [p \in Proc |-> << >>]
        /\ insertion = [p \in Proc |-> FALSE] /\ outcome = [p \in Proc |-> "none"]
    BY DEF Init
  <2>2. << >> \in Seq(Change)
    OBVIOUS
  <2> QED
    BY <2>1, <2>2 DEF ProcTypes, PC, Outcome, AtChange
<1> QED
  BY <1>1, <1>2, <1>3, TypeParts DEF FeedTypes

\* Every step keeps the types.
LEMMA NextTypes == TypeOK /\ [Next]_vars => TypeOK'
<1> SUFFICES ASSUME TypeOK, [Next]_vars PROVE TypeOK'
  OBVIOUS
<1>1. CASE UNCHANGED vars
  BY <1>1 DEF TypeOK, vars, dbVars, procVars, feedVars
<1>2. CASE ServerWrite
  BY <1>2, WrittenTypes DEF TypeOK, dbVars, procVars
<1> QED
  BY <1>1, <1>2, ReceiveTypes, BatchStatementTypes, EditTypes, StatementTypes, CrashTypes DEF Next

\* The rows, the changes, the processes and their places are what they should be.
THEOREM TypeCorrect == Spec => []TypeOK
  BY InitTypes, NextTypes, PTL DEF Spec


-----------------------------------------------------------------------------
(* Why a batch fails.                                                      *)

\* A change of row r in f after the k-th.
Later(f, k, r) == { i \in Places(f, r) : k < i }

\* The row is on the server after the first k changes of f, s being its rows in
\* the end: only the first change of a row can be an insert.
Alive(s, f, k, r) ==
    IF Later(f, k, r) = {} THEN s[r] # 0 ELSE \A i \in Later(f, k, r) : f[i].op # "insert"

\* The feed f leads to the rows s of the server, and never leaves a row that
\* refers to an absent one.
Leads(s, f) ==
    /\ \A i \in DOMAIN f :
          /\ f[i].op # "mark" /\ f[i].row \in Synced /\ (f[i].op # "delete" => f[i].v # 0)
          /\ f[i].op = "insert" => \A j \in Places(f, f[i].row) : i <= j
          /\ Alive(s, f, i, f[i].row) <=> f[i].op # "delete"
    /\ \A k \in 0..Len(f) : \A r \in Child : Alive(s, f, k, r) => Alive(s, f, k, ParentOf[r])

FeedInv == Leads(srv, feed)

Batch(b) == <<"batch", b>>
Lsn(b) == <<"lsn", b>>

\* Batches start one after the other, and while one runs the others are refused.
OrderInv ==
    \A b \in 1..MaxBatches :
        /\ outcome[Batch(b)] # "none" => \A k \in 1..b : outcome[Batch(k)] # "none"
        /\ outcome[Batch(b)] = "running" =>
              \A k \in 1..MaxBatches : k > b => outcome[Batch(k)] \in {"none", "refused"}

\* The save of an LSN writes its mark.
LsnInv ==
    \A b \in 1..MaxBatches :
        /\ pc[Lsn(b)] \in AtChange => todo[Lsn(b)] = <<Mark>>
        /\ ~insertion[Lsn(b)]

NoEdits == \A e \in 1..MaxEdits : outcome[<<"edit", e>>] = "none"
Good(b) == NoEdits /\ \A k \in 1..b : ~Cause(k)
Running(b) == b > 0 /\ outcome[Batch(b)] = "running"
NoneAfter(b) == \A k \in 1..MaxBatches : k > b => outcome[Batch(k)] = "none"

\* The batch that runs, or else the last one that was received (0: none was).
Current(b) == (b > 0 => outcome[Batch(b)] # "none") /\ (Running(b) \/ NoneAfter(b))

\* What batch b still has to do.
Undone(b) ==
    IF ~Running(b) THEN << >>
    ELSE IF pc[Batch(b)] \in HeadDone THEN Tail(todo[Batch(b)]) ELSE todo[Batch(b)]

\* The row will be there when the changes of q are done.
Will(rows, q, r) ==
    /\ \A i \in DOMAIN q : q[i].row = r => q[i].op # "delete"
    /\ rows[r] # 0 \/ \E i \in DOMAIN q : q[i].row = r

\* A change of q fits the rows it will find.
Fits(rows, q, c) ==
    /\ c.row \in Synced /\ c.op \in {"insert", "update", "delete"}
    /\ c.op # "delete" => c.v # 0
    /\ c.op = "insert" => rows[c.row] = 0 /\ (c.row \in Child => Will(rows, q, ParentOf[c.row]))
    /\ c.op = "update" => rows[c.row] # 0
    /\ c.op = "delete" => \A r \in Child : ParentOf[r] = c.row => rows[r] = 0

\* Changes of different rows, referenced rows first.
Sorted(q) ==
    \A i, j \in DOMAIN q : i < j =>
        q[i].row # q[j].row /\ DependencyOrder(q[i]) <= DependencyOrder(q[j])

Doable(rows, q) == Sorted(q) /\ \A i \in DOMAIN q : Fits(rows, q, q[i])

\* Nothing stands in the way of batch b.
Healthy(b) ==
    /\ txn # "aborted"
    /\ \A p \in Proc : pc[p] \notin {"rollback", "rollbackSave"}
    /\ \A r \in Row \ Synced : work.rows[r] = 0
    /\ ~Running(b) => work.rows = committed.rows
    /\ Doable(work.rows, Undone(b))
    /\ Running(b) /\ pc[Batch(b)] \in {"saveBegin", "saveWrite"} =>
          insertion[Batch(b)] /\ Now(Batch(b)).op = "insert"
    /\ NoneAfter(b) =>
          \A r \in Synced : Will(work.rows, Undone(b), r) <=> Alive(srv, feed, 0, r)

CauseInv ==
    /\ \A b \in 1..MaxBatches : Good(b) => outcome[Batch(b)] # "failed"
    /\ \A b \in 0..MaxBatches : Good(b) /\ Current(b) => Healthy(b)

-----------------------------------------------------------------------------
(* Doing what fits.                                                        *)

\* The places of a list without its head.
LEMMA TailIs ==
    ASSUME NEW q \in Seq(Change), q # << >>
    PROVE  /\ Len(q) \in Nat \ {0} /\ DOMAIN q = 1..Len(q) /\ Head(q) = q[1]
           /\ Tail(q) \in Seq(Change) /\ DOMAIN Tail(q) = 1..(Len(q) - 1)
           /\ \A i \in DOMAIN Tail(q) : i + 1 \in DOMAIN q /\ Tail(q)[i] = q[i+1]
           /\ \A i \in DOMAIN q : i # 1 => i - 1 \in DOMAIN Tail(q) /\ Tail(q)[i-1] = q[i]
  OBVIOUS

\* The rows of a sorted list differ.
LEMMA SortedTail ==
    ASSUME NEW q \in Seq(Change), q # << >>, Sorted(q)
    PROVE  /\ Sorted(Tail(q))
           /\ \A i \in DOMAIN q : i # 1 =>
                 q[i].row # q[1].row /\ DependencyOrder(q[1]) <= DependencyOrder(q[i])
<1>1. ASSUME NEW i \in DOMAIN Tail(q), NEW j \in DOMAIN Tail(q), i < j
      PROVE  /\ Tail(q)[i].row # Tail(q)[j].row
             /\ DependencyOrder(Tail(q)[i]) <= DependencyOrder(Tail(q)[j])
  <2>1. i + 1 \in DOMAIN q /\ j + 1 \in DOMAIN q /\ i + 1 < j + 1
    BY <1>1, TailIs
  <2>2. Tail(q)[i] = q[i+1] /\ Tail(q)[j] = q[j+1]
    BY TailIs
  <2> QED
    BY <2>1, <2>2 DEF Sorted
<1>2. ASSUME NEW i \in DOMAIN q, i # 1
      PROVE  q[i].row # q[1].row /\ DependencyOrder(q[1]) <= DependencyOrder(q[i])
  <2>1. 1 \in DOMAIN q /\ 1 < i
    BY <1>2, TailIs
  <2> QED
    BY <2>1 DEF Sorted
<1> QED
  BY <1>1, <1>2 DEF Sorted

\* Who will be there does not change when a change is done.
LEMMA WillKept ==
    ASSUME NEW rows \in [Row -> Nat], NEW q \in Seq(Change), q # << >>, Sorted(q),
           NEW v \in Nat, v = 0 <=> Head(q).op = "delete", NEW r \in Row
    PROVE  Will([rows EXCEPT ![Head(q).row] = v], Tail(q), r) <=> Will(rows, q, r)
<1> DEFINE after == [rows EXCEPT ![Head(q).row] = v]
           t == Tail(q)
<1>1. /\ Head(q) = q[1] /\ 1 \in DOMAIN q
      /\ \A i \in DOMAIN t : i + 1 \in DOMAIN q /\ i + 1 # 1 /\ t[i] = q[i+1]
      /\ \A i \in DOMAIN q : i # 1 => i - 1 \in DOMAIN t /\ t[i-1] = q[i]
  BY TailIs
<1>2. \A i \in DOMAIN q : i # 1 => q[i].row # q[1].row
  BY SortedTail
<1> SUFFICES Will(after, t, r) <=> Will(rows, q, r)
  OBVIOUS
<1>3. CASE r = q[1].row
  <2>1. after[r] = v
    BY <1>1, <1>3
  <2>2. \A i \in DOMAIN t : t[i].row # r
    BY <1>1, <1>2, <1>3
  <2>3. Will(after, t, r) <=> v # 0
    <3> HIDE DEF after, t
    <3> QED
      BY <2>1, <2>2 DEF Will
  <2>4. Will(rows, q, r) <=> q[1].op # "delete"
    BY <1>1, <1>2, <1>3 DEF Will
  <2> QED
    BY <1>1, <2>3, <2>4
<1>4. CASE r # q[1].row
  <2>1. after[r] = rows[r]
    BY <1>1, <1>4
  <2> HIDE DEF after, t
  <2>2. (\E i \in DOMAIN t : t[i].row = r) <=> (\E i \in DOMAIN q : q[i].row = r)
    BY <1>1, <1>4
  <2>3. (\A i \in DOMAIN t : t[i].row = r => t[i].op # "delete") <=>
        (\A i \in DOMAIN q : q[i].row = r => q[i].op # "delete")
    BY <1>1, <1>4
  <2> QED
    BY <2>1, <2>2, <2>3 DEF Will
<1> QED
  BY <1>3, <1>4

\* What fits still fits when the first change is done.
LEMMA Carried ==
    ASSUME NEW rows \in [Row -> Nat], NEW q \in Seq(Change), q # << >>, Doable(rows, q),
           NEW v \in Nat, v = 0 <=> Head(q).op = "delete"
    PROVE  Doable([rows EXCEPT ![Head(q).row] = v], Tail(q))
<1> DEFINE after == [rows EXCEPT ![Head(q).row] = v]
           t == Tail(q)
           c == q[1]
<1>1. /\ Head(q) = c /\ 1 \in DOMAIN q /\ c \in Change
      /\ \A i \in DOMAIN t : i + 1 \in DOMAIN q /\ i + 1 # 1 /\ t[i] = q[i+1]
  BY TailIs
<1>2. Sorted(q) /\ Sorted(t) /\ \A i \in DOMAIN q : i # 1 => q[i].row # c.row
  BY SortedTail DEF Doable
<1>3. \A r \in Row : r # c.row => after[r] = rows[r]
  BY <1>1
<1>4. c.row \in Row /\ after[c.row] = v /\ Fits(rows, q, c)
  <2>1. Fits(rows, q, c)
    BY <1>1 DEF Doable
  <2> QED
    BY <1>1, <2>1 DEF Fits, Row
<1>5. ASSUME NEW i \in DOMAIN t
      PROVE  Fits(after, t, t[i])
  <2> DEFINE d == t[i]
  <2>1. Fits(rows, q, d) /\ d.row # c.row /\ i + 1 \in DOMAIN q /\ d = q[i+1]
    BY <1>1, <1>2 DEF Doable
  <2> HIDE DEF d
  <2>2. d.row \in Synced /\ d.row \in Row /\ after[d.row] = rows[d.row]
    BY <1>3, <2>1 DEF Fits, Row
  <2>3. ASSUME d.op = "insert", d.row \in Child
        PROVE  Will(after, t, ParentOf[d.row])
    <3>1. ParentOf[d.row] \in Row
      BY <2>3, ParentOfType DEF Row, Synced
    <3>2. Will(rows, q, ParentOf[d.row])
      BY <2>1, <2>3 DEF Fits
    <3> QED
      BY <1>1, <1>2, <3>1, <3>2, WillKept
  <2>4. ASSUME d.op = "delete", NEW r \in Child, ParentOf[r] = d.row
        PROVE  after[r] = 0
    <3>1. rows[r] = 0 /\ r \in Row
      BY <2>1, <2>4 DEF Fits, Row, Synced
    <3>2. CASE r # c.row
      BY <1>3, <3>1, <3>2
    <3>3. CASE r = c.row
      <4>1. c.op # "update"
        BY <1>4, <3>1, <3>3 DEF Fits
      <4>2. c.op # "insert"
        <5>1. ASSUME c.op = "insert" PROVE Will(rows, q, d.row)
          BY <1>4, <2>4, <3>3, <5>1 DEF Fits
        <5>2. ~Will(rows, q, d.row)
          BY <2>1, <2>4 DEF Will
        <5> QED
          BY <5>1, <5>2
      <4>3. c.op = "delete"
        BY <1>4, <4>1, <4>2 DEF Fits
      <4> QED
        BY <1>1, <1>4, <3>3, <4>3
    <3> QED
      BY <3>2, <3>3
  <2> HIDE DEF after, t
  <2>5. Fits(after, t, d)
    BY <2>1, <2>2, <2>3, <2>4 DEF Fits
  <2> QED
    BY <2>5 DEF d
<1> HIDE DEF after, t
<1>6. Doable(after, t)
  BY <1>2, <1>5 DEF Doable
<1> QED
  BY <1>6 DEF after, t

\* A row of a table is not of the other.
LEMMA Tables ==
    ASSUME NEW r \in Synced
    PROVE  /\ IsChild(r) <=> r \in Child
           /\ r \in Child => ParentOf[r] \in Parent /\ ~IsChild(ParentOf[r]) /\ ParentOf[r] \in Synced
<1>1. IsChild(r) <=> r \in Child
  BY TablesDisjoint DEF IsChild, Synced
<1>2. ASSUME r \in Child PROVE ParentOf[r] \in Parent
  BY <1>2, ParentOfType
<1>3. \A x \in Parent : ~IsChild(x) /\ x \in Synced
  BY TablesDisjoint DEF IsChild, Synced
<1> QED
  BY <1>1, <1>2, <1>3

\* The first change can be done.
LEMMA CanInsert ==
    ASSUME NEW rows \in [Row -> Nat], NEW q \in Seq(Change), q # << >>, Doable(rows, q),
           Head(q).op = "insert"
    PROVE  MayInsert(rows, Head(q).row)
<1> DEFINE c == q[1]
<1>1. Head(q) = c /\ 1 \in DOMAIN q /\ c \in Change
  BY TailIs
<1>2. Fits(rows, q, c) /\ Sorted(q)
  BY <1>1 DEF Doable
<1>3. rows[c.row] = 0 /\ c.row \in Synced
  BY <1>1, <1>2 DEF Fits
<1>4. ASSUME IsChild(c.row) PROVE rows[ParentOf[c.row]] # 0
  <2> DEFINE r == ParentOf[c.row]
  <2>1. c.row \in Child /\ ~IsChild(r)
    BY <1>3, <1>4, Tables
  <2>2. Will(rows, q, r)
    BY <1>1, <1>2, <2>1 DEF Fits
  <2>3. ASSUME NEW i \in DOMAIN q, q[i].row = r PROVE FALSE
    <3>1. i # 1
      BY <1>4, <2>1, <2>3
    <3>2. DependencyOrder(c) <= DependencyOrder(q[i])
      BY <1>2, <3>1, SortedTail
    <3>3. DependencyOrder(c) = 2
      BY <1>1, <1>4 DEF DependencyOrder
    <3>4. DependencyOrder(q[i]) \in {0, 1}
      BY <2>1, <2>3 DEF DependencyOrder
    <3> QED
      BY <3>2, <3>3, <3>4
  <2> QED
    BY <2>2, <2>3 DEF Will
<1> QED
  BY <1>1, <1>3, <1>4 DEF MayInsert

\* No row refers to a row whose deletion fits.
LEMMA CanDelete ==
    ASSUME NEW rows \in [Row -> Nat], NEW q \in Seq(Change), q # << >>, Doable(rows, q),
           Head(q).op = "delete", \A r \in Row \ Synced : rows[r] = 0
    PROVE  MayDelete(rows, Head(q).row)
<1> DEFINE c == q[1]
<1>1. Head(q) = c /\ 1 \in DOMAIN q
  BY TailIs
<1>2. Fits(rows, q, c)
  BY <1>1 DEF Doable
<1>3. \A r \in Child : ParentOf[r] = c.row => rows[r] = 0
  BY <1>1, <1>2 DEF Fits
<1>4. ASSUME NEW r \in Row, IsChild(r), ParentOf[r] = c.row PROVE rows[r] = 0
  BY <1>3, <1>4, Tables
<1> QED
  BY <1>1, <1>4 DEF MayDelete


-----------------------------------------------------------------------------
(* The feed.                                                               *)

\* A change is appended.
LEMMA AppendAlive ==
    ASSUME NEW f \in Seq(Change), NEW s \in [Synced -> Nat], NEW c \in Change, NEW v \in Nat,
           c.row \in Synced, c.op = "insert" <=> s[c.row] = 0,
           c.op = "insert" => Places(f, c.row) = {},
           NEW k \in 0..(Len(f) + 1), NEW r \in Synced
    PROVE  LET t == [s EXCEPT ![c.row] = v]
               g == Append(f, c)
           IN  Alive(t, g, k, r) <=> IF k = Len(f) + 1 THEN t[r] # 0 ELSE Alive(s, f, k, r)
<1> DEFINE t == [s EXCEPT ![c.row] = v]
           g == Append(f, c)
           n == Len(f) + 1
<1>1. /\ DOMAIN g = 1..n /\ DOMAIN f = 1..(n-1) /\ n \in Nat \ {0}
      /\ g[n] = c /\ \A i \in 1..(n-1) : g[i] = f[i]
  OBVIOUS
<1>2. /\ r # c.row => t[r] = s[r]
      /\ k \in Nat /\ k <= n
  OBVIOUS
<1> SUFFICES Alive(t, g, k, r) <=> IF k = n THEN t[r] # 0 ELSE Alive(s, f, k, r)
  OBVIOUS
<1> HIDE DEF t, g, n
<1>3. Later(g, k, r) = Later(f, k, r) \cup (IF r = c.row /\ k < n THEN {n} ELSE {})
  BY <1>1, <1>2 DEF Later, Places
<1>4. \A i \in Later(f, k, r) : i \in 1..(n-1) /\ k < i /\ f[i].row = r /\ g[i] = f[i]
  BY <1>1 DEF Later, Places
<1>5. CASE k = n
  <2>1. Later(g, k, r) = {}
    BY <1>1, <1>3, <1>4, <1>5
  <2> QED
    BY <1>5, <2>1 DEF Alive
<1>6. CASE k # n /\ r # c.row
  <2>1. Later(g, k, r) = Later(f, k, r)
    BY <1>3, <1>6
  <2> QED
    BY <1>2, <1>4, <1>6, <2>1 DEF Alive
<1>7. CASE k # n /\ r = c.row
  <2>1. Later(g, k, r) = Later(f, k, r) \cup {n} /\ Later(g, k, r) # {}
    BY <1>1, <1>2, <1>3, <1>7
  <2>2. Alive(t, g, k, r) <=> c.op # "insert" /\ \A i \in Later(f, k, r) : f[i].op # "insert"
    BY <1>1, <1>4, <2>1 DEF Alive
  <2>3. CASE Later(f, k, r) = {}
    BY <1>7, <2>2, <2>3 DEF Alive
  <2>4. CASE Later(f, k, r) # {}
    <3>1. Places(f, r) # {}
      BY <2>4 DEF Later
    <3>2. c.op # "insert"
      BY <1>7, <3>1
    <3> QED
      BY <1>7, <2>2, <2>4, <3>2 DEF Alive
  <2> QED
    BY <2>3, <2>4
<1> QED
  BY <1>5, <1>6, <1>7

\* All are delivered: what the feed says is what the server has.
LEMMA AliveLast ==
    ASSUME NEW f \in Seq(Change), NEW s, NEW r
    PROVE  Alive(s, f, Len(f), r) <=> s[r] # 0
<1>1. Later(f, Len(f), r) = {}
  BY DEF Later, Places
<1> QED
  BY <1>1 DEF Alive

\* A feed leads on to the change that the server allows and appends.
LEMMA AppendLeads ==
    ASSUME NEW f \in Seq(Change), NEW s \in [Synced -> Nat], NEW c \in Change, NEW v \in Nat,
           Leads(s, f), c.row \in Synced, c.op # "mark", c.v = v, v = 0 <=> c.op = "delete",
           c.op = "insert" <=> s[c.row] = 0,
           c.op = "insert" => Places(f, c.row) = {} /\ MayInsert(s, c.row),
           c.op = "delete" => MayDelete(s, c.row)
    PROVE  Leads([s EXCEPT ![c.row] = v], Append(f, c))
<1> DEFINE t == [s EXCEPT ![c.row] = v]
           g == Append(f, c)
           n == Len(f) + 1
<1>1. /\ DOMAIN g = 1..n /\ DOMAIN f = 1..(n-1) /\ n \in Nat \ {0} /\ Len(g) = n /\ n - 1 = Len(f)
      /\ g[n] = c /\ \A i \in 1..(n-1) : g[i] = f[i]
  OBVIOUS
<1>2. /\ t[c.row] = v /\ \A r \in Synced : r # c.row => t[r] = s[r]
  OBVIOUS
<1>3. ASSUME NEW k \in 0..n, NEW r \in Synced
      PROVE  Alive(t, g, k, r) <=> IF k = n THEN t[r] # 0 ELSE Alive(s, f, k, r)
  BY AppendAlive
<1> HIDE DEF t, g, n
<1>4. ASSUME NEW i \in DOMAIN g
      PROVE  /\ g[i].op # "mark" /\ g[i].row \in Synced /\ (g[i].op # "delete" => g[i].v # 0)
             /\ g[i].op = "insert" => \A j \in Places(g, g[i].row) : i <= j
             /\ Alive(t, g, i, g[i].row) <=> g[i].op # "delete"
  <2>1. CASE i = n
    <3>1. g[i] = c
      BY <1>1, <2>1
    <3>2. Alive(t, g, i, c.row) <=> v # 0
      BY <1>1, <1>2, <1>3, <2>1
    <3>3. ASSUME c.op = "insert", NEW j \in Places(g, c.row) PROVE i <= j
      <4>1. j \in 1..n /\ g[j].row = c.row
        BY <1>1 DEF Places
      <4>2. j \in 1..(n-1) => j \in Places(f, c.row)
        BY <1>1, <4>1 DEF Places
      <4>3. j = n
        BY <1>1, <3>3, <4>1, <4>2
      <4> QED
        BY <1>1, <2>1, <4>3
    <3> QED
      BY <3>1, <3>2, <3>3
  <2>2. CASE i # n
    <3>1. i \in 1..(n-1) /\ g[i] = f[i] /\ i \in DOMAIN f /\ i \in 0..n
      BY <1>1, <2>2
    <3>2. /\ f[i].op # "mark" /\ f[i].row \in Synced /\ (f[i].op # "delete" => f[i].v # 0)
          /\ f[i].op = "insert" => \A j \in Places(f, f[i].row) : i <= j
          /\ Alive(s, f, i, f[i].row) <=> f[i].op # "delete"
      BY <3>1 DEF Leads
    <3>3. Alive(t, g, i, f[i].row) <=> f[i].op # "delete"
      BY <1>3, <2>2, <3>1, <3>2
    <3>4. ASSUME f[i].op = "insert", NEW j \in Places(g, f[i].row) PROVE i <= j
      <4>1. j \in 1..n /\ g[j].row = f[i].row
        BY <1>1 DEF Places
      <4>2. CASE j = n
        BY <1>1, <3>1, <4>2
      <4>3. CASE j # n
        <5>1. j \in Places(f, f[i].row)
          BY <1>1, <4>1, <4>3 DEF Places
        <5> QED
          BY <3>2, <3>4, <5>1
      <4> QED
        BY <4>2, <4>3
    <3> QED
      BY <3>1, <3>2, <3>3, <3>4
  <2> QED
    BY <2>1, <2>2
<1>5. ASSUME NEW k \in 0..n, NEW r \in Child, Alive(t, g, k, r)
      PROVE  Alive(t, g, k, ParentOf[r])
  <2> DEFINE m == ParentOf[r]
  <2>1. r \in Synced /\ m \in Parent /\ m \in Synced /\ ~IsChild(m) /\ IsChild(r)
    BY Tables DEF Synced
  <2> HIDE DEF m
  <2>2. CASE k # n
    <3>1. k \in 0..Len(f)
      BY <1>1, <2>2
    <3>2. Alive(s, f, k, r) => Alive(s, f, k, m)
      BY <3>1 DEF Leads, m
    <3> QED
      BY <1>3, <1>5, <2>1, <2>2, <3>2 DEF m
  <2>3. CASE k = n
    <3>1. t[r] # 0
      BY <1>3, <1>5, <2>1, <2>3
    <3>2. s[r] # 0 => s[m] # 0
      <4>1. Len(f) \in 0..Len(f)
        BY <1>1
      <4>2. Alive(s, f, Len(f), r) => Alive(s, f, Len(f), m)
        BY <4>1 DEF Leads, m
      <4> QED
        BY <4>2, AliveLast
    <3>3. t[m] # 0
      <4>1. CASE c.row = m
        <5>1. c.row # r /\ s[r] # 0
          BY <1>2, <2>1, <3>1, <4>1
        <5>2. c.op = "delete" => s[r] = 0
          BY <2>1, <4>1 DEF MayDelete, m
        <5> QED
          BY <1>2, <4>1, <5>1, <5>2
      <4>2. CASE c.row # m
        <5>1. t[m] = s[m]
          BY <1>2, <2>1, <4>2
        <5>2. CASE c.row = r
          <6>1. s[r] # 0 \/ c.op = "insert"
            BY <5>2
          <6>2. c.op = "insert" => s[m] # 0
            BY <2>1, <5>2 DEF MayInsert, m
          <6> QED
            BY <3>2, <5>1, <6>1, <6>2
        <5>3. CASE c.row # r
          BY <1>2, <2>1, <3>1, <3>2, <5>1, <5>3
        <5> QED
          BY <5>2, <5>3
      <4> QED
        BY <4>1, <4>2
    <3>4. Alive(t, g, k, m)
      BY <1>3, <2>1, <2>3, <3>3
    <3> QED
      BY <3>4 DEF m
  <2> QED
    BY <2>2, <2>3
<1>6. Leads(t, g)
  BY <1>1, <1>4, <1>5 DEF Leads
<1> QED
  BY <1>6 DEF t, g

\* The server writes.
LEMMA WriteLeads ==
    ASSUME TypeOK, FeedInv, ServerWrite
    PROVE  FeedInv' /\ \A r \in Synced : Alive(srv, feed, 0, r)' <=> Alive(srv, feed, 0, r)
<1>1. /\ srv \in [Synced -> Nat] /\ feed \in Seq(Change) /\ writes \in Nat
      /\ writes' = writes + 1 /\ feed' \in Seq(Change)
  BY WrittenTypes DEF TypeOK, ServerWrite
<1>2. PICK r \in Synced, op \in {"insert", "update", "delete"}, newer \in {0, 1} :
          /\ IF op = "insert" THEN MayInsert(srv, r) /\ Places(feed, r) = {} ELSE srv[r] # 0
          /\ op = "delete" => MayDelete(srv, r)
          /\ srv' = [srv EXCEPT ![r] = IF op = "delete" THEN 0 ELSE writes' + 1]
          /\ feed' = Append(feed, [op |-> op, row |-> r, v |-> srv'[r], ts |-> LastTs(r) + newer])
  BY DEF ServerWrite
<1> DEFINE v == IF op = "delete" THEN 0 ELSE writes' + 1
           c == [op |-> op, row |-> r, v |-> srv'[r], ts |-> LastTs(r) + newer]
<1>3. /\ v \in Nat /\ (v = 0 <=> op = "delete") /\ srv' = [srv EXCEPT ![r] = v] /\ srv'[r] = v
  BY <1>1, <1>2
<1>4. /\ c.op = op /\ c.row = r /\ c.v = v /\ feed' = Append(feed, c)
  BY <1>2, <1>3
<1> HIDE DEF v, c
<1>5. c \in Change
  <2>1. Len(feed) + 1 \in DOMAIN feed' /\ feed'[Len(feed) + 1] = c
    BY <1>1, <1>4
  <2> QED
    BY <1>1, <2>1
<1>6. op = "insert" <=> srv[r] = 0
  BY <1>2 DEF MayInsert
<1>7. Leads(srv', feed')
  <2>1. Leads([srv EXCEPT ![c.row] = v], Append(feed, c))
    BY <1>1, <1>2, <1>3, <1>4, <1>5, <1>6, AppendLeads DEF FeedInv
  <2> QED
    BY <1>3, <1>4, <2>1
<1>8. ASSUME NEW x \in Synced PROVE Alive(srv', feed', 0, x) <=> Alive(srv, feed, 0, x)
  <2>1. 0 \in 0..(Len(feed) + 1) /\ 0 # Len(feed) + 1
    BY <1>1
  <2>2. Alive([srv EXCEPT ![c.row] = v], Append(feed, c), 0, x) <=> Alive(srv, feed, 0, x)
    BY <1>1, <1>2, <1>3, <1>4, <1>5, <1>6, <2>1, AppendAlive
  <2> QED
    BY <1>3, <1>4, <2>2
<1> QED
  BY <1>7, <1>8 DEF FeedInv, Leads, Alive, Later, Places


\* What is left of the feed when n changes are delivered.
LEMMA RestAlive ==
    ASSUME NEW f \in Seq(Change), NEW n \in 0..Len(f), NEW s,
           NEW k \in 0..(Len(f) - n), NEW r
    PROVE  Alive(s, SubSeq(f, n + 1, Len(f)), k, r) <=> Alive(s, f, n + k, r)
<1> DEFINE g == SubSeq(f, n + 1, Len(f))
<1>1. /\ DOMAIN g = 1..(Len(f) - n) /\ DOMAIN f = 1..Len(f) /\ Len(f) \in Nat /\ n \in Nat
      /\ \A i \in DOMAIN g : g[i] = f[n + i]
  OBVIOUS
<1>2. k \in Nat
  BY <1>1
<1> HIDE DEF g
<1>3. ASSUME NEW i \in Later(g, k, r) PROVE n + i \in Later(f, n + k, r) /\ f[n + i] = g[i]
  BY <1>1, <1>2 DEF Later, Places
<1>4. ASSUME NEW j \in Later(f, n + k, r)
      PROVE  j - n \in Later(g, k, r) /\ f[j] = g[j - n]
  <2>1. j \in 1..Len(f) /\ f[j].row = r /\ n + k < j
    BY <1>1 DEF Later, Places
  <2>2. j - n \in DOMAIN g /\ n + (j - n) = j /\ k < j - n
    BY <1>1, <1>2, <2>1
  <2> QED
    BY <1>1, <2>1, <2>2 DEF Later, Places
<1>5. Later(g, k, r) = {} <=> Later(f, n + k, r) = {}
  BY <1>3, <1>4
<1>6. (\A i \in Later(g, k, r) : g[i].op # "insert") <=>
      (\A j \in Later(f, n + k, r) : f[j].op # "insert")
  BY <1>3, <1>4
<1>7. Alive(s, g, k, r) <=> Alive(s, f, n + k, r)
  BY <1>5, <1>6 DEF Alive
<1> QED
  BY <1>7 DEF g

\* It leads from where it was cut.
LEMMA RestLeads ==
    ASSUME NEW f \in Seq(Change), NEW n \in 0..Len(f), NEW s, Leads(s, f)
    PROVE  Leads(s, SubSeq(f, n + 1, Len(f)))
<1> DEFINE g == SubSeq(f, n + 1, Len(f))
<1>1. /\ DOMAIN g = 1..(Len(f) - n) /\ DOMAIN f = 1..Len(f) /\ Len(f) \in Nat /\ n \in Nat
      /\ Len(g) = Len(f) - n /\ g \in Seq(Change)
      /\ \A i \in DOMAIN g : n + i \in DOMAIN f /\ g[i] = f[n + i]
  OBVIOUS
<1>2. ASSUME NEW k \in 0..(Len(f) - n), NEW r
      PROVE  Alive(s, g, k, r) <=> Alive(s, f, n + k, r)
  BY <1>2, RestAlive
<1> HIDE DEF g
<1>3. ASSUME NEW i \in DOMAIN g
      PROVE  /\ g[i].op # "mark" /\ g[i].row \in Synced /\ (g[i].op # "delete" => g[i].v # 0)
             /\ g[i].op = "insert" => \A j \in Places(g, g[i].row) : i <= j
             /\ Alive(s, g, i, g[i].row) <=> g[i].op # "delete"
  <2>1. n + i \in DOMAIN f /\ g[i] = f[n + i] /\ i \in 0..(Len(f) - n)
    BY <1>1
  <2>2. /\ f[n+i].op # "mark" /\ f[n+i].row \in Synced /\ (f[n+i].op # "delete" => f[n+i].v # 0)
        /\ f[n+i].op = "insert" => \A j \in Places(f, f[n+i].row) : n + i <= j
        /\ Alive(s, f, n + i, f[n+i].row) <=> f[n+i].op # "delete"
    BY <2>1 DEF Leads
  <2>3. ASSUME g[i].op = "insert", NEW j \in Places(g, g[i].row) PROVE i <= j
    <3>1. n + j \in Places(f, g[i].row) /\ j \in Nat /\ i \in Nat
      BY <1>1 DEF Places
    <3>2. n + i <= n + j
      BY <2>1, <2>2, <2>3, <3>1
    <3> QED
      BY <1>1, <3>1, <3>2
  <2>4. Alive(s, g, i, g[i].row) <=> g[i].op # "delete"
    BY <1>2, <2>1, <2>2
  <2> QED
    BY <2>1, <2>2, <2>3, <2>4
<1>4. ASSUME NEW k \in 0..Len(g), NEW r \in Child, Alive(s, g, k, r)
      PROVE  Alive(s, g, k, ParentOf[r])
  <2>1. k \in 0..(Len(f) - n) /\ n + k \in 0..Len(f)
    BY <1>1
  <2>2. Alive(s, f, n + k, r)
    BY <1>2, <1>4, <2>1
  <2>3. Alive(s, f, n + k, ParentOf[r])
    BY <2>1, <2>2 DEF Leads
  <2> QED
    BY <1>2, <2>1, <2>3
<1>5. Leads(s, g)
  BY <1>3, <1>4 DEF Leads
<1> QED
  BY <1>5 DEF g

\* Rows without a change between two places.
LEMMA SameAlive ==
    ASSUME NEW f, NEW s, NEW k \in Nat, NEW m \in Nat, k <= m, NEW r, DOMAIN f \in SUBSET Int,
           \A i \in Places(f, r) : i <= k \/ m < i
    PROVE  Alive(s, f, k, r) <=> Alive(s, f, m, r)
<1>1. \A i \in Places(f, r) : i \in Int
  BY DEF Places
<1>2. Later(f, k, r) = Later(f, m, r)
  BY <1>1 DEF Later
<1> QED
  BY <1>2 DEF Alive

\* What the first n changes of a feed come to for row r: a row is deleted last,
\* and only its first change is an insert.
NetFollows(s, f, n, raw, r) ==
    LET c == Net(raw, r) IN
    /\ c \in Change /\ c.row = r /\ r \in Synced
    /\ c.op \in {"insert", "update", "delete"} /\ (c.op # "delete" => c.v # 0)
    /\ c.op # "delete" <=> Alive(s, f, n, r)
    /\ c.op = "insert" => ~Alive(s, f, 0, r)
    /\ c.op = "update" /\ raw[First(Places(raw, r))].op # "insert" => Alive(s, f, 0, r)

\* deduplicateChanges keeps what the changes come to.
LEMMA NetMeans ==
    ASSUME NEW f \in Seq(Change), NEW n \in 1..Len(f), NEW s, Leads(s, f),
           NEW raw, raw = SubSeq(f, 1, n), NEW r \in Rows(raw)
    PROVE  NetFollows(s, f, n, raw, r)
<1>1. /\ raw \in Seq(Change) /\ DOMAIN raw = 1..n /\ DOMAIN f = 1..Len(f) /\ n \in Nat
      /\ \A i \in DOMAIN raw : raw[i] = f[i] /\ i \in DOMAIN f
  OBVIOUS
<1> DEFINE S == Places(raw, r)
           N == Newest(raw, S)
           a == First(S)
           z == Last(S)
           x == First(N)
           y == Last(N)
<1>2. /\ S \in SUBSET (DOMAIN raw) /\ \A i \in S : raw[i] \in Change /\ raw[i].row = r
      /\ a \in S /\ \A j \in S : a <= j
      /\ z \in S /\ \A j \in S : j <= z
      /\ x \in S /\ y \in S
  BY <1>1, NetPlaces
<1>3. Net(raw, r) = IF raw[z].op = "delete" THEN raw[z]
                    ELSE IF raw[x].op = "insert" THEN [raw[x] EXCEPT !.v = raw[y].v]
                         ELSE raw[x]
  BY DEF Net
<1>4. Net(raw, r) \in Change /\ Net(raw, r).row = r
  BY <1>1, NetTypes
<1>5. S = { i \in 1..n : f[i].row = r }
  BY <1>1 DEF Places
<1> HIDE DEF S, N, a, z, x, y
<1>6. ASSUME NEW i \in S
      PROVE  /\ i \in 1..n /\ raw[i] = f[i] /\ f[i] \in Change /\ f[i].row = r /\ i \in DOMAIN f
             /\ f[i].op \in {"insert", "update", "delete"} /\ r \in Synced
             /\ f[i].op # "delete" => f[i].v # 0
             /\ f[i].op = "insert" => \A j \in Places(f, r) : i <= j
             /\ Alive(s, f, i, r) <=> f[i].op # "delete"
  <2>1. i \in 1..n /\ raw[i] = f[i] /\ f[i].row = r /\ i \in DOMAIN f /\ f[i] \in Change
    BY <1>1, <1>2
  <2>2. /\ f[i].op # "mark" /\ f[i].row \in Synced
        /\ f[i].op # "delete" => f[i].v # 0
        /\ f[i].op = "insert" => \A j \in Places(f, f[i].row) : i <= j
        /\ Alive(s, f, i, f[i].row) <=> f[i].op # "delete"
    BY <2>1 DEF Leads
  <2> QED
    BY <2>1, <2>2 DEF Change
<1>7. \A i \in S : i \in Places(f, r)
  BY <1>6 DEF Places
<1>8. ASSUME NEW i \in S, f[i].op = "delete" PROVE i = z
  <2>1. SUFFICES ASSUME i < z PROVE FALSE
    BY <1>2, <1>6
  <2>2. z \in Later(f, i, r) /\ ~Alive(s, f, i, r)
    BY <1>2, <1>6, <1>7, <1>8, <2>1 DEF Later
  <2>3. PICK j \in Later(f, i, r) : f[j].op = "insert"
    BY <2>2 DEF Alive
  <2>4. j \in DOMAIN f /\ f[j].row = r /\ i < j
    BY DEF Later, Places
  <2>5. j <= i
    <3>1. \A m \in Places(f, f[j].row) : j <= m
      BY <2>3, <2>4 DEF Leads
    <3> QED
      BY <1>7, <2>4, <3>1
  <2> QED
    BY <1>1, <1>6, <2>4, <2>5
<1>9. Alive(s, f, z, r) <=> Alive(s, f, n, r)
  <2>1. \A i \in Places(f, r) : i <= z \/ n < i
    <3>1. ASSUME NEW i \in Places(f, r), ~(n < i) PROVE i <= z
      <4>1. i \in S
        BY <1>1, <1>5, <3>1 DEF Places
      <4> QED
        BY <1>2, <4>1
    <3> QED
      BY <3>1
  <2>2. z \in Nat /\ z <= n
    BY <1>1, <1>2, <1>6
  <2> QED
    BY <1>1, <2>1, <2>2, SameAlive
<1>10. ASSUME NEW i \in S PROVE i \in Later(f, 0, r)
  BY <1>6, <1>7 DEF Later
<1>11. /\ r \in Synced /\ z \in S /\ x \in S /\ y \in S /\ a \in S
  BY <1>2, <1>6
<1>12. CASE raw[z].op = "delete"
  <2>1. Net(raw, r) = f[z] /\ f[z].op = "delete"
    BY <1>3, <1>6, <1>11, <1>12
  <2>2. ~Alive(s, f, n, r)
    BY <1>6, <1>9, <1>11, <2>1
  <2> QED
    BY <1>4, <1>11, <2>1, <2>2 DEF NetFollows
<1>13. CASE raw[z].op # "delete"
  <2>1. \A i \in S : f[i].op # "delete" /\ f[i].v # 0
    BY <1>6, <1>8, <1>11, <1>13
  <2>2. Alive(s, f, n, r)
    BY <1>6, <1>9, <1>11, <2>1
  <2>3. CASE raw[x].op = "insert"
    <3>1. /\ Net(raw, r) = [raw[x] EXCEPT !.v = raw[y].v] /\ raw[x] = f[x] /\ raw[y] = f[y]
          /\ f[x] \in Change
      BY <1>3, <1>6, <1>11, <1>13, <2>3
    <3>2. Net(raw, r).op = "insert" /\ Net(raw, r).v = f[y].v
      BY <2>3, <3>1 DEF Change
    <3>3. ~Alive(s, f, 0, r)
      <4>1. x \in Later(f, 0, r) /\ f[x].op = "insert"
        BY <1>10, <1>11, <2>3, <3>1
      <4> QED
        BY <4>1 DEF Alive
    <3> QED
      BY <1>4, <1>11, <2>1, <2>2, <3>2, <3>3 DEF NetFollows
  <2>4. CASE raw[x].op # "insert"
    <3>1. Net(raw, r) = f[x] /\ f[x].op = "update" /\ f[x].v # 0
      BY <1>3, <1>6, <1>11, <1>13, <2>1, <2>4
    <3>2. ASSUME raw[a].op # "insert" PROVE Alive(s, f, 0, r)
      <4>1. ASSUME NEW j \in Later(f, 0, r), f[j].op = "insert" PROVE FALSE
        <5>1. j \in DOMAIN f /\ f[j].row = r
          BY DEF Later, Places
        <5>2. j <= a
          <6>1. \A m \in Places(f, f[j].row) : j <= m
            BY <4>1, <5>1 DEF Leads
          <6> QED
            BY <1>7, <1>11, <5>1, <6>1
        <5>3. j \in S
          BY <1>1, <1>5, <1>6, <1>11, <5>1, <5>2
        <5>4. a <= j
          BY <1>2, <5>3
        <5> QED
          BY <1>1, <1>6, <1>11, <3>2, <4>1, <5>1, <5>2, <5>4
      <4>2. Later(f, 0, r) # {}
        BY <1>10, <1>11
      <4> QED
        BY <4>1, <4>2 DEF Alive
    <3> QED
      BY <1>4, <1>11, <2>2, <3>1, <3>2 DEF NetFollows, a, S
  <2> QED
    BY <2>3, <2>4
<1> QED
  BY <1>12, <1>13

\* A batch fits a browser that has what the feed starts from, unless it creates a
\* row as an update or deletes a row with the rows that refer to it; when it is
\* done the browser has what the rest of the feed starts from.
LEMMA BatchFits ==
    ASSUME NEW f \in Seq(Change), NEW n \in 1..Len(f), NEW s, Leads(s, f),
           NEW raw, raw = SubSeq(f, 1, n), NEW rows \in [Row -> Nat],
           \A r \in Synced : rows[r] # 0 <=> Alive(s, f, 0, r),
           ~Collapsed(raw),
           ~\E c, d \in Deduplicated(raw) : c.op = "delete" /\ d.op = "delete" /\ IsChild(c.row)
                                            /\ ParentOf[c.row] = d.row,
           NEW q \in Orders(Deduplicated(raw))
    PROVE  Doable(rows, q) /\ \A r \in Synced : Will(rows, q, r) <=> Alive(s, f, n, r)
<1> DEFINE D == Deduplicated(raw)
<1>1. /\ raw \in Seq(Change) /\ DOMAIN raw = 1..n /\ DOMAIN f = 1..Len(f) /\ n \in Nat \ {0}
      /\ Len(f) \in Nat /\ \A i \in DOMAIN raw : raw[i] = f[i] /\ i \in DOMAIN f
  OBVIOUS
<1>2. ASSUME NEW c \in D PROVE c.row \in Rows(raw) /\ c = Net(raw, c.row)
  <2>1. PICK r \in Rows(raw) : c = Net(raw, r)
    BY DEF Deduplicated
  <2>2. Net(raw, r).row = r
    BY <1>1, NetTypes
  <2> QED
    BY <2>1, <2>2
<1>3. \A r \in Rows(raw) : Net(raw, r) \in D
  BY DEF Deduplicated
<1>4. IsFiniteSet(D) /\ D # {}
  BY <1>1, FiniteBatch
<1>5. IsSeq(q) /\ q # << >> /\ Elements(q) = D
  BY <1>4, OrdersComplete
<1>6. (\A i \in DOMAIN q : q[i] \in D) /\ (\A c \in D : \E i \in DOMAIN q : q[i] = c)
  BY <1>5 DEF Elements
<1>7. ASSUME NEW c \in D
      PROVE  /\ c \in Change /\ c.row \in Synced
             /\ c.op \in {"insert", "update", "delete"} /\ (c.op # "delete" => c.v # 0)
             /\ c.op # "delete" <=> Alive(s, f, n, c.row)
             /\ c.op = "insert" => ~Alive(s, f, 0, c.row)
             /\ c.op = "update" => Alive(s, f, 0, c.row)
  <2>1. c.row \in Rows(raw) /\ c = Net(raw, c.row)
    BY <1>2
  <2> HIDE DEF D
  <2>2. PICK r : r = c.row
    OBVIOUS
  <2>3. /\ r \in Rows(raw) /\ c = Net(raw, r)
        /\ c.op = "update" => raw[First(Places(raw, r))].op # "insert"
    BY <2>1, <2>2 DEF Collapsed
  <2>4. NetFollows(s, f, n, raw, r)
    BY <2>3, NetMeans
  <2> QED
    BY <2>2, <2>3, <2>4 DEF NetFollows
<1>8. ASSUME NEW r \in Synced, r \notin Rows(raw)
      PROVE  Alive(s, f, 0, r) <=> Alive(s, f, n, r)
  <2>1. ASSUME NEW i \in Places(f, r), ~(n < i) PROVE i <= 0
    <3>1. i \in DOMAIN raw /\ raw[i].row = r
      BY <1>1, <2>1 DEF Places
    <3> QED
      BY <1>8, <3>1 DEF Rows
  <2>2. DOMAIN f \in SUBSET Int /\ 0 <= n
    BY <1>1
  <2> QED
    BY <1>1, <2>1, <2>2, SameAlive
<1>9. ASSUME NEW r \in Synced
      PROVE  Will(rows, q, r) <=> Alive(s, f, n, r)
  <2>1. CASE r \in Rows(raw)
    <3> DEFINE c == Net(raw, r)
    <3>1. c \in D /\ c.row = r /\ (c.op # "delete" <=> Alive(s, f, n, r))
      BY <1>1, <1>3, <1>7, <2>1, NetTypes
    <3>2. \A i \in DOMAIN q : q[i].row = r => q[i] = c
      BY <1>2, <1>6
    <3>3. PICK i \in DOMAIN q : q[i] = c
      BY <1>6, <3>1
    <3> HIDE DEF c
    <3> QED
      BY <3>1, <3>2, <3>3 DEF Will
  <2>2. CASE r \notin Rows(raw)
    <3>1. \A i \in DOMAIN q : q[i].row # r
      BY <1>2, <1>6, <2>2
    <3> QED
      BY <1>8, <2>2, <3>1 DEF Will
  <2> QED
    BY <2>1, <2>2
<1>10. Sorted(q)
  <2>1. ASSUME NEW i \in DOMAIN q, NEW j \in DOMAIN q, i < j
        PROVE  q[i].row # q[j].row /\ DependencyOrder(q[i]) <= DependencyOrder(q[j])
    <3>1. q[i] # q[j] /\ DependencyOrder(q[i]) <= DependencyOrder(q[j])
      BY <2>1 DEF Orders
    <3>2. q[i].row # q[j].row
      BY <1>2, <1>6, <3>1
    <3> QED
      BY <3>1, <3>2
  <2> QED
    BY <2>1 DEF Sorted
<1> HIDE DEF D
<1>11. ASSUME NEW i \in DOMAIN q PROVE Fits(rows, q, q[i])
  <2> DEFINE c == q[i]
  <2>1. c \in D
    BY <1>6
  <2> HIDE DEF c
  <2>2. /\ c \in Change /\ c.row \in Synced
        /\ c.op \in {"insert", "update", "delete"} /\ (c.op # "delete" => c.v # 0)
        /\ c.op # "delete" <=> Alive(s, f, n, c.row)
        /\ c.op = "insert" => rows[c.row] = 0
        /\ c.op = "update" => rows[c.row] # 0
    BY <1>7, <2>1
  <2>3. n \in 0..Len(f) /\ 0 \in 0..Len(f)
    BY <1>1
  <2>4. ASSUME c.op = "insert", c.row \in Child PROVE Will(rows, q, ParentOf[c.row])
    <3>1. Alive(s, f, n, ParentOf[c.row])
      BY <2>2, <2>3, <2>4 DEF Leads
    <3>2. ParentOf[c.row] \in Synced
      BY <2>2, <2>4, Tables
    <3> QED
      BY <1>9, <3>1, <3>2
  <2>5. ASSUME c.op = "delete", NEW r \in Child, ParentOf[r] = c.row, rows[r] # 0 PROVE FALSE
    <3>1. r \in Synced /\ IsChild(r)
      BY DEF Synced, IsChild
    <3>2. Alive(s, f, 0, r) /\ ~Alive(s, f, n, c.row)
      BY <2>2, <2>5, <3>1
    <3>3. ~Alive(s, f, n, r)
      BY <2>3, <2>5, <3>2 DEF Leads
    <3>4. r \in Rows(raw)
      BY <1>8, <3>1, <3>2, <3>3
    <3>5. Net(raw, r) \in D /\ Net(raw, r).row = r
      BY <1>1, <1>3, <3>4, NetTypes
    <3>6. Net(raw, r).op = "delete"
      BY <1>7, <3>3, <3>5
    <3> QED
      BY <2>1, <2>5, <3>1, <3>5, <3>6 DEF D
  <2>6. Fits(rows, q, c)
    BY <2>2, <2>4, <2>5 DEF Fits
  <2> QED
    BY <2>6 DEF c
<1> QED
  BY <1>9, <1>10, <1>11 DEF Doable


-----------------------------------------------------------------------------
(* The processes, and what a statement leaves of them.                     *)

\* A process is a batch, a save of an LSN or an edit.
LEMMA ProcKinds ==
    ASSUME NEW p \in Proc
    PROVE  \/ \E b \in 1..MaxBatches : p = Batch(b) \/ p = Lsn(b)
           \/ \E e \in 1..MaxEdits : p = <<"edit", e>>
  BY DEF Proc, Batch, Lsn

\* No two of them are the same.
LEMMA ProcNames ==
    /\ \A b \in 1..MaxBatches :
          Batch(b) \in Proc /\ Lsn(b) \in Proc /\ Batch(b)[1] = "batch" /\ Lsn(b)[1] = "lsn"
    /\ \A b, k \in 1..MaxBatches :
          Batch(b) # Lsn(k) /\ (b # k => Batch(b) # Batch(k) /\ Lsn(b) # Lsn(k))
    /\ \A e \in 1..MaxEdits : <<"edit", e>> \in Proc
    /\ \A e \in 1..MaxEdits, b \in 1..MaxBatches : <<"edit", e>> \notin {Batch(b), Lsn(b)}
  BY DEF Proc, Batch, Lsn

\* A statement of p, whoever it is.
Moves(p) ==
    Statement(p) \/ \E b \in 1..MaxBatches : p = Batch(b) /\ BatchStatement(b)

\* It runs, and leaves the other processes and the feed alone.
LEMMA MoveIs ==
    ASSUME IInv, TypeOK, NEW p \in Proc, Moves(p)
    PROVE  /\ outcome[p] = "running" /\ outcome'[p] # "none" /\ UNCHANGED feedVars
           /\ \A q \in Proc \ {p} :
                 pc'[q] = pc[q] /\ todo'[q] = todo[q] /\ outcome'[q] = outcome[q]
<1>1. Kind(p) /\ outcome[p] # "none"
  BY StatementKind, BatchStatementKind DEF Moves, Batch
<1>2. pc[p] \notin {"idle", "done"}
  BY DEF Moves, Statement, SaveFind, SaveBegin, SaveWrite, SaveCommit, RollbackSave,
         ServiceFind, Update, Read, Delete, AtWrite, BatchStatement, BeginBatch,
         CommitBatch, RollbackBatch, Batch
<1>3. outcome[p] = "running"
  BY <1>2, MovingRuns, TypeParts
<1>4. outcome'[p] # "none"
  BY <1>1, <1>3 DEF Kind, Fails, Turns, DoesHead, DoesAndMovesOn, GoesOn, Ends, Stays, MovesOn
<1> QED
  BY <1>1, <1>3, <1>4 DEF Kind, Only

\* What others have found does not change.
LEMMA InsertionOfOthers ==
    ASSUME TypeOK, NEW p \in Proc, Moves(p), NEW q \in Proc \ {p}
    PROVE  insertion'[q] = insertion[q]
<1>1. insertion \in [Proc -> BOOLEAN]
  BY DEF TypeOK
<1>2. CASE SaveFind(p)
  <2>1. UNCHANGED insertion \/ \E x : insertion' = [insertion EXCEPT ![p] = x]
    BY <1>2 DEF SaveFind, Throw, Advance
  <2> QED
    BY <1>1, <2>1
<1>3. CASE ~SaveFind(p)
  <2>1. UNCHANGED insertion
    BY <1>3 DEF Moves, Statement, SaveBegin, SaveWrite, SaveCommit, RollbackSave, ServiceFind,
                Update, Read, Delete, BatchStatement, BeginBatch, CommitBatch, RollbackBatch,
                Begin, Goto, Throw, Advance
  <2> QED
    BY <2>1
<1> QED
  BY <1>2, <1>3

\* The batches keep their order.
LEMMA MoveOrder ==
    ASSUME IInv, TypeOK, OrderInv, NEW p \in Proc, Moves(p)
    PROVE  OrderInv'
<1>1. /\ outcome[p] = "running" /\ outcome'[p] # "none"
      /\ \A q \in Proc \ {p} : outcome'[q] = outcome[q]
  BY MoveIs
<1>2. ASSUME NEW b \in 1..MaxBatches, outcome'[Batch(b)] # "none", NEW k \in 1..b
      PROVE  outcome'[Batch(k)] # "none"
  <2>1. k \in 1..MaxBatches
    BY BoundsNat
  <2>2. Batch(b) \in Proc /\ Batch(k) \in Proc
    BY <2>1, ProcNames
  <2>3. outcome[Batch(b)] # "none"
    BY <1>1, <1>2, <2>2
  <2>4. outcome[Batch(k)] # "none"
    BY <2>3 DEF OrderInv
  <2> QED
    BY <1>1, <2>2, <2>4
<1>3. ASSUME NEW b \in 1..MaxBatches, outcome'[Batch(b)] = "running",
             NEW k \in 1..MaxBatches, k > b
      PROVE  outcome'[Batch(k)] \in {"none", "refused"}
  <2>1. Batch(b) \in Proc /\ Batch(k) \in Proc
    BY ProcNames
  <2>2. outcome[Batch(b)] = "running"
    BY <1>1, <1>3, <2>1
  <2>3. outcome[Batch(k)] \in {"none", "refused"}
    BY <1>3, <2>2 DEF OrderInv
  <2> QED
    BY <1>1, <2>1, <2>3
<1> QED
  BY <1>2, <1>3 DEF OrderInv

\* The save of an LSN.
LEMMA LsnStep ==
    ASSUME TypeOK, IInv, LsnInv, NEW k \in 1..MaxBatches, NEW p, p = Lsn(k), Moves(p)
    PROVE  /\ pc'[p] \in AtChange => todo'[p] = <<Mark>>
           /\ ~insertion'[p]
           /\ txn # "aborted" /\ pc[p] # "rollbackSave" =>
                 /\ work'.rows = work.rows /\ committed'.rows \in {committed.rows, work.rows}
                 /\ txn' # "aborted" /\ pc'[p] \notin {"rollback", "rollbackSave"}
<1>1. /\ p \in Proc /\ p[1] = "lsn" /\ ~insertion[p]
      /\ pc[p] \in AtChange => todo[p] = <<Mark>>
  BY ProcNames DEF LsnInv
<1>2. /\ pc \in [Proc -> PC] /\ insertion \in [Proc -> BOOLEAN] /\ todo \in [Proc -> Seq(Change)]
      /\ txn \in {"none", "open", "aborted"}
  BY DEF TypeOK
<1>3. Statement(p)
  BY ProcNames DEF Moves
<1>4. pc[p] \in AtChange => Now(p) = Mark /\ Now(p).op = "mark" /\ Tail(todo[p]) = << >>
  <2>1. Head(<<Mark>>) = Mark /\ Tail(<<Mark>>) = << >> /\ Mark.op = "mark"
    BY DEF Mark
  <2> QED
    BY <1>1, <2>1 DEF Now
<1>5. ASSUME NEW inSave \in BOOLEAN, Throw(p, inSave)
      PROVE  pc'[p] \notin AtChange /\ ~insertion'[p]
  BY <1>1, <1>2, <1>5 DEF Throw, AtChange
<1>6. ASSUME Write(p, work.rows), txn # "aborted"
      PROVE  /\ work'.rows = work.rows /\ committed'.rows \in {committed.rows, work.rows}
             /\ txn' # "aborted"
  BY <1>6 DEF Write, Effect
<1>7. ASSUME NEW l \in AtChange, Goto(p, l), pc[p] \in AtChange
      PROVE  todo'[p] = <<Mark>> /\ ~insertion'[p] /\ pc'[p] \notin {"rollback", "rollbackSave"}
  BY <1>1, <1>2, <1>7 DEF Goto, AtChange
<1>8. ASSUME Advance(p), pc[p] \in AtChange
      PROVE  pc'[p] = "done" /\ ~insertion'[p]
  BY <1>1, <1>2, <1>4, <1>8 DEF Advance
<1>9. CASE SaveFind(p)
  <2>1. pc[p] = "next" /\ pc[p] \in AtChange
    BY <1>9 DEF SaveFind, AtChange
  <2>2. CASE txn = "aborted"
    BY <1>5, <1>9, <2>2 DEF SaveFind
  <2>3. CASE txn # "aborted"
    <3>1. /\ UNCHANGED dbVars /\ pc' = [pc EXCEPT ![p] = "saveBegin"]
          /\ insertion' = [insertion EXCEPT ![p] =
                Now(p).op = "insert" /\ work.rows[Now(p).row] = 0]
          /\ UNCHANGED <<todo, outcome>>
      BY <1>4, <1>9, <2>1, <2>3 DEF SaveFind
    <3>2. pc'[p] = "saveBegin" /\ ~insertion'[p] /\ todo'[p] = <<Mark>>
      BY <1>1, <1>2, <1>4, <2>1, <3>1
    <3> QED
      BY <2>3, <3>1, <3>2 DEF dbVars
  <2> QED
    BY <2>2, <2>3
<1>10. CASE SaveBegin(p)
  <2>1. pc[p] \in AtChange /\ Begin(p, "saveWrite", FALSE) /\ "saveWrite" \in AtChange
    BY <1>10 DEF SaveBegin, AtChange
  <2>2. CASE txn = "aborted"
    BY <1>5, <2>1, <2>2 DEF Begin
  <2>3. CASE txn # "aborted"
    BY <1>7, <2>1, <2>3 DEF Begin
  <2> QED
    BY <2>2, <2>3
<1>11. CASE SaveWrite(p)
  <2>1. pc[p] \in AtChange /\ "saveCommit" \in AtChange
    BY <1>11 DEF SaveWrite, AtChange
  <2>2. CASE txn = "aborted"
    BY <1>5, <1>11, <2>2 DEF SaveWrite
  <2>3. CASE txn # "aborted"
    <3>1. Write(p, work.rows) /\ Goto(p, "saveCommit")
      BY <1>1, <1>4, <1>11, <2>1, <2>3 DEF SaveWrite
    <3> QED
      BY <1>6, <1>7, <2>1, <2>3, <3>1
  <2> QED
    BY <2>2, <2>3
<1>12. CASE SaveCommit(p)
  <2>1. pc[p] \in AtChange /\ CommitSession /\ Advance(p)
    BY <1>12 DEF SaveCommit, AtChange
  <2>2. pc'[p] = "done" /\ ~insertion'[p]
    BY <1>8, <2>1
  <2>3. txn # "aborted" => /\ work'.rows = work.rows /\ txn' # "aborted"
                           /\ committed'.rows \in {committed.rows, work.rows}
    BY <2>1 DEF CommitSession, EndTransaction
  <2> QED
    BY <2>2, <2>3 DEF AtChange
<1>13. CASE RollbackSave(p)
  <2>1. pc[p] = "rollbackSave" /\ Throw(p, FALSE)
    BY <1>13 DEF RollbackSave
  <2> QED
    BY <1>5, <2>1
<1>14. CASE Read(p)
  <2>1. pc[p] \in AtChange
    BY <1>14 DEF Read, AtChange
  <2>2. CASE txn = "aborted"
    BY <1>5, <1>14, <2>2 DEF Read
  <2>3. CASE txn # "aborted"
    <3>1. UNCHANGED dbVars /\ Advance(p)
      BY <1>1, <1>14, <2>3 DEF Read
    <3>2. pc'[p] = "done" /\ ~insertion'[p]
      BY <1>8, <2>1, <3>1
    <3> QED
      BY <2>3, <3>1, <3>2 DEF dbVars, AtChange
  <2> QED
    BY <2>2, <2>3
<1>15. ~ServiceFind(p) /\ ~Update(p) /\ ~Delete(p)
  <2>1. "next" \in AtChange /\ "write" \in AtChange
    BY DEF AtChange
  <2> QED
    BY <1>1, <1>4, <2>1 DEF ServiceFind, Update, Delete, AtWrite
<1> QED
  BY <1>3, <1>9, <1>10, <1>11, <1>12, <1>13, <1>14, <1>15 DEF Statement

\* The saves of LSNs stay what they are.
LEMMA MoveLsn ==
    ASSUME IInv, TypeOK, LsnInv, NEW p \in Proc, Moves(p)
    PROVE  LsnInv'
<1>1. ASSUME NEW b \in 1..MaxBatches
      PROVE  (pc'[Lsn(b)] \in AtChange => todo'[Lsn(b)] = <<Mark>>) /\ ~insertion'[Lsn(b)]
  <2>1. CASE p = Lsn(b)
    BY <2>1, LsnStep
  <2>2. CASE p # Lsn(b)
    <3>1. Lsn(b) \in Proc \ {p}
      BY <2>2, ProcNames
    <3>2. pc'[Lsn(b)] = pc[Lsn(b)] /\ todo'[Lsn(b)] = todo[Lsn(b)] /\ insertion'[Lsn(b)] = insertion[Lsn(b)]
      BY <3>1, MoveIs, InsertionOfOthers
    <3> QED
      BY <3>2 DEF LsnInv
  <2> QED
    BY <2>1, <2>2
<1> QED
  BY <1>1 DEF LsnInv


-----------------------------------------------------------------------------
(* A batch that nothing stands in the way of.                              *)

\* What is undone is a list of changes.
LEMMA UndoneIs ==
    ASSUME TypeOK, NEW b \in 0..MaxBatches
    PROVE  Undone(b) \in Seq(Change)
<1>1. CASE Running(b)
  <2>1. b \in 1..MaxBatches /\ Batch(b) \in Proc
    BY <1>1, ProcNames DEF Running
  <2>2. todo[Batch(b)] \in Seq(Change)
    BY <2>1 DEF TypeOK
  <2>3. pc[Batch(b)] \in HeadDone => todo[Batch(b)] # << >>
    BY <2>1 DEF TypeOK, HeadDone, AtChange
  <2> QED
    BY <1>1, <2>2, <2>3, TailIs DEF Undone
<1>2. CASE ~Running(b)
  <2>1. << >> \in Seq(Change)
    OBVIOUS
  <2> QED
    BY <1>2, <2>1 DEF Undone
<1> QED
  BY <1>1, <1>2

\* Others move, without an error and without a change of a row.
LEMMA HealthyKept ==
    ASSUME NEW b \in 0..MaxBatches, Healthy(b), txn' # "aborted",
           \A q \in Proc : pc'[q] \notin {"rollback", "rollbackSave"},
           work'.rows = work.rows, committed'.rows \in {committed.rows, work.rows},
           b > 0 => /\ pc'[Batch(b)] = pc[Batch(b)] /\ todo'[Batch(b)] = todo[Batch(b)]
                    /\ outcome'[Batch(b)] = outcome[Batch(b)]
                    /\ insertion'[Batch(b)] = insertion[Batch(b)],
           NoneAfter(b)' => NoneAfter(b) /\ UNCHANGED <<srv, feed>>
    PROVE  Healthy(b)'
<1>1. (Running(b)' <=> Running(b)) /\ Undone(b)' = Undone(b)
  BY DEF Running, Undone
<1>2. Doable(work'.rows, Undone(b)')
  BY <1>1 DEF Healthy
<1>3. ~Running(b)' => work'.rows = committed'.rows
  BY <1>1 DEF Healthy
<1>4. Running(b)' /\ pc'[Batch(b)] \in {"saveBegin", "saveWrite"} =>
          insertion'[Batch(b)] /\ Now(Batch(b))'.op = "insert"
  BY <1>1 DEF Healthy, Running, Now
<1>5. NoneAfter(b)' =>
        \A r \in Synced : Will(work'.rows, Undone(b)', r) <=> Alive(srv', feed', 0, r)
  BY <1>1 DEF Healthy
<1>6. \A r \in Row \ Synced : work'.rows[r] = 0
  BY DEF Healthy
<1> QED
  BY <1>2, <1>3, <1>4, <1>5, <1>6 DEF Healthy

\* The batch moves, without a change of a row.
LEMMA HealthyTurn ==
    ASSUME NEW b \in 1..MaxBatches, Healthy(b), Running(b), Running(b)', txn' # "aborted",
           \A q \in Proc : pc'[q] \notin {"rollback", "rollbackSave"},
           work'.rows = work.rows, Undone(b)' = Undone(b),
           pc'[Batch(b)] \in {"saveBegin", "saveWrite"} =>
              insertion'[Batch(b)] /\ Now(Batch(b))'.op = "insert",
           NoneAfter(b)' => NoneAfter(b), UNCHANGED <<srv, feed>>
    PROVE  Healthy(b)'
<1>1. Doable(work'.rows, Undone(b)')
  BY DEF Healthy
<1>2. NoneAfter(b)' =>
        \A r \in Synced : Will(work'.rows, Undone(b)', r) <=> Alive(srv', feed', 0, r)
  BY DEF Healthy
<1>3. \A r \in Row \ Synced : work'.rows[r] = 0
  BY DEF Healthy
<1> QED
  BY <1>1, <1>2, <1>3 DEF Healthy

\* The batch does its first change.
LEMMA HealthyDo ==
    ASSUME TypeOK, NEW b \in 1..MaxBatches, Healthy(b), Running(b), Running(b)', txn' # "aborted",
           \A q \in Proc : pc'[q] \notin {"rollback", "rollbackSave"},
           NEW q, q = Undone(b), q # << >>, Undone(b)' = Tail(q),
           NEW v \in Nat, v = 0 <=> Head(q).op = "delete",
           work'.rows = [work.rows EXCEPT ![Head(q).row] = v],
           pc'[Batch(b)] \notin {"saveBegin", "saveWrite"},
           NoneAfter(b)' => NoneAfter(b), UNCHANGED <<srv, feed>>
    PROVE  Healthy(b)'
<1>1. q \in Seq(Change) /\ work.rows \in [Row -> Nat] /\ Doable(work.rows, q) /\ Sorted(q)
  BY UndoneIs DEF TypeOK, DB, Healthy, Doable
<1>2. Doable(work'.rows, Undone(b)')
  <2>1. Doable([work.rows EXCEPT ![Head(q).row] = v], Tail(q))
    BY <1>1, Carried
  <2> QED
    BY <2>1
<1>3. ASSUME NEW r \in Row
      PROVE  Will(work'.rows, Undone(b)', r) <=> Will(work.rows, q, r)
  <2>1. Will([work.rows EXCEPT ![Head(q).row] = v], Tail(q), r) <=> Will(work.rows, q, r)
    BY <1>1, WillKept
  <2> QED
    BY <2>1
<1>4. NoneAfter(b)' =>
        \A r \in Synced : Will(work'.rows, Undone(b)', r) <=> Alive(srv', feed', 0, r)
  BY <1>3 DEF Healthy, Row
<1>5. Head(q).row \in Synced
  <2>1. Head(q) = q[1] /\ 1 \in DOMAIN q
    BY <1>1, TailIs
  <2> QED
    BY <1>1, <2>1 DEF Doable, Fits
<1>6. \A r \in Row \ Synced : work'.rows[r] = 0
  BY <1>1, <1>5 DEF Healthy
<1> QED
  BY <1>2, <1>4, <1>6 DEF Healthy

\* A statement of the batch succeeds.
LEMMA BatchStep ==
    ASSUME IInv, TypeOK, NEW b \in 1..MaxBatches, Running(b), Healthy(b), NEW p, p = Batch(b), Moves(p)
    PROVE  Healthy(b)' /\ outcome'[p] # "failed"
<1>1. /\ p \in Proc /\ p[1] = "batch" /\ outcome[p] = "running"
      /\ \A k \in 1..MaxBatches : p = <<"batch", k>> => k = b
      /\ p = <<"batch", b>>
  BY ProcNames DEF Running, Batch
<1>2. /\ pc \in [Proc -> PC] /\ insertion \in [Proc -> BOOLEAN] /\ todo \in [Proc -> Seq(Change)]
      /\ outcome \in [Proc -> Outcome] /\ txn \in {"none", "open"}
      /\ work.rows \in [Row -> Nat] /\ todo[p] \in Seq(Change)
  BY <1>1 DEF TypeOK, Healthy, DB
<1>3. UNCHANGED <<srv, feed>> /\ \A q \in Proc \ {p} : pc'[q] = pc[q] /\ outcome'[q] = outcome[q]
  BY <1>1, MoveIs DEF feedVars
<1>4. NoneAfter(b)' => NoneAfter(b)
  <2>1. \A k \in 1..MaxBatches : k > b => Batch(k) \in Proc \ {p}
    BY ProcNames
  <2> QED
    BY <1>3, <2>1 DEF NoneAfter
<1>5. pc'[p] \notin {"rollback", "rollbackSave"} =>
         \A q \in Proc : pc'[q] \notin {"rollback", "rollbackSave"}
  BY <1>3 DEF Healthy
<1>6. /\ Undone(b) = (IF pc[p] \in HeadDone THEN Tail(todo[p]) ELSE todo[p])
      /\ Doable(work.rows, Undone(b)) /\ \A r \in Row \ Synced : work.rows[r] = 0
      /\ pc[p] \in {"saveBegin", "saveWrite"} => insertion[p] /\ Now(p).op = "insert"
  BY DEF Undone, Healthy
<1>7. outcome'[p] = "running" => Running(b)' /\
         Undone(b)' = (IF pc'[p] \in HeadDone THEN Tail(todo'[p]) ELSE todo'[p])
  BY DEF Undone, Running
\* The change at hand.
<1>8. ASSUME todo[p] # << >>, pc[p] \notin HeadDone
      PROVE  /\ Undone(b) = todo[p] /\ Now(p) = Head(todo[p]) /\ Now(p) \in Change
             /\ Now(p).op \in {"insert", "update", "delete"} /\ Now(p).v \in Nat
             /\ Now(p).op # "delete" => Now(p).v # 0
             /\ Now(p).op = "insert" => work.rows[Now(p).row] = 0 /\ MayInsert(work.rows, Now(p).row)
             /\ Now(p).op = "update" => work.rows[Now(p).row] # 0
             /\ Now(p).op = "delete" => MayDelete(work.rows, Now(p).row)
  <2>1. Undone(b) = todo[p] /\ Now(p) = Head(todo[p]) /\ Head(todo[p]) = todo[p][1]
        /\ 1 \in DOMAIN todo[p] /\ todo[p][1] \in Change
    BY <1>2, <1>6, <1>8, TailIs DEF Now
  <2>2. Fits(work.rows, todo[p], Now(p)) /\ Doable(work.rows, todo[p])
    BY <1>6, <2>1 DEF Doable
  <2>3. Now(p).op = "insert" => MayInsert(work.rows, Now(p).row)
    BY <1>2, <1>8, <2>1, <2>2, CanInsert
  <2>4. Now(p).op = "delete" => MayDelete(work.rows, Now(p).row)
    BY <1>2, <1>6, <1>8, <2>1, <2>2, CanDelete
  <2>5. Now(p) \in Change /\ Now(p).v \in Nat
    BY <2>1 DEF Change
  <2> QED
    BY <2>1, <2>2, <2>3, <2>4, <2>5 DEF Fits
<1>9. pc[p] \in {"begin", "next", "saveBegin", "saveWrite"} => todo[p] # << >> /\ pc[p] \notin HeadDone
  BY <1>1 DEF TypeOK, AtChange, HeadDone
<1>10. pc[p] \in {"read", "saveCommit"} => todo[p] # << >> /\ pc[p] \in HeadDone
  BY <1>1 DEF TypeOK, AtChange, HeadDone
<1>11. ASSUME NEW l, Goto(p, l)
       PROVE  pc'[p] = l /\ todo'[p] = todo[p] /\ outcome'[p] = "running" /\ insertion'[p] = insertion[p]
              /\ Now(p)' = Now(p)
  BY <1>1, <1>2, <1>11 DEF Goto, Now
<1>12. ASSUME Advance(p)
       PROVE  pc'[p] \in {"next", "commit"} /\ todo'[p] = Tail(todo[p]) /\ outcome'[p] = "running"
  BY <1>1, <1>2, <1>12 DEF Advance
<1>13. ASSUME NEW rows, Write(p, rows)
       PROVE  work'.rows = rows /\ txn' = txn
  BY <1>13 DEF Write, Effect
<1>14. \A l \in {"next", "commit", "saveBegin", "saveWrite"} : l \notin HeadDone
  BY DEF HeadDone
<1>15. CASE BeginBatch(b)
  <2>1. pc[p] = "begin" /\ txn' = "open" /\ Goto(p, "next") /\ UNCHANGED <<work, committed>>
    BY <1>1, <1>2, <1>15 DEF BeginBatch, Begin
  <2>2. Undone(b)' = Undone(b) /\ Running(b)' /\ pc'[p] = "next" /\ outcome'[p] = "running"
    BY <1>6, <1>7, <1>9, <1>11, <1>14, <2>1
  <2> QED
    BY <1>3, <1>4, <1>5, <2>1, <2>2, HealthyTurn
<1>16. CASE CommitBatch(b)
  <2>1. /\ pc[p] = "commit" /\ CommitSession /\ UNCHANGED todo
        /\ pc' = [pc EXCEPT ![p] = "done"] /\ outcome' = [outcome EXCEPT ![p] = "ok"]
    BY <1>1, <1>16 DEF CommitBatch
  <2>2. pc'[p] = "done" /\ outcome'[p] = "ok"
    BY <1>1, <1>2, <2>1
  <2>3. txn' = "none" /\ work' = work /\ committed' = work
    BY <1>2, <2>1 DEF CommitSession, EndTransaction
  <2>4. todo[p] = << >> /\ pc[p] \notin HeadDone
    BY <1>1, <2>1 DEF IInv, ControlInv, HeadDone
  <2>5. ~Running(b)' /\ Undone(b)' = << >> /\ Undone(b) = << >>
    BY <1>6, <2>2, <2>4 DEF Running, Undone
  <2>6. Doable(work'.rows, Undone(b)')
    BY <1>6, <2>3, <2>5
  <2>7. NoneAfter(b)' =>
          \A r \in Synced : Will(work'.rows, Undone(b)', r) <=> Alive(srv', feed', 0, r)
    BY <1>3, <1>4, <2>3, <2>5 DEF Healthy
  <2>8. \A q \in Proc : pc'[q] \notin {"rollback", "rollbackSave"}
    BY <1>5, <2>2
  <2>9. Healthy(b)'
    BY <1>6, <2>3, <2>5, <2>6, <2>7, <2>8 DEF Healthy
  <2> QED
    BY <2>2, <2>9
<1>17. ~RollbackBatch(b)
  BY <1>1 DEF RollbackBatch, Healthy
<1>18. CASE SaveFind(p)
  <2>1. pc[p] = "next" /\ Now(p).op \in {"insert", "mark"}
    BY <1>18 DEF SaveFind
  <2>2. /\ Now(p).op = "insert" /\ work.rows[Now(p).row] = 0 /\ Now(p).v # 0
        /\ Undone(b) = todo[p]
    BY <1>8, <1>9, <2>1
  <2>3. /\ UNCHANGED dbVars /\ pc' = [pc EXCEPT ![p] = "saveBegin"]
        /\ insertion' = [insertion EXCEPT ![p] =
              Now(p).op = "insert" /\ work.rows[Now(p).row] = 0]
        /\ UNCHANGED <<todo, outcome>>
    BY <1>2, <1>18, <2>2 DEF SaveFind
  <2>4. /\ pc'[p] = "saveBegin" /\ insertion'[p] /\ todo'[p] = todo[p] /\ outcome'[p] = "running"
        /\ Now(p)' = Now(p)
    BY <1>1, <1>2, <2>2, <2>3 DEF Now
  <2>5. Running(b)' /\ Undone(b)' = Undone(b)
    BY <1>7, <1>14, <2>2, <2>4
  <2>6. Now(Batch(b))'.op = "insert" /\ insertion'[Batch(b)]
    BY <2>2, <2>4
  <2> QED
    BY <1>2, <1>3, <1>4, <1>5, <2>3, <2>4, <2>5, <2>6, HealthyTurn DEF dbVars
<1>19. CASE SaveBegin(p)
  <2>1. /\ pc[p] = "saveBegin" /\ Goto(p, "saveWrite") /\ txn' = "open"
        /\ UNCHANGED <<work, committed>>
    BY <1>2, <1>19 DEF SaveBegin, Begin
  <2>2. /\ pc'[p] = "saveWrite" /\ insertion'[p] /\ Now(p)'.op = "insert" /\ outcome'[p] = "running"
        /\ Running(b)' /\ Undone(b)' = Undone(b)
    BY <1>6, <1>7, <1>9, <1>11, <1>14, <2>1
  <2>3. insertion'[Batch(b)] /\ Now(Batch(b))'.op = "insert"
    BY <2>2
  <2> QED
    BY <1>3, <1>4, <1>5, <2>1, <2>2, <2>3, HealthyTurn
<1>20. CASE SaveWrite(p)
  <2>1. pc[p] = "saveWrite" /\ todo[p] # << >> /\ insertion[p] /\ Now(p).op = "insert"
    BY <1>6, <1>9, <1>20 DEF SaveWrite
  <2>2. MayInsert(work.rows, Now(p).row) /\ Undone(b) = todo[p] /\ Now(p) = Head(todo[p])
        /\ Now(p).v \in Nat /\ Now(p).v # 0
    BY <1>8, <1>9, <2>1
  <2>3. /\ Write(p, [work.rows EXCEPT ![Now(p).row] = Now(p).v]) /\ Goto(p, "saveCommit")
    BY <1>2, <1>20, <2>1, <2>2 DEF SaveWrite
  <2>4. work'.rows = [work.rows EXCEPT ![Now(p).row] = Now(p).v] /\ txn' # "aborted"
    BY <1>2, <1>13, <2>3
  <2>5. /\ pc'[p] = "saveCommit" /\ outcome'[p] = "running" /\ Running(b)'
        /\ Undone(b)' = Tail(todo[p])
    BY <1>7, <1>11, <2>3 DEF HeadDone
  <2> QED
    BY <1>3, <1>4, <1>5, <2>1, <2>2, <2>4, <2>5, HealthyDo
<1>21. CASE SaveCommit(p)
  <2>1. pc[p] = "saveCommit" /\ CommitSession /\ Advance(p)
    BY <1>21 DEF SaveCommit
  <2>2. /\ pc'[p] \in {"next", "commit"} /\ outcome'[p] = "running" /\ Running(b)'
        /\ Undone(b)' = Undone(b)
    BY <1>6, <1>7, <1>10, <1>12, <1>14, <2>1
  <2>3. txn' = "none" /\ work' = work
    BY <1>2, <2>1 DEF CommitSession, EndTransaction
  <2> QED
    BY <1>3, <1>4, <1>5, <2>2, <2>3, HealthyTurn
<1>22. ~RollbackSave(p) /\ ~ServiceFind(p)
  BY <1>1 DEF RollbackSave, ServiceFind, Healthy
<1>23. CASE Update(p)
  <2>1. pc[p] = "next" /\ Now(p).op = "update"
    BY <1>1, <1>23 DEF Update, AtWrite
  <2>2. work.rows[Now(p).row] # 0 /\ Undone(b) = todo[p] /\ Now(p) = Head(todo[p])
        /\ Now(p).v \in Nat /\ Now(p).v # 0 /\ todo[p] # << >>
    BY <1>8, <1>9, <2>1
  <2>3. /\ Write(p, [work.rows EXCEPT ![Now(p).row] = Now(p).v]) /\ Goto(p, "read")
    BY <1>2, <1>23, <2>2 DEF Update
  <2>4. work'.rows = [work.rows EXCEPT ![Now(p).row] = Now(p).v] /\ txn' # "aborted"
    BY <1>2, <1>13, <2>3
  <2>5. /\ pc'[p] = "read" /\ outcome'[p] = "running" /\ Running(b)'
        /\ Undone(b)' = Tail(todo[p])
    BY <1>7, <1>11, <2>3 DEF HeadDone
  <2> QED
    BY <1>3, <1>4, <1>5, <2>1, <2>2, <2>4, <2>5, HealthyDo
<1>24. CASE Read(p)
  <2>1. pc[p] = "read" /\ UNCHANGED dbVars /\ Advance(p)
    BY <1>1, <1>2, <1>24 DEF Read
  <2>2. /\ pc'[p] \in {"next", "commit"} /\ outcome'[p] = "running" /\ Running(b)'
        /\ Undone(b)' = Undone(b)
    BY <1>6, <1>7, <1>10, <1>12, <1>14, <2>1
  <2>3. txn' = txn /\ work' = work
    BY <2>1 DEF dbVars
  <2> QED
    BY <1>2, <1>3, <1>4, <1>5, <2>2, <2>3, HealthyTurn
<1>25. CASE Delete(p)
  <2>1. pc[p] = "next" /\ Now(p).op = "delete"
    BY <1>1, <1>25 DEF Delete, AtWrite
  <2>2. /\ MayDelete(work.rows, Now(p).row) /\ Undone(b) = todo[p] /\ Now(p) = Head(todo[p])
        /\ todo[p] # << >>
    BY <1>8, <1>9, <2>1
  <2>3. /\ Write(p, [work.rows EXCEPT ![Now(p).row] = 0]) /\ Advance(p)
    BY <1>1, <1>2, <1>25, <2>2 DEF Delete
  <2>4. work'.rows = [work.rows EXCEPT ![Now(p).row] = 0] /\ txn' # "aborted"
    BY <1>2, <1>13, <2>3
  <2>5. /\ pc'[p] \in {"next", "commit"} /\ outcome'[p] = "running" /\ Running(b)'
        /\ Undone(b)' = Tail(todo[p])
    BY <1>7, <1>12, <1>14, <2>3
  <2>6. /\ pc'[p] \notin {"rollback", "rollbackSave"}
        /\ pc'[Batch(b)] \notin {"saveBegin", "saveWrite"}
        /\ Head(todo[p]).op = "delete" /\ Undone(b) # << >> /\ Undone(b)' = Tail(Undone(b))
        /\ Head(Undone(b)).op = "delete"
        /\ work'.rows = [work.rows EXCEPT ![Head(Undone(b)).row] = 0]
    BY <2>1, <2>2, <2>4, <2>5
  <2>7. \A q \in Proc : pc'[q] \notin {"rollback", "rollbackSave"}
    BY <1>5, <2>6
  <2>8. Healthy(b)'
    BY <1>3, <1>4, <2>4, <2>5, <2>6, <2>7, HealthyDo
  <2> QED
    BY <2>5, <2>8
<1>26. Statement(p) \/ BatchStatement(b)
  BY <1>1 DEF Moves, Batch
<1> QED
  BY <1>15, <1>16, <1>17, <1>18, <1>19, <1>20, <1>21, <1>22, <1>23, <1>24, <1>25, <1>26
     DEF Statement, BatchStatement


-----------------------------------------------------------------------------
(* A statement keeps the causes of failures.                               *)

\* A batch that has no cause to fail had none before.
LEMMA GoodBefore ==
    ASSUME IInv, TypeOK, NEW p \in Proc, Moves(p), NEW b \in 0..MaxBatches, Good(b)'
    PROVE  Good(b) /\ \A e \in 1..MaxEdits : p # <<"edit", e>>
<1>1. /\ outcome[p] = "running" /\ outcome'[p] # "none" /\ UNCHANGED feedVars
      /\ \A q \in Proc \ {p} : outcome'[q] = outcome[q]
  BY MoveIs
<1>2. \A e \in 1..MaxEdits : outcome'[<<"edit", e>>] = "none" /\ p # <<"edit", e>>
  BY <1>1 DEF Good, NoEdits
<1>3. NoEdits
  BY <1>1, <1>2, ProcNames DEF NoEdits
<1>4. ASSUME NEW k \in 1..b, Cause(k) PROVE FALSE
  <2>1. k \in 1..MaxBatches /\ <<"batch", k>> \in Proc
    BY BoundsNat, ProcNames DEF Batch
  <2>2. outcome[<<"batch", k>>] \in {"refused", "cut"} =>
          outcome'[<<"batch", k>>] = outcome[<<"batch", k>>]
    BY <1>1, <2>1
  <2>3. Cause(k)'
    BY <1>1, <1>4, <2>2 DEF Cause, feedVars
  <2> QED
    BY <2>3 DEF Good
<1> QED
  BY <1>2, <1>3, <1>4 DEF Good

\* A statement leaves the batch at hand with nothing in its way.
LEMMA MoveCause ==
    ASSUME IInv, TypeOK, OrderInv, LsnInv, CauseInv, NEW p \in Proc, Moves(p)
    PROVE  CauseInv'
<1>1. /\ outcome[p] = "running" /\ outcome'[p] # "none" /\ UNCHANGED feedVars
      /\ \A q \in Proc \ {p} :
            pc'[q] = pc[q] /\ todo'[q] = todo[q] /\ outcome'[q] = outcome[q]
      /\ \A q \in Proc \ {p} : insertion'[q] = insertion[q]
  BY MoveIs, InsertionOfOthers
<1>2. UNCHANGED <<srv, feed>>
  BY <1>1 DEF feedVars
<1>3. ASSUME NEW b \in 0..MaxBatches, Good(b)'
      PROVE  /\ b > 0 => outcome'[Batch(b)] # "failed"
             /\ Current(b)' => Healthy(b)'
  <2>1. Good(b) /\ \A e \in 1..MaxEdits : p # <<"edit", e>>
    BY <1>3, GoodBefore
  <2>2. b > 0 => b \in 1..MaxBatches
    BY BoundsNat
  <2>3. CASE \E k \in 1..MaxBatches : p = Lsn(k)
    <3>1. PICK k \in 1..MaxBatches : p = Lsn(k)
      BY <2>3
    <3>2. \A j \in 1..MaxBatches : Batch(j) \in Proc \ {p}
      BY <3>1, ProcNames
    <3>3. \A j \in 1..MaxBatches : outcome'[Batch(j)] = outcome[Batch(j)]
      BY <1>1, <3>2
    <3>4. b > 0 => outcome'[Batch(b)] # "failed"
      BY <2>1, <2>2, <3>3 DEF CauseInv
    <3>5. ASSUME Current(b)' PROVE Healthy(b)'
      <4>1. NoneAfter(b)' => NoneAfter(b)
        BY <3>3 DEF NoneAfter
      <4>2. Current(b)
        BY <2>2, <3>3, <3>5, <4>1 DEF Current, Running
      <4>3. Healthy(b)
        BY <2>1, <4>2 DEF CauseInv
      <4>4. txn # "aborted" /\ pc[p] # "rollbackSave"
        BY <4>3 DEF Healthy
      <4>5. /\ work'.rows = work.rows /\ committed'.rows \in {committed.rows, work.rows}
            /\ txn' # "aborted" /\ pc'[p] \notin {"rollback", "rollbackSave"}
        BY <3>1, <4>4, LsnStep
      <4>6. \A q \in Proc : pc'[q] \notin {"rollback", "rollbackSave"}
        BY <1>1, <4>3, <4>5 DEF Healthy
      <4>7. b > 0 => /\ pc'[Batch(b)] = pc[Batch(b)] /\ todo'[Batch(b)] = todo[Batch(b)]
                     /\ outcome'[Batch(b)] = outcome[Batch(b)]
                     /\ insertion'[Batch(b)] = insertion[Batch(b)]
        BY <1>1, <2>2, <3>2
      <4> QED
        BY <1>2, <4>1, <4>3, <4>5, <4>6, <4>7, HealthyKept
    <3> QED
      BY <3>4, <3>5
  <2>4. CASE \E k \in 1..MaxBatches : p = Batch(k)
    <3>1. PICK k \in 1..MaxBatches : p = Batch(k)
      BY <2>4
    <3>2. \A j \in 1..MaxBatches : j # k => Batch(j) \in Proc \ {p}
      BY <3>1, ProcNames
    <3>3. \A j \in 1..MaxBatches : j # k => outcome'[Batch(j)] = outcome[Batch(j)]
      BY <1>1, <3>2
    <3>4. Running(k)
      BY <1>1, <3>1 DEF Running
    <3>5. CASE b = k
      <4>1. Current(b)
        BY <1>1, <3>1, <3>4, <3>5 DEF Current
      <4>2. Healthy(b)
        BY <2>1, <4>1 DEF CauseInv
      <4>3. Healthy(k)' /\ outcome'[p] # "failed"
        BY <3>1, <3>4, <3>5, <4>2, BatchStep
      <4> QED
        BY <3>1, <3>5, <4>3
    <3>6. CASE b < k
      <4>1. b > 0 => outcome'[Batch(b)] # "failed"
        BY <2>1, <2>2, <3>3, <3>6 DEF CauseInv
      <4>2. ~NoneAfter(b)'
        BY <1>1, <3>1, <3>6 DEF NoneAfter
      <4>3. ~Running(b)'
        <5>1. SUFFICES ASSUME Running(b)' PROVE FALSE
          OBVIOUS
        <5>2. b \in 1..MaxBatches /\ outcome[Batch(b)] = "running"
          BY <2>2, <3>3, <3>6, <5>1 DEF Running
        <5>3. outcome[Batch(k)] \in {"none", "refused"}
          BY <3>6, <5>2 DEF OrderInv
        <5> QED
          BY <3>4, <5>3 DEF Running
      <4> QED
        BY <4>1, <4>2, <4>3 DEF Current
    <3>7. CASE b > k
      <4>1. b \in 1..MaxBatches /\ outcome[Batch(b)] \in {"none", "refused"}
        BY <2>2, <3>4, <3>7 DEF OrderInv, Running
      <4>2. outcome'[Batch(b)] = outcome[Batch(b)]
        BY <3>3, <3>7, <4>1
      <4>3. outcome[Batch(b)] # "refused"
        BY <2>1, <4>1 DEF Good, Cause, Batch
      <4> QED
        BY <4>1, <4>2, <4>3 DEF Current
    <3> QED
      BY <3>5, <3>6, <3>7
  <2> QED
    BY <2>1, <2>3, <2>4, ProcKinds
<1> QED
  BY <1>3 DEF CauseInv

-----------------------------------------------------------------------------
(* A batch arrives.                                                        *)

\* Batch k takes the first n changes, in the order of s, or is refused.
Received(k, busy, n, s) ==
    /\ feed' = SubSeq(feed, n + 1, Len(feed))
    /\ given' = [given EXCEPT ![k] = Deduplicated(SubSeq(feed, 1, n))]
    /\ collapsed' = IF Collapsed(SubSeq(feed, 1, n)) THEN collapsed \cup {k} ELSE collapsed
    /\ pc' = [pc EXCEPT ![Lsn(k)] = "next", ![Batch(k)] = IF busy THEN "done" ELSE "begin"]
    /\ todo' = [todo EXCEPT ![Lsn(k)] = <<Mark>>, ![Batch(k)] = IF busy THEN << >> ELSE s]
    /\ outcome' = [outcome EXCEPT
          ![Lsn(k)] = "running", ![Batch(k)] = IF busy THEN "refused" ELSE "running"]

\* What Receive does, with the changes and their order named.
LEMMA ReceiveIs ==
    ASSUME TypeOK, NEW k \in 1..MaxBatches, Receive(k)
    PROVE  /\ UNCHANGED <<srv, dbVars, insertion>>
           /\ outcome[Batch(k)] = "none" /\ (k > 1 => outcome[Batch(k-1)] # "none")
           /\ \E busy \in BOOLEAN, n \in 1..Len(feed) :
                 /\ busy <=> \E j \in 1..MaxBatches : outcome[Batch(j)] = "running"
                 /\ \E s \in Orders(Deduplicated(SubSeq(feed, 1, n))) : Received(k, busy, n, s)
<1>1. feed \in Seq(Change) /\ feed # << >> /\ Len(feed) \in Nat \ {0}
  BY DEF TypeOK, Receive
<1>2. UNCHANGED <<srv, dbVars, insertion>>
  BY DEF Receive
<1>3. outcome[Batch(k)] = "none" /\ (k > 1 => outcome[Batch(k-1)] # "none")
  BY DEF Receive, Fresh, Batch
<1> DEFINE B == \E j \in 1..MaxBatches : outcome[<<"batch", j>>] = "running"
<1>4. \A n \in (IF Starts + 1 < MaxStarts THEN 1 ELSE Len(feed))..Len(feed) : n \in 1..Len(feed)
  BY <1>1
<1>5. PICK n \in 1..Len(feed) :
          \E s \in Orders(Deduplicated(SubSeq(feed, 1, n))) : Received(k, B, n, s)
  BY <1>4 DEF Receive, Received, Batch, Lsn
<1>6. B \in BOOLEAN /\ (B <=> \E j \in 1..MaxBatches : outcome[Batch(j)] = "running")
  BY DEF Batch
<1> HIDE DEF B
<1> QED
  BY <1>2, <1>3, <1>5, <1>6

\* A batch that arrives without a cause to fail fits the rows it will find.
LEMMA ReceiveCauses ==
    ASSUME TypeOK, FeedInv, OrderInv, LsnInv, CauseInv, NEW k \in 1..MaxBatches, Receive(k)
    PROVE  FeedInv' /\ OrderInv' /\ LsnInv' /\ CauseInv'
<1>1. /\ UNCHANGED <<srv, dbVars, insertion>> /\ UNCHANGED <<work, committed, txn>>
      /\ outcome[Batch(k)] = "none" /\ (k > 1 => outcome[Batch(k-1)] # "none")
  BY ReceiveIs DEF dbVars
<1>2. PICK busy \in BOOLEAN, n \in 1..Len(feed) :
          /\ busy <=> \E j \in 1..MaxBatches : outcome[Batch(j)] = "running"
          /\ \E s \in Orders(Deduplicated(SubSeq(feed, 1, n))) : Received(k, busy, n, s)
  BY ReceiveIs
<1>3. PICK s \in Orders(Deduplicated(SubSeq(feed, 1, n))) : Received(k, busy, n, s)
  BY <1>2
<1>4. /\ feed \in Seq(Change) /\ Len(feed) \in Nat /\ n \in 0..Len(feed) /\ n \in Nat
      /\ pc \in [Proc -> PC] /\ todo \in [Proc -> Seq(Change)] /\ outcome \in [Proc -> Outcome]
      /\ given \in [1..MaxBatches -> SUBSET Change] /\ work.rows \in [Row -> Nat]
  BY DEF TypeOK, DB
<1>5. Batch(k) \in Proc /\ Lsn(k) \in Proc /\ Batch(k) # Lsn(k)
  BY ProcNames
<1>6. /\ outcome'[Batch(k)] = (IF busy THEN "refused" ELSE "running")
      /\ pc'[Batch(k)] = (IF busy THEN "done" ELSE "begin")
      /\ todo'[Batch(k)] = (IF busy THEN << >> ELSE s)
      /\ pc'[Lsn(k)] = "next" /\ todo'[Lsn(k)] = <<Mark>>
      /\ \A q \in Proc \ {Batch(k), Lsn(k)} :
            pc'[q] = pc[q] /\ todo'[q] = todo[q] /\ outcome'[q] = outcome[q]
  BY <1>3, <1>4, <1>5 DEF Received
<1>7. ASSUME NEW j \in 1..MaxBatches, j # k
      PROVE  /\ outcome'[Batch(j)] = outcome[Batch(j)] /\ pc'[Batch(j)] = pc[Batch(j)]
             /\ todo'[Batch(j)] = todo[Batch(j)]
             /\ pc'[Lsn(j)] = pc[Lsn(j)] /\ todo'[Lsn(j)] = todo[Lsn(j)]
  <2>1. Batch(j) \in Proc \ {Batch(k), Lsn(k)} /\ Lsn(j) \in Proc \ {Batch(k), Lsn(k)}
    BY <1>7, ProcNames
  <2> QED
    BY <1>6, <2>1
\* What is left of the feed leads on.
<1>8. FeedInv'
  <2>1. Leads(srv, SubSeq(feed, n + 1, Len(feed)))
    BY <1>4, RestLeads DEF FeedInv
  <2>2. srv' = srv /\ feed' = SubSeq(feed, n + 1, Len(feed))
    BY <1>1, <1>3 DEF Received
  <2> QED
    BY <2>1, <2>2 DEF FeedInv
<1>9. \A j \in 1..MaxBatches : j > k => outcome[Batch(j)] = "none"
  <2>1. ASSUME NEW j \in 1..MaxBatches, j > k, outcome[Batch(j)] # "none" PROVE FALSE
    <3>1. k \in 1..j
      BY <2>1
    <3> QED
      BY <1>1, <2>1, <3>1 DEF OrderInv
  <2> QED
    BY <2>1
<1>10. OrderInv'
  <2>1. ASSUME NEW b \in 1..MaxBatches, outcome'[Batch(b)] # "none", NEW j \in 1..b
        PROVE  outcome'[Batch(j)] # "none"
    <3>1. j \in 1..MaxBatches
      BY BoundsNat
    <3>2. CASE j = k
      BY <1>6, <3>2
    <3>3. CASE j # k /\ b = k
      <4>1. k > 1 /\ k - 1 \in 1..MaxBatches /\ j \in 1..(k-1)
        BY <3>3, BoundsNat
      <4>2. outcome[Batch(k-1)] # "none"
        BY <1>1, <4>1
      <4>3. outcome[Batch(j)] # "none"
        BY <4>1, <4>2 DEF OrderInv
      <4> QED
        BY <1>7, <3>1, <3>3, <4>3
    <3>4. CASE j # k /\ b # k
      <4>1. outcome[Batch(b)] # "none"
        BY <1>7, <2>1, <3>4
      <4>2. outcome[Batch(j)] # "none"
        BY <4>1 DEF OrderInv
      <4> QED
        BY <1>7, <3>1, <3>4, <4>2
    <3> QED
      BY <3>2, <3>3, <3>4
  <2>2. ASSUME NEW b \in 1..MaxBatches, outcome'[Batch(b)] = "running",
               NEW j \in 1..MaxBatches, j > b
        PROVE  outcome'[Batch(j)] \in {"none", "refused"}
    <3>1. CASE b = k
      BY <1>7, <1>9, <2>2, <3>1
    <3>2. CASE b # k /\ j = k
      <4>1. busy
        BY <1>2, <1>7, <2>2, <3>2
      <4> QED
        BY <1>6, <3>2, <4>1
    <3>3. CASE b # k /\ j # k
      <4>1. outcome[Batch(j)] \in {"none", "refused"}
        BY <1>7, <2>2, <3>3 DEF OrderInv
      <4> QED
        BY <1>7, <3>3, <4>1
    <3> QED
      BY <3>1, <3>2, <3>3
  <2> QED
    BY <2>1, <2>2 DEF OrderInv
<1>11. LsnInv'
  <2>1. ASSUME NEW b \in 1..MaxBatches
        PROVE  (pc'[Lsn(b)] \in AtChange => todo'[Lsn(b)] = <<Mark>>) /\ ~insertion'[Lsn(b)]
    BY <1>1, <1>6, <1>7 DEF LsnInv
  <2> QED
    BY <2>1 DEF LsnInv
\* The batches before it.
<1>12. ASSUME NEW b \in 0..(k-1), NoEdits', \A j \in 1..b : ~Cause(j)'
       PROVE  Good(b)
  <2>1. NoEdits
    <3>1. \A e \in 1..MaxEdits : <<"edit", e>> \in Proc \ {Batch(k), Lsn(k)}
      BY ProcNames
    <3> QED
      BY <1>6, <1>12, <3>1 DEF NoEdits
  <2>2. ASSUME NEW j \in 1..b, Cause(j) PROVE FALSE
    <3>1. j \in 1..MaxBatches /\ j # k
      BY BoundsNat
    <3>2. given'[j] = given[j] /\ (j \in collapsed => j \in collapsed')
      BY <1>3, <1>4, <3>1 DEF Received
    <3>3. outcome'[<<"batch", j>>] = outcome[<<"batch", j>>]
      BY <1>7, <3>1 DEF Batch
    <3>4. Cause(j)'
      BY <2>2, <3>2, <3>3 DEF Cause
    <3> QED
      BY <1>12, <3>4
  <2> QED
    BY <2>1, <2>2 DEF Good
<1>13. ASSUME NEW b \in 0..(k-1), Good(b)', Current(b)'
       PROVE  Healthy(b)'
  <2>1. Good(b) /\ b \in 0..MaxBatches
    BY <1>12, <1>13, BoundsNat DEF Good
  <2>2. ~NoneAfter(b)'
    BY <1>6, <1>13 DEF NoneAfter
  <2>3. Running(b)' /\ b \in 1..MaxBatches /\ b # k
    BY <1>13, <2>1, <2>2, BoundsNat DEF Current, Running
  <2>4. Running(b) /\ Current(b)
    BY <1>7, <2>3 DEF Running, Current
  <2>5. Healthy(b)
    BY <2>1, <2>4 DEF CauseInv
  <2>6. \A q \in Proc : pc'[q] \notin {"rollback", "rollbackSave"}
    BY <1>6, <2>5 DEF Healthy
  <2>7. /\ pc'[Batch(b)] = pc[Batch(b)] /\ todo'[Batch(b)] = todo[Batch(b)]
        /\ outcome'[Batch(b)] = outcome[Batch(b)] /\ insertion'[Batch(b)] = insertion[Batch(b)]
    BY <1>1, <1>7, <2>3
  <2>8. txn' # "aborted"
    BY <1>1, <2>5 DEF Healthy
  <2> QED
    BY <1>1, <2>1, <2>2, <2>5, <2>6, <2>7, <2>8, HealthyKept
\* The batch itself.
<1>14. ASSUME Good(k)'
       PROVE  Healthy(k)'
  <2>1. k - 1 \in 0..(k-1) /\ k - 1 \in 0..MaxBatches
    BY BoundsNat
  <2>2. ~busy
    <3>1. ~Cause(k)'
      BY <1>14 DEF Good
    <3> QED
      BY <1>6, <3>1 DEF Cause, Batch
  <2>3. Good(k-1)
    BY <1>12, <1>14, <2>1 DEF Good
  <2>4. ~Running(k-1) /\ NoneAfter(k-1)
    <3>1. \A j \in 1..MaxBatches : j > k - 1 => j = k \/ j > k
      OBVIOUS
    <3>2. k - 1 > 0 => k - 1 \in 1..MaxBatches
      BY BoundsNat
    <3> QED
      BY <1>1, <1>2, <1>9, <2>2, <3>1, <3>2 DEF Running, NoneAfter
  <2>5. Current(k-1)
    BY <1>1, <2>4 DEF Current
  <2>6. Healthy(k-1)
    BY <2>1, <2>3, <2>5 DEF CauseInv
  <2>7. ASSUME NEW r \in Synced PROVE work.rows[r] # 0 <=> Alive(srv, feed, 0, r)
    <3>1. Will(work.rows, << >>, r) <=> Alive(srv, feed, 0, r)
      BY <2>4, <2>6 DEF Healthy, Undone
    <3> QED
      BY <3>1 DEF Will
  <2>8. /\ ~Collapsed(SubSeq(feed, 1, n))
        /\ ~\E c, d \in Deduplicated(SubSeq(feed, 1, n)) :
               c.op = "delete" /\ d.op = "delete" /\ IsChild(c.row) /\ ParentOf[c.row] = d.row
    <3>1. ~Cause(k)'
      BY <1>14 DEF Good
    <3>2. given'[k] = Deduplicated(SubSeq(feed, 1, n))
      BY <1>3, <1>4 DEF Received
    <3>3. Collapsed(SubSeq(feed, 1, n)) => k \in collapsed'
      BY <1>3 DEF Received
    <3> QED
      BY <3>1, <3>2, <3>3 DEF Cause
  <2>9. PICK raw : raw = SubSeq(feed, 1, n)
    OBVIOUS
  <2>10. Doable(work.rows, s) /\ \A r \in Synced : Will(work.rows, s, r) <=> Alive(srv, feed, n, r)
    <3>1. Leads(srv, feed) /\ s \in Orders(Deduplicated(raw)) /\ ~Collapsed(raw)
      BY <1>3, <2>8, <2>9 DEF FeedInv
    <3>2. ~\E c, d \in Deduplicated(raw) :
               c.op = "delete" /\ d.op = "delete" /\ IsChild(c.row) /\ ParentOf[c.row] = d.row
      BY <2>8, <2>9
    <3> QED
      BY <1>4, <2>7, <2>9, <3>1, <3>2, BatchFits
  <2>11. \A r \in Synced : Alive(srv', feed', 0, r) <=> Alive(srv, feed, n, r)
    <3>1. 0 \in 0..(Len(feed) - n) /\ n + 0 = n
      BY <1>4
    <3>2. \A r : Alive(srv, SubSeq(feed, n + 1, Len(feed)), 0, r) <=> Alive(srv, feed, n, r)
      BY <1>4, <3>1, RestAlive
    <3> QED
      BY <1>1, <1>3, <3>2 DEF Received
  <2>12. Running(k)' /\ Undone(k)' = s
    BY <1>6, <2>2 DEF Running, Undone, HeadDone
  <2>13. work'.rows = work.rows
    BY <1>1
  <2>14. Doable(work'.rows, Undone(k)')
    BY <2>10, <2>12, <2>13
  <2>15. \A r \in Synced : Will(work'.rows, Undone(k)', r) <=> Alive(srv', feed', 0, r)
    BY <2>10, <2>11, <2>12, <2>13
  <2>16. \A q \in Proc : pc'[q] \notin {"rollback", "rollbackSave"}
    BY <1>6, <2>6 DEF Healthy
  <2>17. txn' # "aborted" /\ \A r \in Row \ Synced : work'.rows[r] = 0
    BY <1>1, <2>6 DEF Healthy
  <2>18. pc'[Batch(k)] \notin {"saveBegin", "saveWrite"}
    BY <1>6, <2>2
  <2> QED
    BY <2>12, <2>14, <2>15, <2>16, <2>17, <2>18 DEF Healthy
<1>15. ASSUME NEW b \in 1..MaxBatches, Good(b)'
       PROVE  outcome'[Batch(b)] # "failed"
  <2>1. CASE b < k
    <3>1. Good(b)
      BY <1>12, <1>15, <2>1 DEF Good
    <3> QED
      BY <1>7, <2>1, <3>1 DEF CauseInv
  <2>2. CASE b = k
    BY <1>6, <2>2
  <2>3. CASE b > k
    BY <1>7, <1>9, <2>3
  <2> QED
    BY <2>1, <2>2, <2>3
<1>16. ASSUME NEW b \in 0..MaxBatches, Good(b)', Current(b)'
       PROVE  Healthy(b)'
  <2>1. CASE b < k
    BY <1>13, <1>16, <2>1
  <2>2. CASE b = k
    BY <1>14, <1>16, <2>2
  <2>3. CASE b > k
    <3>1. b \in 1..MaxBatches /\ outcome'[Batch(b)] = "none"
      BY <1>7, <1>9, <2>3
    <3> QED
      BY <1>16, <3>1 DEF Current
  <2> QED
    BY <2>1, <2>2, <2>3
<1>17. CauseInv'
  BY <1>15, <1>16 DEF CauseInv
<1> QED
  BY <1>8, <1>10, <1>11, <1>17


-----------------------------------------------------------------------------
(* The other actions keep the causes of failures.                          *)

\* An edit excuses every failure.
LEMMA EditCauses ==
    ASSUME TypeOK, FeedInv, OrderInv, LsnInv, NEW e \in 1..MaxEdits, Edit(e)
    PROVE  FeedInv' /\ OrderInv' /\ LsnInv' /\ CauseInv'
<1>1. /\ pc \in [Proc -> PC] /\ todo \in [Proc -> Seq(Change)] /\ outcome \in [Proc -> Outcome]
      /\ <<"edit", e>> \in Proc
  BY ProcNames DEF TypeOK
<1>2. /\ UNCHANGED <<dbVars, feedVars, crashes>>
      /\ \E s : Start(<<"edit", e>>, "next", s)
  BY DEF Edit
<1>3. UNCHANGED <<srv, feed>>
  BY <1>2 DEF feedVars
<1>4. /\ outcome'[<<"edit", e>>] = "running" /\ UNCHANGED insertion
      /\ \A q \in Proc : q # <<"edit", e>> =>
            pc'[q] = pc[q] /\ todo'[q] = todo[q] /\ outcome'[q] = outcome[q]
  BY <1>1, <1>2 DEF Start
<1>5. \A b \in 1..MaxBatches :
         /\ outcome'[Batch(b)] = outcome[Batch(b)]
         /\ pc'[Lsn(b)] = pc[Lsn(b)] /\ todo'[Lsn(b)] = todo[Lsn(b)]
  BY <1>4, ProcNames
<1>6. FeedInv'
  BY <1>3 DEF FeedInv
<1>7. OrderInv'
  <2>1. \A b \in 1..MaxBatches : \A k \in 1..b : k \in 1..MaxBatches
    BY BoundsNat
  <2> QED
    BY <1>5, <2>1 DEF OrderInv
<1>8. LsnInv'
  BY <1>4, <1>5 DEF LsnInv
<1>9. ~NoEdits'
  BY <1>4 DEF NoEdits
<1>10. CauseInv'
  BY <1>9 DEF CauseInv, Good
<1> QED
  BY <1>6, <1>7, <1>8, <1>10

\* The server writes before the first batch.
LEMMA WriteCauses ==
    ASSUME TypeOK, FeedInv, OrderInv, LsnInv, CauseInv, ServerWrite
    PROVE  FeedInv' /\ OrderInv' /\ LsnInv' /\ CauseInv'
<1>1. /\ UNCHANGED <<work, committed, txn, pc, todo, insertion, outcome, given, collapsed>>
      /\ \A p \in Proc : outcome[p] = "none"
  BY DEF ServerWrite, dbVars, procVars
<1>2. FeedInv' /\ \A r \in Synced : Alive(srv, feed, 0, r)' <=> Alive(srv, feed, 0, r)
  BY WriteLeads
<1>3. OrderInv' /\ LsnInv'
  BY <1>1 DEF OrderInv, LsnInv
<1>4. \A b \in 1..MaxBatches : outcome[Batch(b)] = "none" /\ outcome'[Batch(b)] = "none"
  BY <1>1, ProcNames
<1>5. ASSUME NEW b \in 0..MaxBatches, Good(b)', Current(b)'
      PROVE  Healthy(b)'
  <2>1. b = 0
    BY <1>4, <1>5, BoundsNat DEF Current
  <2>2. Good(b) /\ Current(b)
    BY <1>1, <1>5 DEF Good, NoEdits, Cause, Current, Running, NoneAfter
  <2>3. Healthy(b)
    BY <2>2 DEF CauseInv
  <2>4. ~Running(b) /\ ~Running(b)' /\ Undone(b) = << >> /\ Undone(b)' = << >>
    BY <2>1 DEF Running, Undone
  <2>5. Doable(work'.rows, Undone(b)')
    BY <1>1, <2>3, <2>4 DEF Healthy
  <2>6. NoneAfter(b)
    BY <1>4 DEF NoneAfter
  <2>7. ASSUME NEW r \in Synced
        PROVE  Will(work'.rows, Undone(b)', r) <=> Alive(srv', feed', 0, r)
    <3>1. Will(work.rows, << >>, r) <=> Alive(srv, feed, 0, r)
      BY <2>3, <2>4, <2>6 DEF Healthy
    <3>2. Alive(srv', feed', 0, r) <=> Alive(srv, feed, 0, r)
      BY <1>2
    <3>3. work'.rows = work.rows
      BY <1>1
    <3> QED
      BY <2>4, <3>1, <3>2, <3>3
  <2>8. /\ txn' # "aborted" /\ \A p \in Proc : pc'[p] \notin {"rollback", "rollbackSave"}
        /\ \A r \in Row \ Synced : work'.rows[r] = 0 /\ work'.rows = committed'.rows
    BY <1>1, <2>3, <2>4 DEF Healthy
  <2>9. work'.rows = committed'.rows
    BY <1>1, <2>3, <2>4 DEF Healthy
  <2> QED
    BY <2>4, <2>5, <2>7, <2>8, <2>9 DEF Healthy
<1>6. CauseInv'
  BY <1>4, <1>5 DEF CauseInv
<1> QED
  BY <1>2, <1>3, <1>6

\* A restart cuts the batch that runs, which is then a cause.
LEMMA CrashCauses ==
    ASSUME TypeOK, FeedInv, OrderInv, LsnInv, CauseInv, Crash
    PROVE  FeedInv' /\ OrderInv' /\ LsnInv' /\ CauseInv'
<1>1. /\ txn' = "none" /\ work' = committed /\ committed' = committed
      /\ pc' = [p \in Proc |-> IF pc[p] = "idle" THEN "idle" ELSE "done"]
      /\ outcome' = [p \in Proc |-> IF outcome[p] = "running" THEN "cut" ELSE outcome[p]]
      /\ UNCHANGED <<todo, insertion>> /\ UNCHANGED <<srv, feed, given, collapsed>>
  BY DEF Crash, feedVars
<1>2. \A q \in Proc : /\ pc'[q] \in {"idle", "done"}
                      /\ outcome'[q] = IF outcome[q] = "running" THEN "cut" ELSE outcome[q]
  BY <1>1
<1>3. FeedInv'
  BY <1>1 DEF FeedInv
<1>4. OrderInv'
  <2>1. \A b \in 1..MaxBatches : \A k \in 1..b : k \in 1..MaxBatches
    BY BoundsNat
  <2>2. \A b \in 1..MaxBatches : /\ outcome'[Batch(b)] # "running"
                                 /\ outcome'[Batch(b)] = "none" <=> outcome[Batch(b)] = "none"
    BY <1>2, ProcNames
  <2> QED
    BY <2>1, <2>2 DEF OrderInv
<1>5. LsnInv'
  <2>1. \A b \in 1..MaxBatches : pc'[Lsn(b)] \notin AtChange
    BY <1>2, ProcNames DEF AtChange
  <2> QED
    BY <1>1, <2>1 DEF LsnInv
<1>6. ASSUME NEW b \in 0..MaxBatches, Good(b)'
      PROVE  Good(b) /\ \A k \in 1..b : outcome[Batch(k)] # "running"
  <2>1. NoEdits
    BY <1>2, <1>6, ProcNames DEF Good, NoEdits
  <2>2. ASSUME NEW k \in 1..b PROVE ~Cause(k) /\ outcome[Batch(k)] # "running"
    <3>1. k \in 1..MaxBatches /\ Batch(k) \in Proc
      BY BoundsNat, ProcNames
    <3>2. outcome'[Batch(k)] = IF outcome[Batch(k)] = "running" THEN "cut" ELSE outcome[Batch(k)]
      BY <1>2, <3>1
    <3>3. ~Cause(k)'
      BY <1>6 DEF Good
    <3> QED
      BY <1>1, <3>2, <3>3 DEF Cause, Batch
  <2> QED
    BY <2>1, <2>2 DEF Good
<1>7. ASSUME NEW b \in 1..MaxBatches, Good(b)'
      PROVE  outcome'[Batch(b)] # "failed"
  <2>1. Good(b) /\ Batch(b) \in Proc
    BY <1>6, <1>7, ProcNames
  <2> QED
    BY <1>2, <2>1 DEF CauseInv
<1>8. ASSUME NEW b \in 0..MaxBatches, Good(b)', Current(b)'
      PROVE  Healthy(b)'
  <2>1. Good(b) /\ ~Running(b) /\ (b > 0 => b \in 1..MaxBatches /\ Batch(b) \in Proc)
    BY <1>6, <1>8, BoundsNat, ProcNames DEF Running
  <2>2. ~Running(b)'
    BY <1>2, <2>1 DEF Running
  <2>3. NoneAfter(b)'
    BY <1>8, <2>2 DEF Current
  <2>4. NoneAfter(b)
    BY <1>2, <2>3, ProcNames DEF NoneAfter
  <2>5. Current(b)
    BY <1>2, <1>8, <2>1, <2>4 DEF Current
  <2>6. Healthy(b)
    BY <2>1, <2>5 DEF CauseInv
  <2>7. Undone(b) = << >> /\ Undone(b)' = << >> /\ work'.rows = work.rows
        /\ work'.rows = committed'.rows
    BY <1>1, <2>1, <2>2, <2>6 DEF Undone, Healthy
  <2>8. Doable(work'.rows, Undone(b)')
    BY <2>6, <2>7 DEF Healthy
  <2>9. \A r \in Synced : Will(work'.rows, Undone(b)', r) <=> Alive(srv', feed', 0, r)
    BY <1>1, <2>4, <2>6, <2>7 DEF Healthy
  <2>10. \A q \in Proc : pc'[q] \notin {"rollback", "rollbackSave"}
    BY <1>2
  <2>11. txn' # "aborted" /\ \A r \in Row \ Synced : work'.rows[r] = 0
    BY <1>1, <2>6, <2>7 DEF Healthy
  <2> QED
    BY <2>2, <2>7, <2>8, <2>9, <2>10, <2>11 DEF Healthy
<1>9. CauseInv'
  BY <1>7, <1>8 DEF CauseInv
<1> QED
  BY <1>3, <1>4, <1>5, <1>9

\* In the beginning the browser has the rows of the server.
LEMMA InitCauses == Init => FeedInv /\ OrderInv /\ LsnInv /\ CauseInv
<1> SUFFICES ASSUME Init PROVE FeedInv /\ OrderInv /\ LsnInv /\ CauseInv
  OBVIOUS
<1>1. /\ srv \in [Synced -> {0, 1}] /\ feed = << >> /\ txn = "none"
      /\ \A r \in Child : srv[r] # 0 => srv[ParentOf[r]] # 0
      /\ work = [rows |-> [r \in Row |-> IF r \in Synced THEN srv[r] ELSE 0], did |-> {}]
      /\ committed = work
      /\ pc = [p \in Proc |-> "idle"] /\ todo = [p \in Proc |-> << >>]
      /\ insertion = [p \in Proc |-> FALSE] /\ outcome = [p \in Proc |-> "none"]
  BY DEF Init
<1>2. DOMAIN feed = {} /\ Len(feed) = 0
  BY <1>1
<1>3. \A k \in 0..Len(feed), r \in Synced : Alive(srv, feed, k, r) <=> srv[r] # 0
  <2>1. \A k, r : Later(feed, k, r) = {}
    BY <1>2 DEF Later, Places
  <2> QED
    BY <2>1 DEF Alive
<1>4. FeedInv
  <2>1. \A r \in Child : r \in Synced /\ ParentOf[r] \in Synced
    BY ParentOfType DEF Synced
  <2>2. \A k \in 0..Len(feed) : \A r \in Child :
           Alive(srv, feed, k, r) => Alive(srv, feed, k, ParentOf[r])
    BY <1>1, <1>3, <2>1
  <2> QED
    BY <1>2, <2>2 DEF FeedInv, Leads
<1>5. \A b \in 1..MaxBatches : /\ outcome[Batch(b)] = "none" /\ pc[Lsn(b)] = "idle"
                               /\ ~insertion[Lsn(b)]
  BY <1>1, ProcNames
<1>6. OrderInv
  <2>1. \A b \in 1..MaxBatches : \A k \in 1..b : k \in 1..MaxBatches
    BY BoundsNat
  <2> QED
    BY <1>5, <2>1 DEF OrderInv
<1>7. LsnInv
  BY <1>5 DEF LsnInv, AtChange
<1>8. ASSUME NEW b \in 0..MaxBatches, Current(b)
      PROVE  Healthy(b)
  <2>1. b = 0
    BY <1>5, <1>8, BoundsNat DEF Current
  <2>2. ~Running(b) /\ Undone(b) = << >>
    BY <2>1 DEF Running, Undone
  <2>3. \A r \in Row : work.rows[r] = IF r \in Synced THEN srv[r] ELSE 0
    BY <1>1
  <2>4. Doable(work.rows, << >>)
    BY DEF Doable, Sorted
  <2>5. \A r \in Synced : Will(work.rows, << >>, r) <=> Alive(srv, feed, 0, r)
    <3>1. \A r \in Synced : r \in Row
      BY DEF Row
    <3>2. 0 \in 0..Len(feed)
      BY <1>2
    <3>3. \A r \in Synced : Will(work.rows, << >>, r) <=> srv[r] # 0
      BY <2>3, <3>1 DEF Will
    <3> QED
      BY <1>3, <3>2, <3>3
  <2>6. \A p \in Proc : pc[p] \notin {"rollback", "rollbackSave"}
    BY <1>1
  <2>7. txn # "aborted" /\ work.rows = committed.rows /\ \A r \in Row \ Synced : work.rows[r] = 0
    BY <1>1, <2>3
  <2> QED
    BY <2>2, <2>4, <2>5, <2>6, <2>7 DEF Healthy
<1>9. CauseInv
  BY <1>5, <1>8 DEF CauseInv
<1> QED
  BY <1>4, <1>6, <1>7, <1>9

\* The strengthening of FailsOnlyWithCause.
CInv == IInv /\ TypeOK /\ FeedInv /\ OrderInv /\ LsnInv /\ CauseInv

\* Every step keeps it.
LEMMA NextCInv == CInv /\ [Next]_vars => CInv'
<1> SUFFICES ASSUME CInv, [Next]_vars PROVE CInv'
  OBVIOUS
<1>1. IInv' /\ TypeOK'
  BY NextIInv, NextTypes DEF CInv
<1>2. IInv /\ TypeOK /\ FeedInv /\ OrderInv /\ LsnInv /\ CauseInv
  BY DEF CInv
<1>3. CASE UNCHANGED vars
  <2>1. UNCHANGED <<srv, feed, work, committed, txn, pc, todo, insertion, outcome, given, collapsed>>
    BY <1>3 DEF vars, dbVars, procVars, feedVars
  <2>2. FeedInv' /\ OrderInv' /\ LsnInv'
    BY <1>2, <2>1 DEF FeedInv, OrderInv, LsnInv
  <2>3. \A b \in 0..MaxBatches : /\ Good(b)' <=> Good(b)
                                 /\ Current(b)' <=> Current(b)
    BY <2>1 DEF Good, NoEdits, Cause, Current, Running, NoneAfter
  <2>4. \A b \in 0..MaxBatches : Healthy(b) => Healthy(b)'
    BY <2>1 DEF Healthy, Running, NoneAfter, Undone, Now
  <2>5. \A b \in 1..MaxBatches : b \in 0..MaxBatches
    BY BoundsNat
  <2>6. CauseInv'
    BY <1>2, <2>1, <2>3, <2>4, <2>5 DEF CauseInv
  <2> QED
    BY <1>1, <2>2, <2>6 DEF CInv
<1>4. ASSUME NEW p \in Proc, Moves(p) PROVE CInv'
  <2>1. OrderInv' /\ LsnInv' /\ CauseInv'
    BY <1>2, <1>4, MoveOrder, MoveLsn, MoveCause
  <2>2. UNCHANGED feedVars
    BY <1>2, <1>4, MoveIs
  <2>3. FeedInv'
    BY <1>2, <2>2 DEF FeedInv, feedVars
  <2> QED
    BY <1>1, <2>1, <2>3 DEF CInv
<1>5. CASE ServerWrite
  BY <1>1, <1>2, <1>5, WriteCauses DEF CInv
<1>6. CASE \E b \in 1..MaxBatches : Receive(b)
  BY <1>1, <1>2, <1>6, ReceiveCauses DEF CInv
<1>7. CASE \E b \in 1..MaxBatches : BatchStatement(b)
  BY <1>4, <1>7, ProcNames DEF Moves
<1>8. CASE \E e \in 1..MaxEdits : Edit(e)
  BY <1>1, <1>2, <1>8, EditCauses DEF CInv
<1>9. CASE \E p \in Proc : Statement(p)
  BY <1>4, <1>9 DEF Moves
<1>10. CASE Crash
  BY <1>1, <1>2, <1>10, CrashCauses DEF CInv
<1> QED
  BY <1>3, <1>5, <1>6, <1>7, <1>8, <1>9, <1>10 DEF Next

\* In a browser without edits a batch fails only if it or an earlier one was collapsed, deletes a row
\* together with one that refers to it, or was itself not applied.
THEOREM NoUncausedFailure == Spec => []FailsOnlyWithCause
<1>1. Init => CInv
  BY InitIInv, InitTypes, InitCauses DEF CInv
<1>2. CInv => FailsOnlyWithCause
  BY DEF CInv, CauseInv, Good, NoEdits, FailsOnlyWithCause, Batch
<1> QED
  BY <1>1, <1>2, NextCInv, PTL DEF Spec
=============================================================================
