---------------------------- MODULE ClientChanges ----------------------------
(***************************************************************************)
(* A client's own changes on their way to the server:                      *)
(* OutgoingChangeProcessor (apps/web/src/sync) keeps them in the table     *)
(* LocalChanges, merges them and sends them in batches; SyncDO and         *)
(* ChangeProcessor (apps/server/src/sync/client-changes.ts) write them to  *)
(* the domain tables and answer, several batches at a time.                *)
(*                                                                         *)
(* A change is named by its place in LocalChanges.  Inserts and updates    *)
(* carry the whole row, so a row's version is the last change written to   *)
(* it, 0 for the row as it was; ids of deleted rows are not used again.    *)
(* Other clients' writes are left out: nothing here compares with them.    *)
(* An operator named X_Y is X with a plausible defect.                     *)
(***************************************************************************)
EXTENDS Integers, Sequences, FiniteSets, SequencesExt

CONSTANTS
    Entity,      \* ids of rows
    Existing,    \* those the server and the client have at the start
    BatchLimit,  \* MAX_CHANGES_PER_BATCH
    LoadLimit,   \* most changes loadUnprocessedChanges reads
    MaxChanges,  \* bound: changes the user makes
    MaxJobs,     \* bound: messages SyncDO works on at the same time
    MaxNotices,  \* bound: new-changes requests and srv_live_start messages
    MaxFaults    \* bound: broken sockets, evictions, timeouts and failing queries,
                 \* together with restarts of the client application

ASSUME ExistingRows == Existing \subseteq Entity
ASSUME LimitsPositive == {BatchLimit, LoadLimit} \subseteq Nat \ {0}
ASSUME BoundsNat == {MaxChanges, MaxJobs, MaxNotices, MaxFaults} \subseteq Nat

VARIABLES
    changes,    \* LocalChanges: [e, op, done], done being processedSync
    link,       \* a socket is open
    toServer,   \* clt_send_changes under way: sets of changes
    toClient,   \* srv_changes_applied under way: sets of [e, v]
    queue,      \* changeQueue, in insertion order
    sent,       \* the keys of sentChanges
    timer,      \* processTimer is set
    loading,    \* loadUnprocessedChanges has been asked for
    pc, batch,  \* where processChanges stands, and the changes it works on
    server,     \* the version of each row in the server's tables, or Absent
    jobs,       \* the clt_send_changes messages SyncDO works on
    lock,       \* isProcessingClientChanges
    pending,    \* number of pendingLiveUpdates
    overtaken,  \* history variable: changes marked as processed by the answer
                \* to a message that was sent without them
    tried,      \* history variable: changes the server executed a statement for
    notices, reloads, faults    \* bound counters

netVars     == <<link, toServer, toClient>>
clientVars  == <<queue, sent, timer, loading, pc, batch>>
serverVars  == <<server, jobs, lock, pending>>
historyVars == <<overtaken, tried>>
bounds      == <<notices, reloads, faults>>
vars == <<changes, netVars, clientVars, serverVars, historyVars, bounds>>

Absent == -1
Op == {"insert", "update", "delete"}
ChangeId == 1..MaxChanges

\* A change as it is sent: under the id of the first one merged into it, with the
\* row as the last one left it.
Sent == [id : ChangeId, e : Entity, op : Op, v : ChangeId]
Answer == [e : Entity, v : ChangeId]

TypeOK ==
    /\ changes \in Seq([e : Entity, op : Op, done : BOOLEAN])
    /\ link \in BOOLEAN
    /\ toServer \in Seq(SUBSET Sent) /\ toClient \in Seq(SUBSET Answer)
    /\ queue \in Seq(ChangeId) /\ IsInjective(queue)
    /\ sent \subseteq ChangeId
    /\ timer \in BOOLEAN /\ loading \in BOOLEAN
    /\ pc \in {"idle", "find", "send"} /\ batch \subseteq ChangeId
    /\ server \in [Entity -> {Absent} \cup 0..MaxChanges]
    /\ jobs \in Seq([pc : {"apply", "settle"}, todo : SUBSET Sent, answer : SUBSET Answer])
    /\ lock \in BOOLEAN /\ pending \in Nat
    /\ overtaken \subseteq ChangeId /\ tried \subseteq ChangeId
    /\ notices \in Nat /\ reloads \in Nat /\ faults \in Nat

Init ==
    /\ changes = << >>
    /\ link = FALSE /\ toServer = << >> /\ toClient = << >>
    /\ queue = << >> /\ sent = {} /\ timer = FALSE /\ loading = TRUE
    /\ pc = "idle" /\ batch = {}
    /\ server = [e \in Entity |-> IF e \in Existing THEN 0 ELSE Absent]
    /\ jobs = << >> /\ lock = FALSE /\ pending = 0
    /\ overtaken = {} /\ tried = {}
    /\ notices = 0 /\ reloads = 0 /\ faults = 0

Fault == faults + reloads < MaxFaults /\ faults' = faults + 1

\* The changes of a row, and those of any row that are not processed yet.
Of(e) == { i \in DOMAIN changes : changes[i].e = e }
Undone == { i \in DOMAIN changes : ~changes[i].done }
First(S) == CHOOSE i \in S : \A j \in S : i <= j
Final(S) == CHOOSE i \in S : \A j \in S : j <= i

-----------------------------------------------------------------------------
(* OutgoingChangeProcessor.                                                *)

\* scheduleProcessing, once queue' and pc' are known.
ScheduleProcessing == timer' = (timer \/ (pc' = "idle" /\ queue' # << >>))

InOrder(S) ==
    CHOOSE s \in [1..Cardinality(S) -> S] : \A i, j \in DOMAIN s : i < j => s[i] < s[j]

Enqueue_Again(S) == queue' = queue \o InOrder(S)
Enqueue(S) == queue' = queue \o InOrder(S \ ToSet(queue))

\* The services write the row and then have the change tracked.
Present(e) == IF Of(e) = {} THEN e \in Existing ELSE changes[Final(Of(e))].op # "delete"

TrackChange(e, op) ==
    /\ Len(changes) < MaxChanges
    /\ IF op = "insert" THEN e \notin Existing /\ Of(e) = {} ELSE Present(e)
    /\ changes' = Append(changes, [e |-> e, op |-> op, done |-> FALSE])
    /\ Enqueue({Len(changes')})
    /\ UNCHANGED pc /\ ScheduleProcessing
    /\ UNCHANGED <<netVars, sent, loading, batch, serverVars, historyVars, bounds>>

\* On construction, when the socket opens, and when the server says that the
\* client is live.
LoadUnprocessedChanges ==
    /\ loading /\ loading' = FALSE
    /\ LET found == { i \in Undone : Cardinality({j \in Undone : j < i}) < LoadLimit }
       IN  Enqueue(found \ sent)
    /\ UNCHANGED pc /\ ScheduleProcessing
    /\ UNCHANGED <<changes, netVars, sent, batch, serverVars, historyVars, bounds>>

LiveStart ==
    /\ link /\ ~loading /\ loading' = TRUE
    /\ notices < MaxNotices /\ notices' = notices + 1
    /\ UNCHANGED <<changes, netVars, queue, sent, timer, pc, batch, serverVars,
                   historyVars, reloads, faults>>

\* The timer fires.  Without connection the queue stays as it is.
ProcessChanges ==
    /\ timer /\ timer' = FALSE
    /\ IF pc # "idle" \/ queue = << >> \/ ~link
       THEN UNCHANGED <<queue, pc, batch>>
       ELSE LET n == IF Len(queue) < BatchLimit THEN Len(queue) ELSE BatchLimit
            IN  /\ batch' = ToSet(SubSeq(queue, 1, n))
                /\ queue' = SubSeq(queue, n + 1, Len(queue))
                /\ pc' = "find"
    /\ UNCHANGED <<changes, netVars, sent, loading, serverVars, historyVars, bounds>>

EndProcessing_NoReschedule(justSent) ==
    /\ pc' = "idle" /\ batch' = {}
    /\ sent' = sent \cup justSent
    /\ UNCHANGED <<queue, timer, faults>>

\* The finally block: changes that were sent more than CHANGE_TIMEOUT ago go back
\* into the queue.  Nothing else looks at the times.
EndProcessing(justSent) ==
    /\ pc' = "idle" /\ batch' = {}
    /\ \E expired \in SUBSET (sent \ justSent) :
          /\ IF expired = {} THEN UNCHANGED faults ELSE Fault
          /\ sent' = (sent \cup justSent) \ expired
          /\ Enqueue(expired)
    /\ ScheduleProcessing

FindChanges ==
    /\ pc = "find"
    /\ IF batch \cap Undone = {}
       THEN EndProcessing({})
       ELSE /\ batch' = batch \cap Undone
            /\ pc' = "send"
            /\ UNCHANGED <<queue, sent, timer, faults>>
    /\ UNCHANGED <<changes, netVars, loading, serverVars, historyVars, notices, reloads>>

FindError ==
    /\ pc = "find"
    /\ Fault
    /\ pc' = "idle" /\ batch' = {}
    /\ Enqueue(batch) /\ ScheduleProcessing
    /\ UNCHANGED <<changes, netVars, sent, loading, serverVars, historyVars,
                   notices, reloads>>

\* optimizeOutgoingChanges: one change per row.  A row inserted and deleted in one
\* batch is left out.  The changes merged away should be marked as processed, but
\* are looked for under a row id equal to their own: none is.
Optimized(rows) ==
    LET Mine(e) == rows \cap Of(e)
        Deleted(e) == \E i \in Mine(e) : changes[i].op = "delete"
        Merged(e) == [id |-> First(Mine(e)), e |-> e, v |-> Final(Mine(e)),
                      op |-> IF Deleted(e) THEN "delete" ELSE changes[First(Mine(e))].op]
        Cancels(e) == Deleted(e) /\ changes[First(Mine(e))].op = "insert"
    IN  { Merged(e) : e \in { x \in Entity : Mine(x) # {} /\ ~Cancels(x) } }

\* A socket that has closed in the meantime takes the message without an error.
SendChanges ==
    /\ pc = "send"
    /\ LET message == Optimized(batch) IN
       /\ toServer' = IF link /\ message # {} THEN Append(toServer, message) ELSE toServer
       /\ EndProcessing({ c.id : c \in message })
    /\ UNCHANGED <<changes, link, toClient, loading, serverVars, historyVars,
                   notices, reloads>>

\* The answer names rows: every unprocessed change of these is marked, and
\* sentChanges, which is keyed by change, keeps its entries.
HandleChangesApplied ==
    /\ toClient # << >>
    /\ LET answer == Head(toClient)
           marked(a) == Undone \cap Of(a.e)
       IN  /\ changes' = [i \in DOMAIN changes |->
                 IF \E a \in answer : i \in marked(a)
                 THEN [changes[i] EXCEPT !.done = TRUE] ELSE changes[i]]
           /\ overtaken' = overtaken \cup
                 UNION { {i \in marked(a) : i > a.v} : a \in answer }
    /\ toClient' = Tail(toClient)
    /\ UNCHANGED <<link, toServer, clientVars, serverVars, tried, bounds>>

Connect ==
    /\ ~link /\ link' = TRUE
    /\ loading' = TRUE
    /\ UNCHANGED <<changes, toServer, toClient, queue, sent, timer, pc, batch,
                   serverVars, historyVars, bounds>>

CloseLink == link' = FALSE /\ toServer' = << >> /\ toClient' = << >>

Disconnect ==
    /\ link
    /\ Fault
    /\ CloseLink
    /\ UNCHANGED <<changes, clientVars, serverVars, historyVars, notices, reloads>>

\* LocalChanges survives a restart of the application, its memory does not.
Reload ==
    /\ faults + reloads < MaxFaults /\ reloads' = reloads + 1
    /\ CloseLink
    /\ queue' = << >> /\ sent' = {} /\ timer' = FALSE /\ loading' = TRUE
    /\ pc' = "idle" /\ batch' = {}
    /\ UNCHANGED <<changes, serverVars, historyVars, notices, faults>>

-----------------------------------------------------------------------------
(* SyncDO and ChangeProcessor.                                             *)

AnswerTo(message) == { [e |-> c.e, v |-> c.v] : c \in message }

WebSocketMessage_AnswersFirst ==
    /\ toServer # << >> /\ Len(jobs) < MaxJobs
    /\ jobs' = Append(jobs, [pc |-> "apply", todo |-> Head(toServer), answer |-> {}])
    /\ toClient' = Append(toClient, AnswerTo(Head(toServer)))
    /\ toServer' = Tail(toServer)
    /\ lock' = TRUE
    /\ UNCHANGED <<changes, link, clientVars, server, pending, historyVars, bounds>>

\* webSocketMessage does not wait for the message before.
WebSocketMessage ==
    /\ toServer # << >> /\ Len(jobs) < MaxJobs
    /\ jobs' = Append(jobs, [pc |-> "apply", todo |-> Head(toServer),
                             answer |-> AnswerTo(Head(toServer))])
    /\ toServer' = Tail(toServer)
    /\ lock' = TRUE
    /\ UNCHANGED <<changes, link, toClient, clientVars, server, pending, historyVars, bounds>>

\* executeInsert, executeUpdate, executeDelete.  A delete compares updated_at with
\* data.updated_at, which the client does not send: it deletes nothing.
Written(c) ==
    CASE c.op = "insert" -> c.v
      [] c.op = "update" -> IF server[c.e] = Absent THEN Absent ELSE c.v
      [] c.op = "delete" -> server[c.e]

Execute(j) ==
    /\ jobs[j].pc = "apply"
    /\ \E c \in jobs[j].todo :
          /\ server' = [server EXCEPT ![c.e] = Written(c)]
          /\ jobs' = [jobs EXCEPT ![j].todo = @ \ {c}]
          /\ tried' = tried \cup {c.v}
    /\ UNCHANGED <<changes, netVars, clientVars, lock, pending, overtaken, bounds>>

\* A failing statement is logged; its change counts as skipped, not as failed.
ExecuteError(j) ==
    /\ jobs[j].pc = "apply"
    /\ Fault
    /\ \E c \in jobs[j].todo :
          /\ jobs' = [jobs EXCEPT ![j].todo = @ \ {c}]
          /\ tried' = tried \cup {c.v}
    /\ UNCHANGED <<changes, netVars, clientVars, server, lock, pending, overtaken,
                   notices, reloads>>

\* The answer is always a success, and lost without a socket.
SendChangesApplied(j) ==
    /\ jobs[j].pc = "apply" /\ jobs[j].todo = {}
    /\ jobs' = [jobs EXCEPT ![j].pc = "settle"]
    /\ toClient' = IF link THEN Append(toClient, jobs[j].answer) ELSE toClient
    /\ UNCHANGED <<changes, link, toServer, clientVars, server, lock, pending,
                   historyVars, bounds>>

\* The lock does not count: the first message that is through releases it.
Release ==
    /\ lock' = FALSE
    /\ pending' = IF lock THEN 0 ELSE pending

NotifyClientChangesComplete_KeepsUpdates(j) ==
    /\ jobs[j].pc = "settle"
    /\ jobs' = RemoveAt(jobs, j)
    /\ lock' = FALSE
    /\ UNCHANGED <<changes, netVars, clientVars, server, pending, historyVars, bounds>>

\* 500 ms later.
NotifyClientChangesComplete(j) ==
    /\ jobs[j].pc = "settle"
    /\ jobs' = RemoveAt(jobs, j)
    /\ Release
    /\ UNCHANGED <<changes, netVars, clientVars, server, historyVars, bounds>>

\* The database cannot be reached: no statement is executed, no answer sent.
ConnectError(j) ==
    /\ jobs[j].pc = "apply"
    /\ AnswerTo(jobs[j].todo) = jobs[j].answer
    /\ Fault
    /\ jobs' = RemoveAt(jobs, j)
    /\ Release
    /\ UNCHANGED <<changes, netVars, clientVars, server, historyVars, notices, reloads>>

\* handleNewChanges: a live update waits while client changes are in process.
NewChanges ==
    /\ notices < MaxNotices /\ notices' = notices + 1
    /\ pending' = IF lock THEN pending + 1 ELSE pending
    /\ UNCHANGED <<changes, netVars, clientVars, server, jobs, lock, historyVars,
                   reloads, faults>>

Evict ==
    /\ lock \/ jobs # << >>
    /\ Fault
    /\ CloseLink
    /\ jobs' = << >>
    /\ lock' = FALSE /\ pending' = 0
    /\ UNCHANGED <<changes, clientVars, server, historyVars, notices, reloads>>

-----------------------------------------------------------------------------
JobStep(j) ==
    Execute(j) \/ SendChangesApplied(j) \/ NotifyClientChangesComplete(j)

ClientStep ==
    LoadUnprocessedChanges \/ ProcessChanges \/ FindChanges \/ SendChanges

Next ==
    \/ \E e \in Entity, op \in Op : TrackChange(e, op)
    \/ ClientStep \/ LiveStart \/ FindError \/ HandleChangesApplied
    \/ Connect \/ Disconnect \/ Reload
    \/ WebSocketMessage
    \/ \E j \in DOMAIN jobs : JobStep(j) \/ ExecuteError(j) \/ ConnectError(j)
    \/ NewChanges \/ Evict

Spec == Init /\ [][Next]_vars

\* The client connects again, timers fire and promises settle, on both sides.
FairSpec ==
    /\ Spec
    /\ WF_vars(Connect) /\ WF_vars(HandleChangesApplied)
    /\ WF_vars(ClientStep)
    /\ WF_vars(WebSocketMessage) /\ WF_vars(\E j \in DOMAIN jobs : JobStep(j))

-----------------------------------------------------------------------------
(* Correctness.                                                            *)

\* A change is marked as processed only when the server has executed a statement
\* for it or for a later change of its row, or by the answer to a message about
\* its row that was sent without it; not when messages, answers or the memory of
\* either side are lost, or a batch is merged, repeated or reordered.
DoneWasTried ==
    \A i \in DOMAIN changes \ overtaken :
        changes[i].done => \E j \in tried \cap Of(changes[i].e) : i <= j

\* SyncDO is never left with a lock nobody will release or with live updates
\* nobody will process, although the lock is one flag for several messages.
UpdatesNotStranded ==
    /\ lock => jobs # << >>
    /\ pending > 0 => lock

\* Without faults every change is processed in the end, across restarts of the
\* application, unless its row was inserted and deleted before it was sent.
ChangesProcessed ==
    \A i \in ChangeId :
        (i \in Undone) ~> (i \notin Undone \/ faults > 0 \/
            \E j, k \in Undone \cap Of(changes[i].e) :
                changes[j].op = "insert" /\ changes[k].op = "delete")

\* docs/CLIENT_CHANGES_IMPLEMENTATION.md: "Persistent queue ensures no changes
\* lost".  When all changes of a row are processed and none is under way, the
\* server has the row as the client left it.
NoChangeLost ==
    \A e \in Entity :
        Of(e) # {} /\ Of(e) \cap Undone = {} /\ toServer = << >>
            /\ (\A j \in DOMAIN jobs : jobs[j].pc # "apply")
        => server[e] = IF Present(e) THEN Final(Of(e)) ELSE Absent
=============================================================================
