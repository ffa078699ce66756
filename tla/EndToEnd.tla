------------------------------- MODULE EndToEnd -------------------------------
(***************************************************************************)
(* One row's way round: from the browser that edits it through             *)
(* OutgoingChangeProcessor, ChangeProcessor and the tables to              *)
(* change_history, and from there to every browser.  The modules           *)
(* ClientChanges, Replication, ServerChanges and LocalDatabase have the    *)
(* steps in between; here a message is not lost, change_history is what    *)
(* ChangeFeed promises, and a batch is delivered and applied as a whole.   *)
(*                                                                         *)
(* A version is the number of the edit that made it, which is also its     *)
(* updated_at: the clocks agree.  No browser sets client_id, so the server *)
(* sends a browser its own changes as well.  There are no deletes: the     *)
(* server executes none (see ClientChanges).                               *)
(* An operator named X_Y is X with a plausible defect.                     *)
(***************************************************************************)
EXTENDS Integers, Sequences, FiniteSets, SequencesExt

CONSTANTS
    Client,      \* browsers, signed in to one account
    Row,         \* ids of rows of one table
    MaxEdits,    \* bound: edits of the browsers and of the REST API
    MaxReloads   \* bound: times a browser queues unprocessed changes again

ASSUME Finite == IsFiniteSet(Client) /\ IsFiniteSet(Row)
ASSUME BoundsNat == MaxEdits \in Nat /\ MaxReloads \in Nat

Version == 1..MaxEdits
Absent == 0

VARIABLES
    server,     \* the domain table
    history,    \* change_history
    local,      \* the tables of the browsers
    changes,    \* LocalChanges that are not processed yet, oldest version first
    queue,      \* changeQueue
    messages,   \* clt_send_changes under way or in process
    answers,    \* srv_changes_applied under way: the rows they name
    received,   \* how much of change_history a browser has
    sent,       \* history: versions that were sent, or merged into one that was
    cause,      \* history: <<client, row>> with a cause to differ from the server
    edits, reloads  \* bounds

serverVars == <<server, history>>
outVars    == <<changes, queue, sent>>
vars == <<serverVars, outVars, local, messages, answers, received, cause, edits, reloads>>

Change == [row : Row, op : {"insert", "update"}, v : Version]
Message == [from : Client, rows : SUBSET Row, todo : SUBSET Change]

TypeOK ==
    /\ server \in [Row -> {Absent} \cup Version]
    /\ history \in Seq([row : Row, op : {"insert", "update"}, v : Version,
                        from : Client \cup {"api"}])
    /\ local \in [Client -> [Row -> {Absent} \cup Version]]
    /\ changes \in [Client -> SUBSET Change]
    /\ queue \in [Client -> SUBSET Version]
    /\ \A c \in Client : queue[c] \subseteq { e.v : e \in changes[c] }
    /\ messages \in Seq(Message)
    /\ \A i \in DOMAIN messages : { e.row : e \in messages[i].todo } \subseteq messages[i].rows
    /\ answers \in [Client -> Seq(SUBSET Row)]
    /\ received \in [Client -> 0..Len(history)]
    /\ sent \subseteq Version /\ cause \subseteq Client \X Row
    /\ edits \in 0..MaxEdits /\ reloads \in 0..MaxReloads

Init ==
    /\ server = [r \in Row |-> Absent] /\ history = << >>
    /\ local = [c \in Client |-> [r \in Row |-> Absent]]
    /\ changes = [c \in Client |-> {}] /\ queue = [c \in Client |-> {}]
    /\ messages = << >> /\ answers = [c \in Client |-> << >>]
    /\ received = [c \in Client |-> 0]
    /\ sent = {} /\ cause = {} /\ edits = 0 /\ reloads = 0

-----------------------------------------------------------------------------
(* A browser's edits on their way out.                                     *)

NewVersion == edits < MaxEdits /\ edits' = edits + 1

\* An id is new when its row is created.
Op(r, present) == IF present THEN "update" ELSE "insert"
MayCreate(r) == server[r] = Absent /\ \A c \in Client : local[c][r] = Absent

Edit_NotQueued(c, r) ==
    /\ NewVersion
    /\ local[c][r] # Absent \/ MayCreate(r)
    /\ local' = [local EXCEPT ![c][r] = edits']
    /\ changes' = [changes EXCEPT ![c] = @ \cup
          {[row |-> r, op |-> Op(r, local[c][r] # Absent), v |-> edits']}]
    /\ UNCHANGED <<queue, serverVars, messages, answers, received, sent, cause, reloads>>

\* A service writes the row and has the change tracked, with the whole row.
Edit(c, r) ==
    /\ NewVersion
    /\ local[c][r] # Absent \/ MayCreate(r)
    /\ local' = [local EXCEPT ![c][r] = edits']
    /\ changes' = [changes EXCEPT ![c] = @ \cup
          {[row |-> r, op |-> Op(r, local[c][r] # Absent), v |-> edits']}]
    /\ queue' = [queue EXCEPT ![c] = @ \cup {edits'}]
    /\ UNCHANGED <<serverVars, messages, answers, received, sent, cause, reloads>>

\* A restart, a connection or a timeout queues changes again that may have been
\* sent before.
LoadUnprocessedChanges(c) ==
    /\ reloads < MaxReloads /\ reloads' = reloads + 1
    /\ changes[c] # {}
    /\ \E S \in SUBSET { e.v : e \in changes[c] } :
          queue' = [queue EXCEPT ![c] = @ \cup S]
    /\ UNCHANGED <<serverVars, local, changes, messages, answers, received, sent, cause, edits>>

\* optimizeOutgoingChanges: of each row the operation of its first change and
\* the version of its last.
Optimized(S) ==
    LET Of(r)     == { e \in S : e.row = r }
        Oldest(r) == CHOOSE e \in Of(r) : \A x \in Of(r) : e.v <= x.v
        Newest(r) == CHOOSE e \in Of(r) : \A x \in Of(r) : x.v <= e.v
    IN  { [row |-> r, op |-> Oldest(r).op, v |-> Newest(r).v] : r \in { e.row : e \in S } }

ProcessChanges(c) ==
    /\ queue[c] # {} /\ queue' = [queue EXCEPT ![c] = {}]
    /\ LET todo == Optimized({ e \in changes[c] : e.v \in queue[c] }) IN
       messages' = Append(messages,
             [from |-> c, rows |-> { e.row : e \in todo }, todo |-> todo])
    /\ sent' = sent \cup queue[c]
    /\ UNCHANGED <<serverVars, local, changes, answers, received, cause, edits, reloads>>

-----------------------------------------------------------------------------
(* The server: messages of one client are processed side by side, and no   *)
(* statement looks at updated_at.                                          *)

Write(r, op, v, from) ==
    IF op = "update" /\ server[r] = Absent
    THEN UNCHANGED serverVars
    ELSE /\ server' = [server EXCEPT ![r] = v]
         /\ history' = Append(history, [row |-> r, op |-> Op(r, server[r] # Absent),
                                        v |-> v, from |-> from])

Execute(i) ==
    /\ \E e \in messages[i].todo :
          /\ Write(e.row, e.op, e.v, messages[i].from)
          /\ messages' = [messages EXCEPT ![i].todo = @ \ {e}]
    /\ UNCHANGED <<outVars, local, answers, received, cause, edits, reloads>>

SendChangesApplied(i) ==
    /\ messages[i].todo = {}
    /\ answers' = [answers EXCEPT ![messages[i].from] = Append(@, messages[i].rows)]
    /\ messages' = RemoveAt(messages, i)
    /\ UNCHANGED <<serverVars, outVars, local, received, cause, edits, reloads>>

\* A write that no browser made.
ApiWrite(r) ==
    /\ NewVersion
    /\ server[r] # Absent \/ MayCreate(r)
    /\ Write(r, Op(r, server[r] # Absent), edits', "api")
    /\ UNCHANGED <<outVars, local, messages, answers, received, cause, reloads>>

-----------------------------------------------------------------------------
(* What comes back to a browser.                                           *)

Named(c, e) == e.row \in Head(answers[c])

HandleChangesApplied_StaysQueued(c) ==
    /\ answers[c] # << >> /\ answers' = [answers EXCEPT ![c] = Tail(@)]
    /\ changes' = [changes EXCEPT ![c] = { e \in @ : ~Named(c, e) }]
    /\ UNCHANGED <<queue, cause, serverVars, sent, local, messages, received, edits, reloads>>

\* Every unprocessed change of the named rows is taken for done; one that was
\* never sent is a cause to differ (first cause).
HandleChangesApplied(c) ==
    /\ answers[c] # << >> /\ answers' = [answers EXCEPT ![c] = Tail(@)]
    /\ LET done == { e \in changes[c] : Named(c, e) } IN
       /\ changes' = [changes EXCEPT ![c] = @ \ done]
       /\ queue' = [queue EXCEPT ![c] = @ \ { e.v : e \in done }]
       /\ cause' = cause \cup { <<c, e.row>> : e \in { x \in done : x.v \notin sent } }
    /\ UNCHANGED <<serverVars, sent, local, messages, received, edits, reloads>>

\* deduplicateChanges, of the entries of one row: the one with the newest
\* updated_at; only what has that very time is merged into an insert.
Net(batch) ==
    LET newest == { i \in batch : \A j \in batch : history[j].v <= history[i].v }
    IN  history[CHOOSE i \in newest : \A j \in newest : i <= j]

\* Second cause: an older version came after a newer one, and the browser gets
\* the newer one.  Third cause: the row's insert is dropped for a newer update,
\* which finds no row.
Disordered(batch) == \E i, j \in batch : i < j /\ history[j].v < history[i].v
Missed(batch, present) == Net(batch).op = "update" /\ ~present

\* A batch is a stretch of places in change_history.
RowOf(batch, r) == { i \in batch : history[i].row = r }

Apply(c, batch, skip) ==
    LET rows == { history[i].row : i \in batch } \ skip
        present(r) == local[c][r] # Absent
    IN  /\ local' = [local EXCEPT ![c] = [r \in Row |->
              IF r \notin rows \/ Missed(RowOf(batch, r), present(r))
              THEN @[r] ELSE Net(RowOf(batch, r)).v]]
        /\ cause' = { x \in cause : x[1] # c \/ x[2] \notin rows }
              \cup { <<c, r>> : r \in { x \in rows : Disordered(RowOf(batch, x))
                                          \/ Missed(RowOf(batch, x), present(x)) } }

Deliver_NotOwn(c) ==
    \E n \in (received[c] + 1)..Len(history) :
        LET batch == (received[c] + 1)..n IN
        /\ received' = [received EXCEPT ![c] = n]
        /\ Apply(c, batch, { r \in Row : RowOf(batch, r) # {}
                                          /\ Net(RowOf(batch, r)).from = c })
        /\ UNCHANGED <<serverVars, outVars, messages, answers, edits, reloads>>

\* The next batch of change_history, as its rows come in.
Deliver(c) ==
    \E n \in (received[c] + 1)..Len(history) :
        /\ received' = [received EXCEPT ![c] = n]
        /\ Apply(c, (received[c] + 1)..n, {})
        /\ UNCHANGED <<serverVars, outVars, messages, answers, edits, reloads>>

-----------------------------------------------------------------------------
Next ==
    \/ \E c \in Client :
          \/ \E r \in Row : Edit(c, r)
          \/ LoadUnprocessedChanges(c) \/ ProcessChanges(c)
          \/ HandleChangesApplied(c) \/ Deliver(c)
    \/ \E i \in DOMAIN messages : Execute(i) \/ SendChangesApplied(i)
    \/ \E r \in Row : ApiWrite(r)

Spec == Init /\ [][Next]_vars

\* Queues, messages, statements and polls are served.
FairSpec ==
    /\ Spec
    /\ \A c \in Client :
          WF_vars(ProcessChanges(c)) /\ WF_vars(HandleChangesApplied(c)) /\ WF_vars(Deliver(c))
    /\ WF_vars(\E i \in DOMAIN messages : Execute(i) \/ SendChangesApplied(i))

-----------------------------------------------------------------------------
(* Correctness.                                                            *)

Same(c, r) == local[c][r] = server[r] \/ <<c, r>> \in cause

\* A browser that has received everything and has no change of the row left to
\* send or in process shows what the server has, unless one of the three causes
\* says why not; and a later batch with the row makes it good.  Being sent its
\* own changes is what makes this true.
Settled(c, r) ==
    /\ received[c] = Len(history)
    /\ \A e \in changes[c] : e.row = r => e.v \in sent
    /\ \A i \in DOMAIN messages : messages[i].from = c =>
          \A e \in messages[i].todo : e.row # r

Converged == \A c \in Client, r \in Row : Settled(c, r) => Same(c, r)

\* Once nobody edits, the browsers come to show what the server has, and go on
\* showing it, unless one of the causes says why not.
EventuallyConverged == <>[](\A c \in Client, r \in Row : Same(c, r))
=============================================================================
