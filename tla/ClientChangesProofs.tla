-------------------------- MODULE ClientChangesProofs --------------------------
(***************************************************************************)
(* Proofs about ClientChanges for any rows, limits and bounds: that the    *)
(* lock and the live updates waiting behind it are never left alone, that  *)
(* a change is marked as processed only after the server tried it, and the *)
(* types, among them that no change is queued twice.                       *)
(***************************************************************************)
EXTENDS ClientChanges, FiniteNumbers

-----------------------------------------------------------------------------
(* The lock of SyncDO.                                                     *)

\* At the start there is no lock and no waiting update.
LEMMA InitNotStranded == Init => UpdatesNotStranded
  BY DEF Init, UpdatesNotStranded

\* Whoever ends a stretch of work releases the lock and the updates together.
LEMMA NextNotStranded ==
    ASSUME UpdatesNotStranded, [Next]_vars
    PROVE  UpdatesNotStranded'
<1> USE DEF UpdatesNotStranded
<1>1. ASSUME UNCHANGED <<jobs, lock, pending>> PROVE UpdatesNotStranded'
  BY <1>1
<1>2. CASE WebSocketMessage
  <2>1. jobs' # << >> /\ lock' /\ pending' = pending
    BY <1>2 DEF WebSocketMessage
  <2> QED
    BY <2>1
<1>3. ASSUME NEW j \in DOMAIN jobs, Execute(j) PROVE UpdatesNotStranded'
  BY <1>3 DEF Execute
<1>4. ASSUME NEW j \in DOMAIN jobs, ExecuteError(j) PROVE UpdatesNotStranded'
  BY <1>4 DEF ExecuteError
<1>5. ASSUME NEW j \in DOMAIN jobs, SendChangesApplied(j) PROVE UpdatesNotStranded'
  BY <1>5 DEF SendChangesApplied
<1>6. ASSUME NEW j \in DOMAIN jobs, NotifyClientChangesComplete(j) \/ ConnectError(j)
      PROVE  UpdatesNotStranded'
  BY <1>6 DEF NotifyClientChangesComplete, ConnectError, Release
<1>7. CASE NewChanges
  BY <1>7 DEF NewChanges
<1>8. CASE Evict
  BY <1>8 DEF Evict
<1> QED
  BY <1>1, <1>2, <1>3, <1>4, <1>5, <1>6, <1>7, <1>8
  DEF Next, vars, serverVars, JobStep, ClientStep, TrackChange, LoadUnprocessedChanges,
      ProcessChanges, FindChanges, SendChanges, LiveStart, FindError,
      HandleChangesApplied, Connect, Disconnect, Reload

\* isProcessingClientChanges never outlives the messages in process, and
\* pendingLiveUpdates never waits without it, whatever overlaps or fails.
THEOREM NothingStranded == Spec => []UpdatesNotStranded
  BY InitNotStranded, NextNotStranded, PTL DEF Spec

-----------------------------------------------------------------------------
(* What messages and jobs say of the changes they are about.               *)

TrackedChange == [e : Entity, op : Op, done : BOOLEAN]

\* A change in a message names a tracked change of its row.
SentChange == { c \in [id : Nat, e : Entity, op : Op, v : Nat] : c.v \in Of(c.e) }

\* So does an answer, and once it is sent the server has tried that change.
AnyAnswer == { a \in [e : Entity, v : Nat] : a.v \in Of(a.e) }
TriedAnswer == { a \in AnyAnswer : a.v \in tried }

\* Until then the job still has it to do.
Job ==
    { j \in [pc : {"apply", "settle"}, todo : SUBSET SentChange, answer : SUBSET AnyAnswer] :
        \A a \in j.answer : a.v \in tried \/ \E c \in j.todo : c.v = a.v }

WireInv ==
    /\ changes \in Seq(TrackedChange)
    /\ pc = "send" => batch \subseteq DOMAIN changes
    /\ toServer \in Seq(SUBSET SentChange)
    /\ toClient \in Seq(SUBSET TriedAnswer)
    /\ jobs \in Seq(Job)

\* Tracked changes keep their place and row, tried ones stay tried: what held of
\* a message goes on holding.
LEMMA WireMonotone ==
    ASSUME WireInv,
           changes' \in Seq(TrackedChange),
           DOMAIN changes \subseteq DOMAIN changes',
           \A i \in DOMAIN changes : changes'[i].e = changes[i].e,
           tried \subseteq tried'
    PROVE  /\ \A e : Of(e) \subseteq Of(e)'
           /\ SentChange \subseteq SentChange'
           /\ AnyAnswer \subseteq AnyAnswer'
           /\ TriedAnswer \subseteq TriedAnswer'
           /\ Job \subseteq Job'
<1>1. \A e : Of(e) \subseteq Of(e)'
  BY DEF Of
<1>2. SentChange \subseteq SentChange' /\ AnyAnswer \subseteq AnyAnswer'
  BY <1>1 DEF SentChange, AnyAnswer
<1>3. TriedAnswer \subseteq TriedAnswer'
  BY <1>2 DEF TriedAnswer
<1>4. ASSUME NEW j \in Job PROVE j \in Job'
  <2>1. /\ j \in [pc : {"apply", "settle"}, todo : SUBSET SentChange, answer : SUBSET AnyAnswer]
        /\ \A a \in j.answer : a.v \in tried \/ \E c \in j.todo : c.v = a.v
    BY DEF Job
  <2>2. j \in [pc : {"apply", "settle"}, todo : SUBSET SentChange', answer : SUBSET AnyAnswer']
    BY <2>1, <1>2
  <2> QED
    BY <2>1, <2>2 DEF Job
<1> QED
  BY <1>1, <1>2, <1>3, <1>4

\* A step that leaves changes, tried and the jobs alone, and puts no message on
\* the wire, keeps WireInv.
LEMMA WireUnchanged ==
    ASSUME WireInv, UNCHANGED <<changes, tried, jobs>>,
           toServer' \in {toServer, << >>}, toClient' \in {toClient, << >>},
           pc' = "send" => batch' \subseteq DOMAIN changes
    PROVE  WireInv'
<1>1. /\ SentChange' = SentChange /\ AnyAnswer' = AnyAnswer
      /\ TriedAnswer' = TriedAnswer /\ Job' = Job
  BY DEF Job, TriedAnswer, AnyAnswer, SentChange, Of
<1>2. toServer' \in Seq(SUBSET SentChange) /\ toClient' \in Seq(SUBSET TriedAnswer)
  <2>1. << >> \in Seq(SUBSET SentChange) /\ << >> \in Seq(SUBSET TriedAnswer)
    OBVIOUS
  <2>2. toServer \in Seq(SUBSET SentChange) /\ toClient \in Seq(SUBSET TriedAnswer)
    BY DEF WireInv
  <2> QED
    BY <2>1, <2>2
<1> QED
  BY <1>1, <1>2 DEF WireInv

\* A message is made of tracked changes: of each row it has the last one.
LEMMA OptimizedSent ==
    ASSUME WireInv, NEW rows \in SUBSET (DOMAIN changes)
    PROVE  Optimized(rows) \in SUBSET SentChange
<1> DEFINE Mine(e) == rows \cap Of(e)
           Deleted(e) == \E i \in Mine(e) : changes[i].op = "delete"
           Merged(e) == [id |-> First(Mine(e)), e |-> e, v |-> Final(Mine(e)),
                         op |-> IF Deleted(e) THEN "delete" ELSE changes[First(Mine(e))].op]
<1>1. ASSUME NEW e \in Entity, Mine(e) # {} PROVE Merged(e) \in SentChange
  <2>1. Mine(e) \in SUBSET (DOMAIN changes)
    OBVIOUS
  <2>2. IsFiniteSet(Mine(e)) /\ Mine(e) \in SUBSET Int /\ changes \in Seq(TrackedChange)
    BY <2>1, PlacesFinite DEF WireInv
  <2>3. (\E m \in Mine(e) : \A x \in Mine(e) : x <= m) /\ (\E m \in Mine(e) : \A x \in Mine(e) : m <= x)
    <3> HIDE DEF Mine
    <3> QED
      BY <2>2, <1>1, GreatestExists, LeastExists
  <2>4. First(Mine(e)) \in Mine(e) /\ Final(Mine(e)) \in Mine(e)
    <3> HIDE DEF Mine
    <3> QED
      BY <2>3 DEF First, Final
  <2>5. First(Mine(e)) \in DOMAIN changes /\ Final(Mine(e)) \in Of(e) /\ Final(Mine(e)) \in DOMAIN changes
    BY <2>4
  <2>6. First(Mine(e)) \in Nat /\ Final(Mine(e)) \in Nat /\ changes[First(Mine(e))].op \in Op
    <3>1. DOMAIN changes = 1..Len(changes) /\ Len(changes) \in Nat
      BY <2>2
    <3>2. \A i \in DOMAIN changes : changes[i] \in TrackedChange
      BY <2>2
    <3>3. \A i \in DOMAIN changes : changes[i].op \in Op
      BY <3>2 DEF TrackedChange
    <3> HIDE DEF Mine
    <3> QED
      BY <2>5, <3>1, <3>3
  <2>7. (IF Deleted(e) THEN "delete" ELSE changes[First(Mine(e))].op) \in Op
    BY <2>6 DEF Op
  <2> HIDE DEF Mine, Deleted
  <2> QED
    BY <2>5, <2>6, <2>7 DEF SentChange
<1>2. ASSUME NEW c \in Optimized(rows) PROVE \E e \in Entity : Mine(e) # {} /\ c = Merged(e)
  BY DEF Optimized
<1> HIDE DEF Mine, Merged
<1> QED
  BY <1>1, <1>2

-----------------------------------------------------------------------------
(* No step breaks WireInv.                                                 *)

\* At the start nothing is tracked and nothing under way.
LEMMA InitWire == Init => WireInv
<1> SUFFICES ASSUME Init PROVE WireInv
  OBVIOUS
<1>1. /\ << >> \in Seq(TrackedChange) /\ << >> \in Seq(SUBSET SentChange)
      /\ << >> \in Seq(SUBSET TriedAnswer) /\ << >> \in Seq(Job)
  OBVIOUS
<1> QED
  BY <1>1 DEF Init, WireInv

\* Sequences on the wire are still good when what they say goes on holding.
LEMMA WireCarried ==
    ASSUME WireInv, NEW A, NEW B, A \subseteq B
    PROVE  /\ \A s \in Seq(A) : s \in Seq(B)
           /\ \A s \in Seq(SUBSET A) : s \in Seq(SUBSET B)
<1>1. SUBSET A \subseteq SUBSET B
  OBVIOUS
<1> QED
  BY <1>1, SeqMonotone

\* A new change is tracked at the end.
LEMMA TrackChangeWire ==
    ASSUME WireInv, NEW e \in Entity, NEW op \in Op, TrackChange(e, op)
    PROVE  WireInv'
<1>1. changes' = Append(changes, [e |-> e, op |-> op, done |-> FALSE])
  BY DEF TrackChange
<1>2. changes \in Seq(TrackedChange) /\ [e |-> e, op |-> op, done |-> FALSE] \in TrackedChange
  BY DEF WireInv, TrackedChange
<1>3. /\ changes' \in Seq(TrackedChange)
      /\ DOMAIN changes \subseteq DOMAIN changes'
      /\ \A i \in DOMAIN changes : changes'[i].e = changes[i].e
  <2>1. DOMAIN changes = 1..Len(changes) /\ Len(changes) \in Nat
    BY <1>2
  <2>2. /\ changes' \in Seq(TrackedChange) /\ Len(changes') = Len(changes) + 1
        /\ \A i \in 1..Len(changes) : changes'[i] = changes[i]
    BY <1>1, <1>2
  <2>3. DOMAIN changes' = 1..(Len(changes) + 1)
    BY <2>2
  <2> QED
    BY <2>1, <2>2, <2>3
<1>4. UNCHANGED <<toServer, toClient, jobs, pc, batch, tried>>
  BY DEF TrackChange, netVars, serverVars, historyVars
<1>5. SentChange \subseteq SentChange' /\ TriedAnswer \subseteq TriedAnswer' /\ Job \subseteq Job'
  BY <1>3, <1>4, WireMonotone
<1>6. toServer' \in Seq(SUBSET SentChange') /\ toClient' \in Seq(SUBSET TriedAnswer')
      /\ jobs' \in Seq(Job')
  BY <1>4, <1>5, WireCarried DEF WireInv
<1> QED
  BY <1>3, <1>4, <1>6 DEF WireInv

\* A batch is sent.
LEMMA SendChangesWire ==
    ASSUME WireInv, SendChanges
    PROVE  WireInv'
<1>1. /\ pc = "send" /\ batch \in SUBSET (DOMAIN changes)
      /\ toServer' \in {toServer, Append(toServer, Optimized(batch))}
      /\ pc' = "idle" /\ UNCHANGED <<changes, toClient, jobs, tried>>
  BY DEF SendChanges, EndProcessing, WireInv, serverVars, historyVars
<1>2. Optimized(batch) \in SUBSET SentChange
  BY <1>1, OptimizedSent
<1>3. toServer' \in Seq(SUBSET SentChange)
  <2>1. toServer \in Seq(SUBSET SentChange)
    BY DEF WireInv
  <2>2. Append(toServer, Optimized(batch)) \in Seq(SUBSET SentChange)
    BY <1>2, <2>1, SeqTypes
  <2> QED
    BY <1>1, <2>1, <2>2
<1>4. SentChange' = SentChange /\ TriedAnswer' = TriedAnswer /\ Job' = Job
  BY <1>1 DEF SentChange, TriedAnswer, AnyAnswer, Job, Of
<1> QED
  BY <1>1, <1>3, <1>4 DEF WireInv

\* Marking changes as processed moves none.
LEMMA HandleChangesAppliedWire ==
    ASSUME WireInv, HandleChangesApplied
    PROVE  WireInv'
<1>1. /\ toClient # << >> /\ toClient' = Tail(toClient)
      /\ UNCHANGED <<toServer, jobs, pc, batch, tried>>
  BY DEF HandleChangesApplied, clientVars, serverVars
<1> DEFINE hit(i) == \E a \in Head(toClient) : i \in Undone \cap Of(a.e)
<1>2. changes' = [i \in DOMAIN changes |->
                    IF hit(i) THEN [changes[i] EXCEPT !.done = TRUE] ELSE changes[i]]
  BY DEF HandleChangesApplied
<1>3. changes \in Seq(TrackedChange)
  BY DEF WireInv
<1>4. DOMAIN changes = 1..Len(changes) /\ Len(changes) \in Nat
      /\ \A i \in DOMAIN changes : changes[i] \in TrackedChange
  BY <1>3
<1>5. ASSUME NEW i \in DOMAIN changes
      PROVE  changes'[i] \in TrackedChange /\ changes'[i].e = changes[i].e
  <2> HIDE DEF hit
  <2> QED
    BY <1>2, <1>4 DEF TrackedChange
<1>6. DOMAIN changes' = DOMAIN changes
  BY <1>2
<1>7. changes' \in Seq(TrackedChange)
  <2>1. changes' \in [1..Len(changes) -> TrackedChange]
    <3> HIDE DEF hit
    <3> QED
      BY <1>2, <1>4, <1>5
  <2> QED
    BY <1>4, <2>1
<1>8. SentChange \subseteq SentChange' /\ TriedAnswer \subseteq TriedAnswer' /\ Job \subseteq Job'
  BY <1>1, <1>5, <1>6, <1>7, WireMonotone
<1>9. toServer' \in Seq(SUBSET SentChange') /\ toClient' \in Seq(SUBSET TriedAnswer')
      /\ jobs' \in Seq(Job')
  <2>1. toClient' \in Seq(SUBSET TriedAnswer)
    BY <1>1, SeqTypes DEF WireInv
  <2> QED
    BY <1>1, <1>8, <2>1, WireCarried DEF WireInv
<1> QED
  BY <1>1, <1>6, <1>7, <1>9 DEF WireInv

\* A new job still has to do all that its answer will name.
LEMMA WebSocketMessageWire ==
    ASSUME WireInv, WebSocketMessage
    PROVE  WireInv'
<1> DEFINE message == Head(toServer)
<1>1. /\ toServer # << >> /\ toServer' = Tail(toServer)
      /\ jobs' = Append(jobs, [pc |-> "apply", todo |-> message, answer |-> AnswerTo(message)])
      /\ UNCHANGED <<changes, toClient, pc, batch, tried>>
  BY DEF WebSocketMessage, clientVars, historyVars
<1>2. message \in SUBSET SentChange /\ toServer' \in Seq(SUBSET SentChange)
  BY <1>1, SeqTypes DEF WireInv
<1> HIDE DEF message
<1>3. AnswerTo(message) \in SUBSET AnyAnswer
  BY <1>2 DEF AnswerTo, SentChange, AnyAnswer
<1>4. \A a \in AnswerTo(message) : \E c \in message : c.v = a.v
  BY DEF AnswerTo
<1>5. [pc |-> "apply", todo |-> message, answer |-> AnswerTo(message)] \in Job
  BY <1>2, <1>3, <1>4 DEF Job
<1>6. jobs' \in Seq(Job)
  BY <1>1, <1>5, SeqTypes DEF WireInv
<1>7. SentChange' = SentChange /\ TriedAnswer' = TriedAnswer /\ Job' = Job
  BY <1>1 DEF SentChange, TriedAnswer, AnyAnswer, Job, Of
<1> QED
  BY <1>1, <1>2, <1>6, <1>7 DEF WireInv

\* A change leaves a job's list only when it has been tried, be it in vain.
LEMMA ExecuteWire ==
    ASSUME WireInv, NEW j \in DOMAIN jobs, Execute(j) \/ ExecuteError(j)
    PROVE  WireInv'
<1>1. PICK c \in jobs[j].todo : jobs' = [jobs EXCEPT ![j].todo = @ \ {c}]
                                /\ tried' = tried \cup {c.v}
  BY DEF Execute, ExecuteError
<1>2. UNCHANGED <<changes, toServer, toClient, pc, batch>>
  BY DEF Execute, ExecuteError, netVars, clientVars
<1>3. jobs \in Seq(Job) /\ changes \in Seq(TrackedChange)
  BY DEF WireInv
<1>4. SentChange \subseteq SentChange' /\ TriedAnswer \subseteq TriedAnswer' /\ Job \subseteq Job'
  BY <1>1, <1>2, <1>3, WireMonotone
<1>5. jobs[j] \in Job /\ jobs[j] \in Job'
  BY <1>3, <1>4
<1>6. [jobs[j] EXCEPT !.todo = @ \ {c}] \in Job'
  <2>1. /\ jobs[j] \in [pc : {"apply", "settle"}, todo : SUBSET SentChange', answer : SUBSET AnyAnswer']
        /\ \A a \in jobs[j].answer : a.v \in tried \/ \E d \in jobs[j].todo : d.v = a.v
    BY <1>5 DEF Job
  <2> DEFINE k == [jobs[j] EXCEPT !.todo = @ \ {c}]
  <2>2. k \in [pc : {"apply", "settle"}, todo : SUBSET SentChange', answer : SUBSET AnyAnswer']
        /\ k.answer = jobs[j].answer /\ k.todo = jobs[j].todo \ {c}
    BY <2>1
  <2>3. \A a \in k.answer : a.v \in tried' \/ \E d \in k.todo : d.v = a.v
    BY <1>1, <2>1, <2>2
  <2> HIDE DEF k
  <2>4. k \in Job'
    BY <2>2, <2>3 DEF Job
  <2> QED
    BY <2>4 DEF k
<1>7. jobs' \in Seq(Job')
  <2>1. jobs' = [jobs EXCEPT ![j] = [jobs[j] EXCEPT !.todo = @ \ {c}]]
    BY <1>1
  <2>2. jobs \in Seq(Job')
    BY <1>3, <1>4, WireCarried
  <2> QED
    BY <1>6, <2>1, <2>2
<1>8. toServer' \in Seq(SUBSET SentChange') /\ toClient' \in Seq(SUBSET TriedAnswer')
  BY <1>2, <1>4, WireCarried DEF WireInv
<1> QED
  BY <1>2, <1>7, <1>8 DEF WireInv

\* The answer goes out when nothing is left to do.
LEMMA SendChangesAppliedWire ==
    ASSUME WireInv, NEW j \in DOMAIN jobs, SendChangesApplied(j)
    PROVE  WireInv'
<1>1. /\ jobs[j].todo = {} /\ jobs' = [jobs EXCEPT ![j].pc = "settle"]
      /\ toClient' \in {toClient, Append(toClient, jobs[j].answer)}
      /\ UNCHANGED <<changes, toServer, pc, batch, tried>>
  BY DEF SendChangesApplied, clientVars, historyVars
<1>2. jobs \in Seq(Job) /\ jobs[j] \in Job
  BY DEF WireInv
<1>3. jobs[j].answer \in SUBSET TriedAnswer
  BY <1>1, <1>2 DEF Job, TriedAnswer
<1>4. toClient' \in Seq(SUBSET TriedAnswer)
  <2>1. toClient \in Seq(SUBSET TriedAnswer)
    BY DEF WireInv
  <2>2. Append(toClient, jobs[j].answer) \in Seq(SUBSET TriedAnswer)
    BY <1>3, <2>1, SeqTypes
  <2> QED
    BY <1>1, <2>1, <2>2
<1>5. [jobs[j] EXCEPT !.pc = "settle"] \in Job
  BY <1>2 DEF Job
<1>6. jobs' = [jobs EXCEPT ![j] = [jobs[j] EXCEPT !.pc = "settle"]]
  BY <1>1
<1>7. jobs' \in Seq(Job)
  BY <1>2, <1>5, <1>6
<1>8. SentChange' = SentChange /\ TriedAnswer' = TriedAnswer /\ Job' = Job
  BY <1>1 DEF SentChange, TriedAnswer, AnyAnswer, Job, Of
<1> QED
  BY <1>1, <1>4, <1>7, <1>8 DEF WireInv

\* A job ends.
LEMMA JobEndsWire ==
    ASSUME WireInv, NEW j \in DOMAIN jobs, NotifyClientChangesComplete(j) \/ ConnectError(j)
    PROVE  WireInv'
<1>1. jobs' = SubSeq(jobs, 1, j-1) \o SubSeq(jobs, j+1, Len(jobs))
      /\ UNCHANGED <<changes, toServer, toClient, pc, batch, tried>>
  BY DEF NotifyClientChangesComplete, ConnectError, RemoveAt, netVars, clientVars, historyVars
<1>2. jobs' \in Seq(Job)
  BY <1>1, SeqTypes DEF WireInv
<1>3. SentChange' = SentChange /\ TriedAnswer' = TriedAnswer /\ Job' = Job
  BY <1>1 DEF SentChange, TriedAnswer, AnyAnswer, Job, Of
<1> QED
  BY <1>1, <1>2, <1>3 DEF WireInv

\* All other steps leave changes, messages and jobs as they are, or lose them.
LEMMA NextWire ==
    ASSUME WireInv, [Next]_vars
    PROVE  WireInv'
<1> DEFINE Quiet == /\ UNCHANGED <<changes, tried, jobs>>
                    /\ toServer' \in {toServer, << >>} /\ toClient' \in {toClient, << >>}
                    /\ pc' = "send" => batch' \subseteq DOMAIN changes
<1>1. ASSUME Quiet PROVE WireInv'
  BY <1>1, WireUnchanged
<1>2. CASE LoadUnprocessedChanges \/ LiveStart \/ NewChanges \/ Connect \/ UNCHANGED vars
  <2>1. UNCHANGED <<changes, tried, jobs, toServer, toClient, pc, batch>>
    BY <1>2 DEF LoadUnprocessedChanges, LiveStart, NewChanges, Connect, vars, netVars,
                clientVars, serverVars, historyVars
  <2> QED
    BY <1>1, <2>1 DEF WireInv
<1>3. CASE ProcessChanges \/ FindError
  <2>1. /\ UNCHANGED <<changes, tried, jobs, toServer, toClient>>
        /\ pc' = "send" => pc' = pc /\ batch' = batch
    BY <1>3 DEF ProcessChanges, FindError, netVars, serverVars, historyVars
  <2> QED
    BY <1>1, <2>1 DEF WireInv
<1>4. CASE FindChanges
  <2>1. /\ UNCHANGED <<changes, tried, jobs, toServer, toClient>>
        /\ pc' = "send" => batch' = batch \cap Undone
    BY <1>4 DEF FindChanges, EndProcessing, netVars, serverVars, historyVars
  <2>2. Undone \subseteq DOMAIN changes
    BY DEF Undone
  <2> QED
    BY <1>1, <2>1, <2>2
<1>5. CASE Disconnect
  <2>1. /\ UNCHANGED <<changes, tried, jobs, pc, batch>>
        /\ toServer' = << >> /\ toClient' = << >>
    BY <1>5 DEF Disconnect, CloseLink, clientVars, serverVars, historyVars
  <2> QED
    BY <1>1, <2>1 DEF WireInv
<1>6. CASE Reload
  <2>1. /\ UNCHANGED <<changes, tried, jobs>> /\ pc' = "idle"
        /\ toServer' = << >> /\ toClient' = << >>
    BY <1>6 DEF Reload, CloseLink, serverVars, historyVars
  <2> QED
    BY <1>1, <2>1
<1>7. CASE Evict
  <2>1. /\ UNCHANGED <<changes, tried, pc, batch>> /\ jobs' = << >>
        /\ toServer' = << >> /\ toClient' = << >>
    BY <1>7 DEF Evict, CloseLink, clientVars, historyVars
  <2>2. /\ << >> \in Seq(SUBSET SentChange) /\ << >> \in Seq(SUBSET TriedAnswer)
        /\ << >> \in Seq(Job)
    OBVIOUS
  <2>3. SentChange' = SentChange /\ TriedAnswer' = TriedAnswer /\ Job' = Job
    BY <2>1 DEF SentChange, TriedAnswer, AnyAnswer, Job, Of
  <2> QED
    BY <2>1, <2>2, <2>3 DEF WireInv
<1>8. ASSUME NEW e \in Entity, NEW op \in Op, TrackChange(e, op) PROVE WireInv'
  BY <1>8, TrackChangeWire
<1>9. ASSUME NEW j \in DOMAIN jobs, JobStep(j) \/ ExecuteError(j) \/ ConnectError(j)
      PROVE  WireInv'
  BY <1>9, ExecuteWire, SendChangesAppliedWire, JobEndsWire DEF JobStep
<1> QED
  BY <1>2, <1>3, <1>4, <1>5, <1>6, <1>7, <1>8, <1>9, SendChangesWire,
     HandleChangesAppliedWire, WebSocketMessageWire DEF Next, ClientStep

-----------------------------------------------------------------------------
(* What is marked was tried.                                               *)

\* At the start nothing is tracked.
LEMMA InitDone == Init => DoneWasTried
<1>1. DOMAIN << >> = {}
  OBVIOUS
<1> QED
  BY <1>1 DEF Init, DoneWasTried

\* Steps that mark nothing keep what was tried.
LEMMA DoneMonotone ==
    ASSUME DoneWasTried, tried \subseteq tried', UNCHANGED overtaken,
           \A i \in DOMAIN changes : i \in DOMAIN changes' /\ changes'[i] = changes[i],
           \A i \in DOMAIN changes' \ DOMAIN changes : ~changes'[i].done
    PROVE  DoneWasTried'
<1>1. ASSUME NEW i \in DOMAIN changes' \ overtaken', changes'[i].done
      PROVE  \E j \in tried' \cap Of(changes[i].e)' : i <= j
  <2>1. i \in DOMAIN changes \ overtaken /\ changes[i].done /\ changes'[i] = changes[i]
    BY <1>1
  <2>2. PICK j \in tried \cap Of(changes[i].e) : i <= j
    BY <2>1 DEF DoneWasTried
  <2>3. j \in tried' /\ j \in Of(changes[i].e)'
    <3>1. j \in DOMAIN changes /\ changes[j].e = changes[i].e
      BY <2>2 DEF Of
    <3> QED
      BY <2>1, <2>2, <3>1 DEF Of
  <2> QED
    BY <2>2, <2>3
<1> QED
  BY <1>1 DEF DoneWasTried

\* An answer marks changes of rows it names: those up to the version it names were
\* overtaken on the wire by a change the server tried, the later ones are recorded.
LEMMA HandleChangesAppliedDone ==
    ASSUME WireInv, DoneWasTried, HandleChangesApplied
    PROVE  DoneWasTried'
<1> DEFINE answer == Head(toClient)
           hit(i) == \E a \in answer : i \in Undone \cap Of(a.e)
<1>1. /\ toClient # << >> /\ UNCHANGED tried
      /\ changes' = [i \in DOMAIN changes |->
                       IF hit(i) THEN [changes[i] EXCEPT !.done = TRUE] ELSE changes[i]]
      /\ overtaken' = overtaken \cup UNION { {i \in Undone \cap Of(a.e) : i > a.v} : a \in answer }
  BY DEF HandleChangesApplied
<1>2. answer \in SUBSET TriedAnswer
  BY <1>1, SeqTypes DEF WireInv
<1>3. changes \in Seq(TrackedChange)
  BY DEF WireInv
<1>4. \A i \in DOMAIN changes : i \in Nat /\ changes[i] \in TrackedChange
  <2>1. DOMAIN changes = 1..Len(changes) /\ Len(changes) \in Nat
    BY <1>3
  <2> QED
    BY <1>3, <2>1
<1>5. DOMAIN changes' = DOMAIN changes
  BY <1>1
<1>6. \A i \in DOMAIN changes :
         changes'[i].e = changes[i].e /\ (changes'[i].done => hit(i) \/ changes[i].done)
  <2> HIDE DEF hit
  <2> QED
    BY <1>1, <1>4 DEF TrackedChange
<1>7. \A e : Of(e)' = Of(e)
  BY <1>5, <1>6 DEF Of
<1>8. ASSUME NEW i \in DOMAIN changes \ overtaken', changes'[i].done
      PROVE  \E j \in tried \cap Of(changes[i].e) : i <= j
  <2>1. CASE changes[i].done
    <3>1. i \notin overtaken
      BY <1>1
    <3> QED
      BY <2>1, <3>1 DEF DoneWasTried
  <2>2. CASE hit(i)
    <3>1. PICK a \in answer : i \in Undone \cap Of(a.e)
      BY <2>2
    <3>2. a.v \in tried /\ a.v \in Of(a.e) /\ a.v \in Nat /\ i \in Nat
      BY <1>2, <1>4, <3>1 DEF TriedAnswer, AnyAnswer
    <3>3. ~(i > a.v)
      BY <1>1, <1>8, <3>1
    <3>4. changes[i].e = a.e
      BY <3>1 DEF Of
    <3> QED
      BY <3>2, <3>3, <3>4
  <2> QED
    BY <1>6, <1>8, <2>1, <2>2
<1> QED
  BY <1>1, <1>5, <1>6, <1>7, <1>8 DEF DoneWasTried

\* No other step marks a change or forgets what was tried.
LEMMA NextDone ==
    ASSUME WireInv, DoneWasTried, [Next]_vars
    PROVE  DoneWasTried'
<1> DEFINE Quiet == UNCHANGED <<changes, overtaken>> /\ tried \subseteq tried'
<1>1. ASSUME Quiet PROVE DoneWasTried'
  BY <1>1, DoneMonotone
<1>2. ASSUME NEW e \in Entity, NEW op \in Op, TrackChange(e, op) PROVE DoneWasTried'
  <2>1. changes' = Append(changes, [e |-> e, op |-> op, done |-> FALSE])
        /\ UNCHANGED <<tried, overtaken>>
    BY <1>2 DEF TrackChange, historyVars
  <2>2. changes \in Seq(TrackedChange) /\ [e |-> e, op |-> op, done |-> FALSE] \in TrackedChange
    BY DEF WireInv, TrackedChange
  <2>3. DOMAIN changes = 1..Len(changes) /\ Len(changes) \in Nat
    BY <2>2
  <2>4. /\ DOMAIN changes' = 1..(Len(changes) + 1)
        /\ \A i \in 1..Len(changes) : changes'[i] = changes[i]
        /\ changes'[Len(changes) + 1] = [e |-> e, op |-> op, done |-> FALSE]
    BY <2>1, <2>2
  <2>5. /\ \A i \in DOMAIN changes : i \in DOMAIN changes' /\ changes'[i] = changes[i]
        /\ \A i \in DOMAIN changes' \ DOMAIN changes : ~changes'[i].done
    BY <2>3, <2>4
  <2> QED
    BY <2>1, <2>5, DoneMonotone
<1>3. CASE ClientStep \/ LiveStart \/ FindError
  BY <1>1, <1>3 DEF ClientStep, LoadUnprocessedChanges, ProcessChanges, FindChanges,
                    SendChanges, LiveStart, FindError, historyVars
<1>4. CASE HandleChangesApplied
  BY <1>4, HandleChangesAppliedDone
<1>5. CASE Connect \/ Disconnect \/ Reload \/ WebSocketMessage \/ NewChanges \/ Evict
  BY <1>1, <1>5 DEF Connect, Disconnect, Reload, WebSocketMessage, NewChanges, Evict,
                    historyVars
<1>6. ASSUME NEW j \in DOMAIN jobs, JobStep(j) \/ ExecuteError(j) \/ ConnectError(j)
      PROVE  DoneWasTried'
  <2>1. Quiet
    BY <1>6 DEF JobStep, Execute, SendChangesApplied, NotifyClientChangesComplete,
                ExecuteError, ConnectError, historyVars
  <2> QED
    BY <1>1, <2>1
<1>7. CASE UNCHANGED vars
  BY <1>1, <1>7 DEF vars, historyVars
<1> QED
  BY <1>2, <1>3, <1>4, <1>5, <1>6, <1>7 DEF Next

\* A change is marked as processed only when the server has tried it or a later one
\* of its row, or by an answer that is about an earlier one: for any number of rows,
\* changes, batches under way and faults.
THEOREM ProcessedWasTried == Spec => []DoneWasTried
<1>1. Init => WireInv /\ DoneWasTried
  BY InitWire, InitDone
<1>2. WireInv /\ DoneWasTried /\ [Next]_vars => WireInv' /\ DoneWasTried'
  BY NextWire, NextDone
<1> QED
  BY <1>1, <1>2, PTL DEF Spec

-----------------------------------------------------------------------------
(* Types.                                                                  *)

\* The client's part of the state.
ClientTypes ==
    /\ queue \in Seq(ChangeId) /\ IsInjective(queue)
    /\ sent \subseteq ChangeId
    /\ timer \in BOOLEAN /\ loading \in BOOLEAN
    /\ pc \in {"idle", "find", "send"} /\ batch \subseteq ChangeId

\* The types need that the changes of each message and job are tracked ones, and
\* that no more are tracked than the bound allows.
TypeInv == TypeOK /\ WireInv /\ Len(changes) <= MaxChanges

\* Changes in order are all different.
LEMMA InOrderTypes ==
    ASSUME NEW S \in SUBSET ChangeId
    PROVE  InOrder(S) \in Seq(S) /\ IsInjective(InOrder(S))
<1>1. S \in SUBSET Int /\ IsFiniteSet(S)
  <2>1. MaxChanges \in Nat /\ ChangeId \in SUBSET Int
    BY BoundsNat DEF ChangeId
  <2>2. IsFiniteSet(ChangeId)
    BY <2>1, FS_Interval DEF ChangeId
  <2> QED
    BY <2>1, <2>2, FS_Subset
<1> DEFINE s == InOrder(S)
<1>2. /\ s \in [1..Cardinality(S) -> S]
      /\ \A i, j \in DOMAIN s : i < j => s[i] < s[j]
  BY <1>1, Ordered DEF InOrder
<1>3. Cardinality(S) \in Nat
  BY <1>1, FS_CardinalityType
<1> HIDE DEF s
<1>4. s \in Seq(S) /\ DOMAIN s = 1..Cardinality(S) /\ \A i \in DOMAIN s : s[i] \in Int
  <2>1. DOMAIN s = 1..Cardinality(S) /\ \A i \in DOMAIN s : s[i] \in S
    BY <1>2
  <2>2. \A n \in Nat : \A f \in [1..n -> S] : f \in Seq(S)
    OBVIOUS
  <2> QED
    BY <1>1, <1>2, <1>3, <2>1, <2>2
<1>5. ASSUME NEW i \in DOMAIN s, NEW j \in DOMAIN s, s[i] = s[j] PROVE i = j
  <2>1. i \in Int /\ j \in Int /\ s[i] \in Int /\ s[j] \in Int
    BY <1>3, <1>4
  <2>2. ~(i < j) /\ ~(j < i)
    BY <1>2, <1>5, <2>1
  <2> QED
    BY <2>1, <2>2
<1>6. IsInjective(s)
  BY <1>5 DEF IsInjective
<1> QED
  BY <1>4, <1>6 DEF s

\* Nothing is queued twice.
LEMMA EnqueueTypes ==
    ASSUME queue \in Seq(ChangeId), IsInjective(queue), NEW S \in SUBSET ChangeId, Enqueue(S)
    PROVE  queue' \in Seq(ChangeId) /\ IsInjective(queue')
<1> DEFINE more == InOrder(S \ ToSet(queue))
<1>1. queue' = queue \o more
  BY DEF Enqueue
<1>2. more \in Seq(S \ ToSet(queue)) /\ IsInjective(more)
  BY InOrderTypes
<1> HIDE DEF more
<1>3. more \in Seq(ChangeId) /\ \A k \in DOMAIN more : more[k] \notin ToSet(queue)
  BY <1>2, SeqMonotone
<1>4. queue' \in Seq(ChangeId)
  BY <1>1, <1>3
<1>5. /\ DOMAIN queue = 1..Len(queue) /\ Len(queue) \in Nat
      /\ DOMAIN more = 1..Len(more) /\ Len(more) \in Nat
  BY <1>3
<1>6. /\ DOMAIN queue' = 1..(Len(queue) + Len(more))
      /\ \A i \in DOMAIN queue' :
           queue'[i] = IF i <= Len(queue) THEN queue[i] ELSE more[i - Len(queue)]
  BY <1>1, <1>3
<1>7. \A i \in DOMAIN queue : queue[i] \in ToSet(queue)
  BY DEF ToSet
<1>8. ASSUME NEW i \in DOMAIN queue', NEW j \in DOMAIN queue', queue'[i] = queue'[j]
      PROVE  i = j
  <2>1. i \in Int /\ j \in Int
    BY <1>5, <1>6
  <2>2. CASE i <= Len(queue) /\ j <= Len(queue)
    <3>1. i \in DOMAIN queue /\ j \in DOMAIN queue /\ queue[i] = queue[j]
      BY <1>5, <1>6, <1>8, <2>2
    <3> QED
      BY <3>1 DEF IsInjective
  <2>3. CASE i > Len(queue) /\ j > Len(queue)
    <3>1. /\ i - Len(queue) \in DOMAIN more /\ j - Len(queue) \in DOMAIN more
          /\ more[i - Len(queue)] = more[j - Len(queue)]
      BY <1>5, <1>6, <1>8, <2>3
    <3>2. i - Len(queue) = j - Len(queue)
      BY <1>2, <3>1 DEF IsInjective
    <3> QED
      BY <1>5, <2>1, <3>2
  <2>4. CASE i <= Len(queue) /\ j > Len(queue)
    <3>1. i \in DOMAIN queue /\ j - Len(queue) \in DOMAIN more /\ queue[i] = more[j - Len(queue)]
      BY <1>5, <1>6, <1>8, <2>4
    <3> QED
      BY <1>3, <1>7, <3>1
  <2>5. CASE j <= Len(queue) /\ i > Len(queue)
    <3>1. j \in DOMAIN queue /\ i - Len(queue) \in DOMAIN more /\ queue[j] = more[i - Len(queue)]
      BY <1>5, <1>6, <1>8, <2>5
    <3> QED
      BY <1>3, <1>7, <3>1
  <2> QED
    BY <1>5, <2>1, <2>2, <2>3, <2>4, <2>5
<1>9. IsInjective(queue')
  BY <1>8 DEF IsInjective
<1> QED
  BY <1>4, <1>9

\* The first part of the queue and the rest of it.
LEMMA QueueParts ==
    ASSUME queue \in Seq(ChangeId), IsInjective(queue), NEW n \in 0..Len(queue)
    PROVE  /\ ToSet(SubSeq(queue, 1, n)) \subseteq ChangeId
           /\ SubSeq(queue, n + 1, Len(queue)) \in Seq(ChangeId)
           /\ IsInjective(SubSeq(queue, n + 1, Len(queue)))
<1> DEFINE rest == SubSeq(queue, n + 1, Len(queue))
           start == SubSeq(queue, 1, n)
<1>1. Len(queue) \in Nat /\ DOMAIN queue = 1..Len(queue) /\ n \in Nat /\ n <= Len(queue)
  OBVIOUS
<1>2. start \in Seq(ChangeId) /\ rest \in Seq(ChangeId)
  BY <1>1
<1>3. /\ DOMAIN rest = 1..(Len(queue) - n)
      /\ \A i \in DOMAIN rest : rest[i] = queue[n + i]
  BY <1>1
<1> HIDE DEF rest, start
<1>4. \A i \in DOMAIN start : start[i] \in ChangeId
  BY <1>2
<1>5. ToSet(start) \subseteq ChangeId
  BY <1>4 DEF ToSet
<1>6. ASSUME NEW i \in DOMAIN rest, NEW j \in DOMAIN rest, rest[i] = rest[j] PROVE i = j
  <2>1. i \in Int /\ j \in Int /\ n + i \in DOMAIN queue /\ n + j \in DOMAIN queue
    BY <1>1, <1>3
  <2>2. queue[n + i] = queue[n + j]
    BY <1>3, <1>6
  <2>3. n + i = n + j
    BY <2>1, <2>2 DEF IsInjective
  <2> QED
    BY <1>1, <2>1, <2>3
<1>7. IsInjective(rest)
  BY <1>6 DEF IsInjective
<1> QED
  BY <1>2, <1>5, <1>7 DEF rest, start

\* The end of processChanges, whatever was sent.
LEMMA EndProcessingTypes ==
    ASSUME ClientTypes, faults \in Nat, NEW justSent \in SUBSET ChangeId,
           EndProcessing(justSent), loading' = loading
    PROVE  ClientTypes' /\ faults' \in Nat
<1>1. PICK expired \in SUBSET (sent \ justSent) :
          /\ IF expired = {} THEN UNCHANGED faults ELSE Fault
          /\ sent' = (sent \cup justSent) \ expired
          /\ Enqueue(expired)
  BY DEF EndProcessing
<1>2. pc' = "idle" /\ batch' = {} /\ ScheduleProcessing
  BY DEF EndProcessing
<1>3. sent' \subseteq ChangeId /\ expired \in SUBSET ChangeId
  BY <1>1 DEF ClientTypes
<1>4. queue' \in Seq(ChangeId) /\ IsInjective(queue')
  BY <1>1, <1>3, EnqueueTypes DEF ClientTypes
<1>5. faults' \in Nat
  BY <1>1 DEF Fault
<1>6. timer' \in BOOLEAN
  BY <1>2 DEF ScheduleProcessing, ClientTypes
<1> QED
  BY <1>2, <1>3, <1>4, <1>5, <1>6 DEF ClientTypes

\* A message for the server, and the changes sent in it.
LEMMA OptimizedTypes ==
    ASSUME TypeInv, NEW rows \in SUBSET (DOMAIN changes)
    PROVE  Optimized(rows) \in SUBSET Sent /\ { c.id : c \in Optimized(rows) } \subseteq ChangeId
<1>1. Optimized(rows) \in SUBSET SentChange
  BY OptimizedSent DEF TypeInv
<1>2. DOMAIN changes \subseteq ChangeId
  <2>1. DOMAIN changes = 1..Len(changes) /\ Len(changes) \in Nat
    BY DEF TypeInv, WireInv
  <2> QED
    BY <2>1, BoundsNat DEF TypeInv, ChangeId
<1>3. ASSUME NEW c \in Optimized(rows) PROVE c.id \in DOMAIN changes
  <2> DEFINE Mine(e) == rows \cap Of(e)
  <2>1. PICK e \in Entity : Mine(e) # {} /\ c.id = First(Mine(e))
    BY DEF Optimized
  <2>2. Mine(e) \in SUBSET (DOMAIN changes)
    OBVIOUS
  <2> HIDE DEF Mine
  <2>3. IsFiniteSet(Mine(e)) /\ Mine(e) \in SUBSET Int
    BY <2>2, PlacesFinite DEF TypeInv, WireInv
  <2>4. First(Mine(e)) \in Mine(e)
    BY <2>1, <2>3, LeastExists DEF First
  <2> QED
    BY <2>1, <2>2, <2>4
<1>4. ASSUME NEW c \in Optimized(rows) PROVE c \in Sent /\ c.id \in ChangeId
  <2>1. c \in [id : Nat, e : Entity, op : Op, v : Nat] /\ c.v \in DOMAIN changes
    BY <1>1 DEF SentChange, Of
  <2>2. c.id \in ChangeId /\ c.v \in ChangeId
    BY <1>2, <1>3, <2>1
  <2> QED
    BY <2>1, <2>2 DEF Sent
<1> QED
  BY <1>4

\* The types of the rest of the state.
WireTypes ==
    /\ changes \in Seq([e : Entity, op : Op, done : BOOLEAN]) /\ Len(changes) <= MaxChanges
    /\ link \in BOOLEAN
    /\ toServer \in Seq(SUBSET Sent) /\ toClient \in Seq(SUBSET Answer)

ServerTypes ==
    /\ server \in [Entity -> {Absent} \cup 0..MaxChanges]
    /\ jobs \in Seq([pc : {"apply", "settle"}, todo : SUBSET Sent, answer : SUBSET Answer])
    /\ lock \in BOOLEAN /\ pending \in Nat

CountTypes ==
    /\ overtaken \subseteq ChangeId /\ tried \subseteq ChangeId
    /\ notices \in Nat /\ reloads \in Nat /\ faults \in Nat

\* The types are these four parts.
LEMMA TypeParts ==
    TypeOK /\ Len(changes) <= MaxChanges <=> ClientTypes /\ WireTypes /\ ServerTypes /\ CountTypes
  BY DEF TypeOK, ClientTypes, WireTypes, ServerTypes, CountTypes

\* The types hold at first.
LEMMA InitTypes == Init => TypeInv
<1> SUFFICES ASSUME Init PROVE TypeInv
  OBVIOUS
<1>1. WireInv
  BY InitWire
<1>2. /\ << >> \in Seq(ChangeId) /\ << >> \in Seq(SUBSET Sent) /\ << >> \in Seq(SUBSET Answer)
      /\ << >> \in Seq([e : Entity, op : Op, done : BOOLEAN])
      /\ << >> \in Seq([pc : {"apply", "settle"}, todo : SUBSET Sent, answer : SUBSET Answer])
      /\ Len(<< >>) = 0
  OBVIOUS
<1>3. MaxChanges \in Nat
  BY BoundsNat
<1>4. ClientTypes
  <2>1. queue = << >> /\ sent = {} /\ timer = FALSE /\ loading = TRUE /\ pc = "idle" /\ batch = {}
    BY DEF Init
  <2>2. IsInjective(<< >>)
    BY DEF IsInjective
  <2> QED
    BY <1>2, <2>1, <2>2 DEF ClientTypes
<1>5. WireTypes
  <2>1. changes = << >> /\ link = FALSE /\ toServer = << >> /\ toClient = << >>
    BY DEF Init
  <2>2. Len(changes) <= MaxChanges
    BY <1>2, <1>3, <2>1
  <2>3. /\ changes \in Seq([e : Entity, op : Op, done : BOOLEAN])
        /\ toServer \in Seq(SUBSET Sent) /\ toClient \in Seq(SUBSET Answer)
    BY <1>2, <2>1
  <2> QED
    BY <2>1, <2>2, <2>3 DEF WireTypes
<1>6. ServerTypes
  <2>1. server \in [Entity -> {Absent} \cup 0..MaxChanges]
    BY <1>3 DEF Init
  <2> QED
    BY <1>2, <2>1 DEF Init, ServerTypes
<1>7. CountTypes
  BY DEF Init, CountTypes
<1> QED
  BY <1>1, <1>4, <1>5, <1>6, <1>7, TypeParts DEF TypeInv

\* The user's edits and the client's own steps keep the types.
LEMMA TrackChangeTypes ==
    ASSUME TypeInv, NEW e \in Entity, NEW op \in Op, TrackChange(e, op)
    PROVE  ClientTypes' /\ WireTypes' /\ ServerTypes' /\ CountTypes'
<1>1. ClientTypes /\ WireTypes /\ ServerTypes /\ CountTypes
  BY TypeParts DEF TypeInv
<1> DEFINE c == [e |-> e, op |-> op, done |-> FALSE]
<1>2. /\ Len(changes) < MaxChanges /\ changes' = Append(changes, c)
      /\ Enqueue({Len(changes')}) /\ ScheduleProcessing
      /\ UNCHANGED <<netVars, sent, loading, pc, batch, serverVars, historyVars, bounds>>
  BY DEF TrackChange
<1>3. c \in [e : Entity, op : Op, done : BOOLEAN]
  OBVIOUS
<1> HIDE DEF c
<1>4. /\ changes' \in Seq([e : Entity, op : Op, done : BOOLEAN])
      /\ Len(changes') = Len(changes) + 1 /\ Len(changes) \in Nat
  BY <1>1, <1>2, <1>3 DEF WireTypes
<1>5. Len(changes') <= MaxChanges /\ {Len(changes')} \in SUBSET ChangeId
  BY <1>2, <1>4, BoundsNat DEF ChangeId
<1>6. queue' \in Seq(ChangeId) /\ IsInjective(queue')
  BY <1>1, <1>2, <1>5, EnqueueTypes DEF ClientTypes
<1>7. timer' \in BOOLEAN
  BY <1>1, <1>2 DEF ScheduleProcessing, ClientTypes
<1> QED
  BY <1>1, <1>2, <1>4, <1>5, <1>6, <1>7
  DEF ClientTypes, WireTypes, ServerTypes, CountTypes, netVars, serverVars, historyVars, bounds

\* Places of changes are ids.
LEMMA PlacesAreIds ==
    ASSUME TypeInv
    PROVE  DOMAIN changes \subseteq ChangeId /\ Undone \subseteq ChangeId
<1>1. DOMAIN changes = 1..Len(changes) /\ Len(changes) \in Nat
  BY DEF TypeInv, WireInv
<1>2. DOMAIN changes \subseteq ChangeId
  BY <1>1, BoundsNat DEF TypeInv, ChangeId
<1> QED
  BY <1>2 DEF Undone

\* The steps of OutgoingChangeProcessor keep the types.
LEMMA ClientStepTypes ==
    ASSUME TypeInv, ClientStep \/ FindError \/ LiveStart
    PROVE  ClientTypes' /\ WireTypes' /\ ServerTypes' /\ CountTypes'
<1>1. ClientTypes /\ WireTypes /\ ServerTypes /\ CountTypes
  BY TypeParts DEF TypeInv
<1>2. CASE LoadUnprocessedChanges
  <2>1. PICK S \in SUBSET Undone : Enqueue(S \ sent)
    BY <1>2 DEF LoadUnprocessedChanges
  <2>2. S \ sent \in SUBSET ChangeId
    BY PlacesAreIds
  <2>3. queue' \in Seq(ChangeId) /\ IsInjective(queue')
    BY <1>1, <2>1, <2>2, EnqueueTypes DEF ClientTypes
  <2>4. timer' \in BOOLEAN /\ loading' \in BOOLEAN
    BY <1>1, <1>2 DEF LoadUnprocessedChanges, ScheduleProcessing, ClientTypes
  <2>5. UNCHANGED <<changes, netVars, sent, pc, batch, serverVars, historyVars, bounds>>
    BY <1>2 DEF LoadUnprocessedChanges
  <2> QED
    BY <1>1, <2>3, <2>4, <2>5
    DEF ClientTypes, WireTypes, ServerTypes, CountTypes, netVars, serverVars, historyVars, bounds
<1>3. CASE ProcessChanges
  <2>1. timer' = FALSE /\ UNCHANGED <<changes, netVars, sent, loading, serverVars, historyVars, bounds>>
    BY <1>3 DEF ProcessChanges
  <2>2. ASSUME NEW n \in 0..Len(queue), batch' = ToSet(SubSeq(queue, 1, n)),
               queue' = SubSeq(queue, n + 1, Len(queue)), pc' = "find"
        PROVE  queue' \in Seq(ChangeId) /\ IsInjective(queue') /\ batch' \subseteq ChangeId
               /\ pc' \in {"idle", "find", "send"}
    BY <1>1, <2>2, QueueParts DEF ClientTypes
  <2>3. \/ UNCHANGED <<queue, pc, batch>>
        \/ \E n \in 0..Len(queue) : /\ batch' = ToSet(SubSeq(queue, 1, n))
                                    /\ queue' = SubSeq(queue, n + 1, Len(queue)) /\ pc' = "find"
    <3>1. Len(queue) \in Nat /\ BatchLimit \in Nat
      BY <1>1, LimitsPositive DEF ClientTypes
    <3>2. (IF Len(queue) < BatchLimit THEN Len(queue) ELSE BatchLimit) \in 0..Len(queue)
      BY <3>1
    <3> QED
      BY <1>3, <3>2 DEF ProcessChanges
  <2>4. queue' \in Seq(ChangeId) /\ IsInjective(queue') /\ batch' \subseteq ChangeId
        /\ pc' \in {"idle", "find", "send"}
    BY <1>1, <2>2, <2>3 DEF ClientTypes
  <2> QED
    BY <1>1, <2>1, <2>4
    DEF ClientTypes, WireTypes, ServerTypes, CountTypes, netVars, serverVars, historyVars, bounds
<1>4. CASE FindChanges
  <2>1. UNCHANGED <<changes, netVars, loading, serverVars, historyVars, notices, reloads>>
    BY <1>4 DEF FindChanges
  <2>2. ClientTypes' /\ faults' \in Nat
    <3>1. CASE EndProcessing({})
      BY <1>1, <2>1, <3>1, EndProcessingTypes DEF CountTypes
    <3>2. CASE /\ batch' = batch \cap Undone /\ pc' = "send"
               /\ UNCHANGED <<queue, sent, timer, faults>>
      BY <1>1, <2>1, <3>2 DEF ClientTypes, CountTypes
    <3> QED
      BY <1>4, <3>1, <3>2 DEF FindChanges
  <2> QED
    BY <1>1, <2>1, <2>2
    DEF WireTypes, ServerTypes, CountTypes, netVars, serverVars, historyVars
<1>5. CASE SendChanges
  <2> DEFINE message == Optimized(batch)
  <2>1. /\ pc = "send" /\ toServer' \in {toServer, Append(toServer, message)}
        /\ EndProcessing({ c.id : c \in message })
        /\ UNCHANGED <<changes, link, toClient, loading, serverVars, historyVars, notices, reloads>>
    BY <1>5 DEF SendChanges
  <2>2. message \in SUBSET Sent /\ { c.id : c \in message } \in SUBSET ChangeId
    BY <2>1, OptimizedTypes DEF TypeInv, WireInv
  <2> HIDE DEF message
  <2>3. ClientTypes' /\ faults' \in Nat
    BY <1>1, <2>1, <2>2, EndProcessingTypes DEF CountTypes
  <2>4. toServer' \in Seq(SUBSET Sent)
    <3>1. toServer \in Seq(SUBSET Sent)
      BY <1>1 DEF WireTypes
    <3>2. Append(toServer, message) \in Seq(SUBSET Sent)
      BY <2>2, <3>1, SeqTypes
    <3> QED
      BY <2>1, <3>1, <3>2
  <2> QED
    BY <1>1, <2>1, <2>3, <2>4 DEF WireTypes, ServerTypes, CountTypes, serverVars, historyVars
<1>6. CASE FindError
  <2>1. /\ Fault /\ pc' = "idle" /\ batch' = {} /\ Enqueue(batch) /\ ScheduleProcessing
        /\ UNCHANGED <<changes, netVars, sent, loading, serverVars, historyVars, notices, reloads>>
    BY <1>6 DEF FindError
  <2>2. queue' \in Seq(ChangeId) /\ IsInjective(queue')
    BY <1>1, <2>1, EnqueueTypes DEF ClientTypes
  <2>3. timer' \in BOOLEAN /\ faults' \in Nat
    BY <1>1, <2>1 DEF ScheduleProcessing, ClientTypes, CountTypes, Fault
  <2> QED
    BY <1>1, <2>1, <2>2, <2>3
    DEF ClientTypes, WireTypes, ServerTypes, CountTypes, netVars, serverVars, historyVars
<1>7. CASE LiveStart
  BY <1>1, <1>7
  DEF LiveStart, ClientTypes, WireTypes, ServerTypes, CountTypes, netVars, serverVars, historyVars
<1> QED
  BY <1>2, <1>3, <1>4, <1>5, <1>6, <1>7 DEF ClientStep

\* The socket opens, breaks, or the application restarts.
LEMMA LinkTypes ==
    ASSUME TypeInv, Connect \/ Disconnect \/ Reload \/ Evict \/ NewChanges
    PROVE  ClientTypes' /\ WireTypes' /\ ServerTypes' /\ CountTypes'
<1>1. ClientTypes /\ WireTypes /\ ServerTypes /\ CountTypes
  BY TypeParts DEF TypeInv
<1>2. << >> \in Seq(SUBSET Sent) /\ << >> \in Seq(SUBSET Answer)
  OBVIOUS
<1>3. ASSUME CloseLink, UNCHANGED changes PROVE WireTypes'
  <2>1. link' = FALSE /\ toServer' = << >> /\ toClient' = << >>
    BY <1>3 DEF CloseLink
  <2> QED
    BY <1>1, <1>2, <1>3, <2>1 DEF WireTypes
<1>4. CASE Connect
  BY <1>1, <1>4
  DEF Connect, ClientTypes, WireTypes, ServerTypes, CountTypes, serverVars, historyVars, bounds
<1>5. CASE Disconnect
  <2>1. /\ CloseLink /\ Fault
        /\ UNCHANGED <<changes, clientVars, serverVars, historyVars, notices, reloads>>
    BY <1>5 DEF Disconnect
  <2> QED
    BY <1>1, <1>3, <2>1
    DEF ClientTypes, ServerTypes, CountTypes, clientVars, serverVars, historyVars, Fault
<1>6. CASE Reload
  <2>1. /\ reloads' = reloads + 1 /\ CloseLink
        /\ queue' = << >> /\ sent' = {} /\ timer' = FALSE /\ loading' = TRUE
        /\ pc' = "idle" /\ batch' = {}
        /\ UNCHANGED <<changes, serverVars, historyVars, notices, faults>>
    BY <1>6 DEF Reload
  <2>2. << >> \in Seq(ChangeId) /\ IsInjective(<< >>)
    BY DEF IsInjective
  <2>3. ClientTypes'
    BY <2>1, <2>2 DEF ClientTypes
  <2> QED
    BY <1>1, <1>3, <2>1, <2>3 DEF ServerTypes, CountTypes, serverVars, historyVars
<1>7. CASE Evict
  <2>1. /\ CloseLink /\ Fault /\ jobs' = << >> /\ lock' = FALSE /\ pending' = 0
        /\ UNCHANGED <<changes, clientVars, server, historyVars, notices, reloads>>
    BY <1>7 DEF Evict
  <2>2. << >> \in Seq([pc : {"apply", "settle"}, todo : SUBSET Sent, answer : SUBSET Answer])
    OBVIOUS
  <2>3. ServerTypes'
    BY <1>1, <2>1, <2>2 DEF ServerTypes
  <2> QED
    BY <1>1, <1>3, <2>1, <2>3 DEF ClientTypes, CountTypes, clientVars, historyVars, Fault
<1>8. CASE NewChanges
  <2>1. /\ notices' = notices + 1 /\ pending' = IF lock THEN pending + 1 ELSE pending
        /\ UNCHANGED <<changes, netVars, clientVars, server, jobs, lock, historyVars, reloads, faults>>
    BY <1>8 DEF NewChanges
  <2>2. notices' \in Nat /\ pending' \in Nat
    BY <1>1, <2>1 DEF ServerTypes, CountTypes
  <2> QED
    BY <1>1, <2>1, <2>2
    DEF ClientTypes, WireTypes, ServerTypes, CountTypes, netVars, clientVars, historyVars
<1> QED
  BY <1>4, <1>5, <1>6, <1>7, <1>8

\* Marking changes overtakes others at most.
LEMMA HandleChangesAppliedTypes ==
    ASSUME TypeInv, HandleChangesApplied
    PROVE  ClientTypes' /\ WireTypes' /\ ServerTypes' /\ CountTypes'
<1>1. ClientTypes /\ WireTypes /\ ServerTypes /\ CountTypes
  BY TypeParts DEF TypeInv
<1>2. /\ toClient # << >> /\ toClient' = Tail(toClient)
      /\ UNCHANGED <<link, toServer, clientVars, serverVars, tried, bounds>>
  BY DEF HandleChangesApplied
<1>3. toClient' \in Seq(SUBSET Answer)
  BY <1>1, <1>2, SeqTypes DEF WireTypes
<1>4. changes' \in Seq([e : Entity, op : Op, done : BOOLEAN])
  BY HandleChangesAppliedWire DEF TypeInv, WireInv, TrackedChange
<1>5. Len(changes') = Len(changes)
  <2>1. DOMAIN changes' = DOMAIN changes
    BY DEF HandleChangesApplied
  <2> QED
    BY <1>1, <1>4, <2>1 DEF WireTypes
<1>6. overtaken' \subseteq ChangeId
  <2>1. overtaken' \subseteq overtaken \cup Undone
    BY DEF HandleChangesApplied
  <2> QED
    BY <1>1, <2>1, PlacesAreIds DEF CountTypes
<1> QED
  BY <1>1, <1>2, <1>3, <1>4, <1>5, <1>6
  DEF ClientTypes, WireTypes, ServerTypes, CountTypes, clientVars, serverVars, bounds

\* A message becomes a job.
LEMMA WebSocketMessageTypes ==
    ASSUME TypeInv, WebSocketMessage
    PROVE  ClientTypes' /\ WireTypes' /\ ServerTypes' /\ CountTypes'
<1> DEFINE message == Head(toServer)
           JobType == [pc : {"apply", "settle"}, todo : SUBSET Sent, answer : SUBSET Answer]
           job == [pc |-> "apply", todo |-> message, answer |-> AnswerTo(message)]
<1>1. ClientTypes /\ WireTypes /\ ServerTypes /\ CountTypes
  BY TypeParts DEF TypeInv
<1>2. /\ toServer # << >> /\ toServer' = Tail(toServer) /\ lock' = TRUE
      /\ jobs' = Append(jobs, job)
      /\ UNCHANGED <<changes, link, toClient, clientVars, server, pending, historyVars, bounds>>
  BY DEF WebSocketMessage
<1>3. message \in SUBSET Sent /\ toServer' \in Seq(SUBSET Sent)
  BY <1>1, <1>2, SeqTypes DEF WireTypes
<1> HIDE DEF message
<1>4. AnswerTo(message) \in SUBSET Answer
  BY <1>3 DEF AnswerTo, Sent, Answer
<1>5. job \in JobType
  BY <1>3, <1>4
<1> HIDE DEF job
<1>6. jobs' \in Seq(JobType)
  <2>1. jobs \in Seq(JobType)
    BY <1>1 DEF ServerTypes
  <2> HIDE DEF JobType
  <2> QED
    BY <1>2, <1>5, <2>1, SeqTypes
<1> QED
  BY <1>1, <1>2, <1>3, <1>6
  DEF ClientTypes, WireTypes, ServerTypes, CountTypes, clientVars, historyVars, bounds

\* The steps of a job.
LEMMA JobTypes ==
    ASSUME TypeInv, NEW j \in DOMAIN jobs, JobStep(j) \/ ExecuteError(j) \/ ConnectError(j)
    PROVE  ClientTypes' /\ WireTypes' /\ ServerTypes' /\ CountTypes'
<1> DEFINE JobType == [pc : {"apply", "settle"}, todo : SUBSET Sent, answer : SUBSET Answer]
<1>1. ClientTypes /\ WireTypes /\ ServerTypes /\ CountTypes
  BY TypeParts DEF TypeInv
<1>2. jobs \in Seq(JobType)
  BY <1>1 DEF ServerTypes
<1>3. jobs[j] \in JobType
  <2> HIDE DEF JobType
  <2> QED
    BY <1>2
<1>4. ASSUME NEW x \in JobType, jobs' = [jobs EXCEPT ![j] = x] PROVE jobs' \in Seq(JobType)
  <2> HIDE DEF JobType
  <2> QED
    BY <1>2, <1>4
<1>5. CASE Execute(j) \/ ExecuteError(j)
  <2>1. PICK c \in jobs[j].todo : /\ jobs' = [jobs EXCEPT ![j].todo = @ \ {c}]
                                  /\ tried' = tried \cup {c.v}
                                  /\ server' \in {server, [server EXCEPT ![c.e] = Written(c)]}
    BY <1>5 DEF Execute, ExecuteError
  <2>2. c \in Sent
    BY <1>3
  <2>3. jobs' \in Seq(JobType)
    <3> DEFINE x == [jobs[j] EXCEPT !.todo = @ \ {c}]
    <3>1. x \in JobType
      BY <1>3
    <3>2. jobs' = [jobs EXCEPT ![j] = x]
      BY <2>1
    <3> HIDE DEF x, JobType
    <3> QED
      BY <1>4, <3>1, <3>2
  <2>4. tried' \subseteq ChangeId
    BY <1>1, <2>1, <2>2 DEF CountTypes, Sent
  <2>5. server' \in [Entity -> {Absent} \cup 0..MaxChanges]
    <3>1. c.e \in Entity /\ c.v \in 0..MaxChanges /\ c.op \in Op
      BY <2>2, BoundsNat DEF Sent, ChangeId
    <3>2. Written(c) \in {Absent} \cup 0..MaxChanges
      BY <1>1, <3>1 DEF Written, ServerTypes, Op
    <3> QED
      BY <1>1, <2>1, <3>1, <3>2 DEF ServerTypes
  <2>6. /\ UNCHANGED <<changes, netVars, clientVars, lock, pending, overtaken, notices, reloads>>
        /\ faults' \in {faults, faults + 1}
    BY <1>5 DEF Execute, ExecuteError, Fault, bounds
  <2> QED
    BY <1>1, <2>3, <2>4, <2>5, <2>6
    DEF ClientTypes, WireTypes, ServerTypes, CountTypes, netVars, clientVars
<1>6. CASE SendChangesApplied(j)
  <2>1. /\ jobs' = [jobs EXCEPT ![j].pc = "settle"]
        /\ toClient' \in {toClient, Append(toClient, jobs[j].answer)}
        /\ UNCHANGED <<changes, link, toServer, clientVars, server, lock, pending, historyVars, bounds>>
    BY <1>6 DEF SendChangesApplied
  <2>2. jobs' \in Seq(JobType)
    <3> DEFINE x == [jobs[j] EXCEPT !.pc = "settle"]
    <3>1. x \in JobType
      BY <1>3
    <3>2. jobs' = [jobs EXCEPT ![j] = x]
      BY <2>1
    <3> HIDE DEF x, JobType
    <3> QED
      BY <1>4, <3>1, <3>2
  <2>3. toClient' \in Seq(SUBSET Answer)
    <3>1. toClient \in Seq(SUBSET Answer) /\ jobs[j].answer \in SUBSET Answer
      BY <1>1, <1>3 DEF WireTypes
    <3>2. Append(toClient, jobs[j].answer) \in Seq(SUBSET Answer)
      BY <3>1, SeqTypes
    <3> QED
      BY <2>1, <3>1, <3>2
  <2> QED
    BY <1>1, <2>1, <2>2, <2>3
    DEF ClientTypes, WireTypes, ServerTypes, CountTypes, clientVars, historyVars, bounds
<1>7. CASE NotifyClientChangesComplete(j) \/ ConnectError(j)
  <2>1. /\ jobs' = SubSeq(jobs, 1, j-1) \o SubSeq(jobs, j+1, Len(jobs)) /\ Release
        /\ UNCHANGED <<changes, netVars, clientVars, server, historyVars, notices, reloads>>
        /\ faults' \in {faults, faults + 1}
    BY <1>7 DEF NotifyClientChangesComplete, ConnectError, RemoveAt, Fault, bounds
  <2>2. jobs' \in Seq(JobType)
    <3> HIDE DEF JobType
    <3> QED
      BY <1>2, <2>1, SeqTypes
  <2>3. lock' \in BOOLEAN /\ pending' \in Nat
    BY <1>1, <2>1 DEF Release, ServerTypes
  <2> QED
    BY <1>1, <2>1, <2>2, <2>3
    DEF ClientTypes, WireTypes, ServerTypes, CountTypes, netVars, clientVars, historyVars
<1> QED
  BY <1>5, <1>6, <1>7 DEF JobStep

\* Every step keeps the types.
LEMMA NextTypes ==
    ASSUME TypeInv, [Next]_vars
    PROVE  TypeInv'
<1>1. WireInv'
  BY NextWire DEF TypeInv
<1>2. ClientTypes' /\ WireTypes' /\ ServerTypes' /\ CountTypes'
  <2>1. CASE UNCHANGED vars
    <3>1. ClientTypes /\ WireTypes /\ ServerTypes /\ CountTypes
      BY TypeParts DEF TypeInv
    <3> QED
      BY <2>1, <3>1 DEF vars, netVars, clientVars, serverVars, historyVars, bounds,
                        ClientTypes, WireTypes, ServerTypes, CountTypes
  <2> QED
    BY <2>1, TrackChangeTypes, ClientStepTypes, LinkTypes, HandleChangesAppliedTypes,
       WebSocketMessageTypes, JobTypes DEF Next
<1>3. (TypeOK /\ Len(changes) <= MaxChanges)'
  BY <1>2 DEF TypeOK, ClientTypes, WireTypes, ServerTypes, CountTypes
<1> QED
  BY <1>1, <1>3 DEF TypeInv

\* The types hold in every reachable state, for any rows, limits and bounds: among
\* them that no change waits in the queue twice, however tracking, loading, failing
\* queries and timeouts put changes back into it.
THEOREM TypeCorrect == Spec => []TypeOK
<1>1. TypeInv => TypeOK
  BY DEF TypeInv
<1> QED
  BY <1>1, InitTypes, NextTypes, PTL DEF Spec

=============================================================================
