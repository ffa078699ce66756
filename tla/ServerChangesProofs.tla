------------------------ MODULE ServerChangesProofs ------------------------
(***************************************************************************)
(* Proofs about ServerChanges for any rows, chunk and batch sizes, numbers *)
(* of sessions and bounds: what is on its way to a client, or still to be  *)
(* sent in one of its sessions, never holds rows labelled with its own id; *)
(* the types; and that no LSN passes a row the browser was not given, if a *)
(* transaction is one row and connections end only when nothing is under   *)
(* way on them.                                                            *)
(***************************************************************************)
EXTENDS ServerChanges, FiniteNumbers

-----------------------------------------------------------------------------
(* Sequences of chunks without own rows.                                   *)

ForeignChunk(c) == \A r \in c.rows : ~r.own

Foreign(q) ==
    /\ q \in Seq({ q[i] : i \in DOMAIN q })
    /\ \A i \in DOMAIN q : ForeignChunk(q[i])

\* No chunks at all.
LEMMA ForeignEmpty == Foreign(<< >>)
  BY DEF Foreign

\* Whatever set the chunks are taken from.
LEMMA ForeignOver ==
    ASSUME NEW S, NEW q \in Seq(S), \A c \in S : ForeignChunk(c)
    PROVE  Foreign(q)
<1>1. PICK n \in Nat : q \in [1..n -> S]
  OBVIOUS
<1> DEFINE R == { q[i] : i \in DOMAIN q }
<1>2. q \in [1..n -> R]
  BY <1>1
<1>3. q \in Seq(R)
  <2> HIDE DEF R
  <2> QED
    BY <1>2
<1>4. \A i \in DOMAIN q : q[i] \in S
  BY <1>1
<1> QED
  BY <1>3, <1>4 DEF Foreign

\* One more chunk, one chunk less, two stretches of chunks.
LEMMA ForeignOperations ==
    ASSUME NEW q, Foreign(q)
    PROVE  /\ \A c : ForeignChunk(c) => Foreign(Append(q, c))
           /\ q # << >> => ForeignChunk(Head(q)) /\ Foreign(Tail(q))
           /\ \A p : Foreign(p) => Foreign(q \o p)
<1> DEFINE S == { q[i] : i \in DOMAIN q }
<1>1. q \in Seq(S) /\ \A c \in S : ForeignChunk(c)
  BY DEF Foreign
<1> HIDE DEF S
<1>2. ASSUME NEW c, ForeignChunk(c) PROVE Foreign(Append(q, c))
  <2>1. q \in Seq(S \cup {c})
    BY <1>1, SeqMonotone
  <2>2. Append(q, c) \in Seq(S \cup {c})
    BY <2>1
  <2> QED
    BY <1>1, <1>2, <2>2, ForeignOver
<1>3. ASSUME q # << >> PROVE ForeignChunk(Head(q)) /\ Foreign(Tail(q))
  <2>1. Head(q) \in S /\ Tail(q) \in Seq(S)
    BY <1>1, <1>3, SeqTypes
  <2> QED
    BY <1>1, <2>1, ForeignOver
<1>4. ASSUME NEW p, Foreign(p) PROVE Foreign(q \o p)
  <2> DEFINE T == { p[i] : i \in DOMAIN p }
  <2>1. p \in Seq(T) /\ \A c \in T : ForeignChunk(c)
    BY <1>4 DEF Foreign
  <2> HIDE DEF T
  <2>2. q \in Seq(S \cup T) /\ p \in Seq(S \cup T)
    BY <1>1, <2>1, SeqMonotone
  <2>3. q \o p \in Seq(S \cup T)
    BY <2>2
  <2>4. \A c \in S \cup T : ForeignChunk(c)
    BY <1>1, <2>1
  <2> HIDE DEF ForeignChunk
  <2> QED
    BY <2>3, <2>4, ForeignOver
<1> QED
  BY <1>2, <1>3, <1>4

\* The chunks of a query's rows have none of the client's own.
LEMMA ForeignChunks ==
    ASSUME NEW raw, IsFiniteSet(raw)
    PROVE  /\ Foreign(Chunks(raw))
           /\ Foreign([i \in DOMAIN Chunks(raw) |-> [Chunks(raw)[i] EXCEPT !.n = 0]])
<1> DEFINE rows == Processed(raw)
           Rank(r) == Cardinality({q \in rows : Before(raw, q, r)}) + 1
           Part(i) == {r \in rows : (i-1) * ChunkSize < Rank(r) /\ Rank(r) <= i * ChunkSize}
           LastOf(P) == CHOOSE r \in P : \A q \in P : Rank(q) <= Rank(r)
           chunk(i) == [n |-> i, rows |-> Part(i), lsn |-> LastOf(Part(i)).lsn]
           count == (Cardinality(rows) + ChunkSize - 1) \div ChunkSize
<1>1. Chunks(raw) = [i \in 1..count |-> chunk(i)]
  BY DEF Chunks
<1>2. count \in Int
  <2>1. rows \in SUBSET raw
    BY DEF Processed, Latest
  <2>2. Cardinality(rows) \in Nat
    BY <2>1, FS_Subset, FS_CardinalityType
  <2>3. ChunkSize \in Nat \ {0}
    BY SizesPositive
  <2> HIDE DEF rows
  <2> QED
    BY <2>2, <2>3
<1>3. \A i : ForeignChunk(chunk(i))
  BY DEF ForeignChunk, Processed
<1> HIDE DEF rows, Rank, Part, LastOf, count
<1>4. \A i : chunk(i).rows = Part(i) /\ [chunk(i) EXCEPT !.n = 0].rows = Part(i)
  OBVIOUS
<1>5. \A i : ForeignChunk([chunk(i) EXCEPT !.n = 0])
  BY <1>3, <1>4 DEF ForeignChunk
<1> HIDE DEF chunk
<1>6. ASSUME NEW q, DOMAIN q = 1..count, q = [i \in DOMAIN q |-> q[i]],
             \A i \in DOMAIN q : ForeignChunk(q[i])
      PROVE  Foreign(q)
  <2>1. PICK k \in Nat : 1..count = 1..k
    <3>1. CASE count >= 0
      BY <1>2, <3>1
    <3>2. CASE count < 0
      <4>1. 1..count = 1..0
        BY <1>2, <3>2
      <4> QED
        BY <4>1
    <3> QED
      BY <1>2, <3>1, <3>2
  <2> DEFINE S == { q[i] : i \in DOMAIN q }
  <2>2. q \in [1..k -> S]
    BY <1>6, <2>1
  <2>3. q \in Seq(S)
    <3> HIDE DEF S
    <3> QED
      BY <2>2
  <2> QED
    BY <1>6, <2>3 DEF Foreign
<1>7. Foreign(Chunks(raw))
  BY <1>1, <1>3, <1>6
<1>8. Foreign([i \in DOMAIN Chunks(raw) |-> [Chunks(raw)[i] EXCEPT !.n = 0]])
  <2> DEFINE q == [i \in DOMAIN Chunks(raw) |-> [Chunks(raw)[i] EXCEPT !.n = 0]]
  <2>1. DOMAIN q = 1..count /\ q = [i \in DOMAIN q |-> q[i]]
    BY <1>1
  <2>2. \A i \in DOMAIN q : ForeignChunk(q[i])
    BY <1>1, <1>5
  <2> HIDE DEF q
  <2>3. Foreign(q)
    BY <1>6, <2>1, <2>2
  <2> QED
    BY <2>3 DEF q
<1> QED
  BY <1>7, <1>8

-----------------------------------------------------------------------------
(* The invariant: chunks under way and chunks to be sent are foreign.      *)

SessionForeign(x) ==
    /\ {"pc", "todo"} \subseteq DOMAIN x
    /\ Foreign(x.todo)
    /\ x.pc = "await" => x.todo # << >>

EchoInv ==
    /\ IsFiniteSet(history)
    /\ Foreign(toClient)
    /\ DOMAIN sess = Session
    /\ \A s \in Session : SessionForeign(sess[s])

\* A session that does nothing has nothing to send.
LEMMA IdleForeign == SessionForeign(IdleSession)
  BY ForeignEmpty DEF SessionForeign, IdleSession

\* At the start nothing is under way.
LEMMA InitEcho == Init => EchoInv
<1> SUFFICES ASSUME Init PROVE EchoInv
  OBVIOUS
<1>1. IsFiniteSet(history)
  BY FS_EmptySet DEF Init
<1>2. DOMAIN sess = Session /\ \A s \in Session : sess[s] = IdleSession
  BY DEF Init
<1> QED
  BY <1>1, <1>2, IdleForeign, ForeignEmpty DEF Init, EchoInv

\* Changing one session, and sending at most a foreign chunk, keeps the invariant.
LEMMA SessionEcho ==
    ASSUME EchoInv, UNCHANGED history,
           NEW s \in Session, NEW x, SessionForeign(x), sess' = [sess EXCEPT ![s] = x],
           Foreign(toClient')
    PROVE  EchoInv'
<1>1. DOMAIN sess' = Session /\ \A r \in Session : sess'[r] = IF r = s THEN x ELSE sess[r]
  BY DEF EchoInv
<1>2. \A r \in Session : SessionForeign(sess'[r])
  BY <1>1 DEF EchoInv
<1> QED
  BY <1>1, <1>2 DEF EchoInv

\* A transaction writes finitely many rows.
LEMMA CommitFinite ==
    ASSUME IsFiniteSet(history), Commit
    PROVE  IsFiniteSet(history')
<1>1. PICK ids \in (SUBSET Entity) \ {{}}, op \in {"write", "delete"}, own \in BOOLEAN :
         history' = history \cup
            { [lsn |-> ServerLSN + 1, id |-> i, op |-> op, own |-> own] : i \in ids }
  BY DEF Commit
<1> DEFINE f == [i \in ids |-> [lsn |-> ServerLSN + 1, id |-> i, op |-> op, own |-> own]]
           T == { f[i] : i \in ids }
<1>2. IsFiniteSet(ids)
  BY EntityNumbers, FS_Subset
<1>3. f \in Surjection(ids, T)
  BY DEF Surjection
<1>4. IsFiniteSet(T)
  <2> HIDE DEF f, T
  <2> QED
    BY <1>2, <1>3, FS_Surjection
<1>5. history' = history \cup T
  BY <1>1
<1> QED
  BY <1>4, <1>5, FS_Union

\* Steps of a catch-up session.
LEMMA SessionStepEcho ==
    ASSUME EchoInv, NEW s \in Session, SessionStep(s)
    PROVE  EchoInv'
<1>1. SessionForeign(sess[s]) /\ Foreign(toClient)
  BY DEF EchoInv
<1>2. CASE DetermineSyncStrategy(s)
  <2>1. /\ UNCHANGED history
        /\ \/ sess' = [sess EXCEPT ![s].pc = "query"] /\ UNCHANGED toClient
           \/ sess' = [sess EXCEPT ![s] = IdleSession]
              /\ toClient' \in {toClient, Append(toClient, [NoRows EXCEPT !.lsn = sess[s].lsn])}
    BY <1>2 DEF DetermineSyncStrategy, dbVars
  <2>2. ForeignChunk([NoRows EXCEPT !.lsn = sess[s].lsn])
    BY DEF ForeignChunk, NoRows
  <2>3. CASE sess' = [sess EXCEPT ![s].pc = "query"] /\ UNCHANGED toClient
    <3>1. sess' = [sess EXCEPT ![s] = [sess[s] EXCEPT !.pc = "query"]]
      BY <2>3
    <3>2. SessionForeign([sess[s] EXCEPT !.pc = "query"])
      BY <1>1 DEF SessionForeign
    <3> QED
      BY <1>1, <2>1, <2>3, <3>1, <3>2, SessionEcho
  <2>4. CASE sess' = [sess EXCEPT ![s] = IdleSession]
              /\ toClient' \in {toClient, Append(toClient, [NoRows EXCEPT !.lsn = sess[s].lsn])}
    <3>1. Foreign(toClient')
      BY <1>1, <2>2, <2>4, ForeignOperations
    <3> QED
      BY <2>1, <2>4, <3>1, IdleForeign, SessionEcho
  <2> QED
    BY <2>1, <2>3, <2>4
<1>3. CASE QueryBatch(s)
  <2>1. UNCHANGED <<history, toClient>>
    BY <1>3 DEF QueryBatch, dbVars, netVars
  <2>2. PICK raw \in Limited(CatchupRows(sess[s].lsn), BatchSize) :
           sess' = [sess EXCEPT ![s] =
              IF raw = {} THEN [@ EXCEPT !.pc = "finish"]
              ELSE [@ EXCEPT !.pc = "send", !.ok = TRUE,
                             !.todo = Chunks(raw), !.upto = LSNAfter(raw),
                             !.full = Cardinality(raw) = BatchSize]]
    BY <1>3 DEF QueryBatch
  <2>3. Foreign(Chunks(raw))
    <3>1. raw \in SUBSET history
      BY DEF Limited, CatchupRows
    <3> QED
      BY <3>1, FS_Subset, ForeignChunks DEF EchoInv
  <2> DEFINE x == IF raw = {} THEN [sess[s] EXCEPT !.pc = "finish"]
                  ELSE [sess[s] EXCEPT !.pc = "send", !.ok = TRUE,
                             !.todo = Chunks(raw), !.upto = LSNAfter(raw),
                             !.full = Cardinality(raw) = BatchSize]
  <2>4. sess' = [sess EXCEPT ![s] = x]
    BY <2>2
  <2>5. SessionForeign(x)
    BY <1>1, <2>3 DEF SessionForeign
  <2> HIDE DEF x
  <2> QED
    BY <1>1, <2>1, <2>4, <2>5, SessionEcho
<1>4. CASE SendChunk(s)
  <2> DEFINE c == Head(sess[s].todo)
  <2>1. /\ UNCHANGED history /\ sess[s].pc = "send" /\ sess[s].todo # << >>
        /\ toClient' \in {toClient, Append(toClient, c)}
        /\ \/ sess' = [sess EXCEPT ![s].todo = Tail(@), ![s].ok = FALSE]
           \/ sess' = [sess EXCEPT ![s].pc = "await"]
           \/ sess' = [sess EXCEPT ![s].todo = Tail(@)]
    BY <1>4 DEF SendChunk, dbVars
  <2>2. ForeignChunk(c) /\ Foreign(Tail(sess[s].todo))
    BY <1>1, <2>1, ForeignOperations DEF SessionForeign
  <2> HIDE DEF c
  <2>3. Foreign(toClient')
    <3>1. Foreign(Append(toClient, c))
      BY <1>1, <2>2, ForeignOperations
    <3> QED
      BY <1>1, <2>1, <3>1
  <2>4. \/ sess' = [sess EXCEPT ![s] = [sess[s] EXCEPT !.todo = Tail(sess[s].todo), !.ok = FALSE]]
        \/ sess' = [sess EXCEPT ![s] = [sess[s] EXCEPT !.pc = "await"]]
        \/ sess' = [sess EXCEPT ![s] = [sess[s] EXCEPT !.todo = Tail(sess[s].todo)]]
    BY <2>1 DEF EchoInv
  <2>5. /\ SessionForeign([sess[s] EXCEPT !.todo = Tail(sess[s].todo), !.ok = FALSE])
        /\ SessionForeign([sess[s] EXCEPT !.pc = "await"])
        /\ SessionForeign([sess[s] EXCEPT !.todo = Tail(sess[s].todo)])
    BY <1>1, <2>1, <2>2 DEF SessionForeign
  <2> QED
    BY <2>1, <2>3, <2>4, <2>5, SessionEcho
<1>5. CASE AckTimeout(s)
  <2>1. /\ UNCHANGED <<history, toClient>> /\ sess[s].pc = "await"
        /\ sess' = [sess EXCEPT ![s].pc = "send", ![s].todo = Tail(@), ![s].ok = FALSE]
    BY <1>5 DEF AckTimeout, dbVars, netVars
  <2>2. Foreign(Tail(sess[s].todo))
    BY <1>1, <2>1, ForeignOperations DEF SessionForeign
  <2> DEFINE x == [sess[s] EXCEPT !.pc = "send", !.todo = Tail(sess[s].todo), !.ok = FALSE]
  <2>3. sess' = [sess EXCEPT ![s] = x]
    BY <2>1 DEF EchoInv
  <2>4. SessionForeign(x)
    BY <1>1, <2>2 DEF SessionForeign
  <2> HIDE DEF x
  <2> QED
    BY <1>1, <2>1, <2>3, <2>4, SessionEcho
<1>6. CASE BatchDone(s)
  <2>1. UNCHANGED <<history, toClient>>
    BY <1>6 DEF BatchDone, dbVars, netVars
  <2> DEFINE x == IF ~sess[s].ok THEN [sess[s] EXCEPT !.pc = "failed"]
                  ELSE [sess[s] EXCEPT !.lsn = sess[s].upto,
                         !.pc = IF sess[s].full THEN "query" ELSE "finish"]
  <2>2. sess' = [sess EXCEPT ![s] = x]
    BY <1>6 DEF BatchDone
  <2>3. SessionForeign(x)
    BY <1>1 DEF SessionForeign
  <2> HIDE DEF x
  <2> QED
    BY <1>1, <2>1, <2>2, <2>3, SessionEcho
<1>7. CASE Finish(s) \/ Fail(s)
  <2>1. UNCHANGED <<history, toClient>> /\ sess' = [sess EXCEPT ![s] = IdleSession]
    BY <1>7 DEF Finish, Fail, dbVars, netVars
  <2> QED
    BY <1>1, <2>1, IdleForeign, SessionEcho
<1> QED
  BY <1>2, <1>3, <1>4, <1>5, <1>6, <1>7 DEF SessionStep

\* An ack ends the waits for its chunk.
LEMMA WebSocketMessageEcho ==
    ASSUME EchoInv, WebSocketMessage
    PROVE  EchoInv'
<1> DEFINE m == Head(toServer)
<1>1. /\ UNCHANGED <<history, toClient>>
      /\ sess' = [s \in Session |->
            IF sess[s].pc = "await" /\ Head(sess[s].todo).n = m.n
            THEN [sess[s] EXCEPT !.pc = "send", !.todo = Tail(@)] ELSE sess[s]]
  BY DEF WebSocketMessage, ReceiveAck, dbVars
<1> HIDE DEF m
<1>2. ASSUME NEW s \in Session PROVE SessionForeign(sess'[s])
  <2>1. SessionForeign(sess[s])
    BY DEF EchoInv
  <2>2. CASE sess[s].pc = "await"
    <3>1. Foreign(Tail(sess[s].todo))
      BY <2>1, <2>2, ForeignOperations DEF SessionForeign
    <3>2. SessionForeign([sess[s] EXCEPT !.pc = "send", !.todo = Tail(sess[s].todo)])
      BY <2>1, <3>1 DEF SessionForeign
    <3>3. sess'[s] \in {sess[s], [sess[s] EXCEPT !.pc = "send", !.todo = Tail(sess[s].todo)]}
      BY <1>1
    <3> QED
      BY <2>1, <3>2, <3>3
  <2>3. CASE sess[s].pc # "await"
    BY <1>1, <2>1, <2>3
  <2> QED
    BY <2>2, <2>3
<1>3. DOMAIN sess' = Session
  BY <1>1
<1> QED
  BY <1>1, <1>2, <1>3 DEF EchoInv

\* A live update is made of foreign chunks.
LEMMA SendLiveChangesEcho ==
    ASSUME EchoInv, NEW n \in Notice, SendLiveChanges(n)
    PROVE  EchoInv'
<1>1. UNCHANGED <<history, sess>>
  BY DEF SendLiveChanges, dbVars
<1>2. PICK raw \in Limited(LiveRows(notice[n].lsn, notice[n].upto), LiveLimit) :
         LiveUpdate(n, raw)
  BY DEF SendLiveChanges
<1> DEFINE chunks == [i \in DOMAIN Chunks(raw) |-> [Chunks(raw)[i] EXCEPT !.n = 0]]
<1>3. Foreign(chunks)
  <2>1. raw \in SUBSET history
    BY DEF Limited, LiveRows
  <2> QED
    BY <2>1, FS_Subset, ForeignChunks DEF EchoInv
<1>4. toClient' = toClient \/ toClient' = toClient \o chunks
  BY <1>2 DEF LiveUpdate
<1> HIDE DEF chunks
<1>5. Foreign(toClient) /\ Foreign(toClient \o chunks)
  BY <1>3, ForeignOperations DEF EchoInv
<1>6. Foreign(toClient')
  BY <1>4, <1>5
<1> QED
  BY <1>1, <1>6 DEF EchoInv

\* Every step keeps the invariant.
LEMMA NextEcho ==
    ASSUME EchoInv, [Next]_vars
    PROVE  EchoInv'
<1> USE ForeignEmpty
<1>1. CASE Commit
  <2>1. UNCHANGED <<toClient, sess>>
    BY <1>1 DEF Commit, netVars
  <2> QED
    BY <1>1, <2>1, CommitFinite DEF EchoInv
<1>2. ASSUME NEW s \in Session, Connect(s) PROVE EchoInv'
  <2> DEFINE x == [IdleSession EXCEPT !.pc = "accepted", !.lsn = urlLsn]
  <2>1. UNCHANGED <<history, toClient>> /\ sess' = [sess EXCEPT ![s] = x]
    BY <1>2 DEF Connect, dbVars
  <2>2. SessionForeign(x)
    BY IdleForeign DEF SessionForeign, IdleSession
  <2> HIDE DEF x
  <2>3. Foreign(toClient')
    BY <2>1 DEF EchoInv
  <2> QED
    BY <2>1, <2>2, <2>3, SessionEcho
<1>3. ASSUME NEW s \in Session, SessionStep(s) PROVE EchoInv'
  BY <1>3, SessionStepEcho
<1>4. ASSUME NEW n \in Notice, NewChanges(n) PROVE EchoInv'
  BY <1>4 DEF NewChanges, netVars, EchoInv
<1>5. CASE Hibernate \/ Apply \/ ApplyError \/ UNCHANGED vars
  <2>1. UNCHANGED <<history, toClient, sess>>
    BY <1>5 DEF Hibernate, Apply, ApplyError, vars, dbVars, netVars
  <2> QED
    BY <2>1 DEF EchoInv
<1>6. CASE Receive
  <2>1. toClient # << >> /\ toClient' = Tail(toClient) /\ UNCHANGED <<history, sess>>
    BY <1>6 DEF Receive, dbVars
  <2>2. Foreign(toClient')
    BY <2>1, ForeignOperations DEF EchoInv
  <2> QED
    BY <2>1, <2>2 DEF EchoInv
<1>7. CASE Disconnect \/ Reload
  <2>1. toClient' = << >> /\ UNCHANGED <<history, sess>>
    BY <1>7 DEF Disconnect, Reload, dbVars
  <2> QED
    BY <2>1 DEF EchoInv
<1>8. CASE Evict
  <2>1. /\ toClient' = << >> /\ UNCHANGED history
        /\ sess' = [s \in Session |-> IdleSession]
    BY <1>8 DEF Evict, dbVars
  <2> QED
    BY <2>1, IdleForeign DEF EchoInv
<1> QED
  BY <1>1, <1>2, <1>3, <1>4, <1>5, <1>6, <1>7, <1>8, WebSocketMessageEcho,
     SendLiveChangesEcho DEF Next

\* No row labelled with the client's own id is ever on its way to it, whether it
\* comes from a catch-up session or a live update.
THEOREM NeverEchoed == Spec => []OwnNotEchoed
<1>1. EchoInv => OwnNotEchoed
  BY DEF EchoInv, Foreign, ForeignChunk, OwnNotEchoed
<1> QED
  BY <1>1, InitEcho, NextEcho, PTL DEF Spec

-----------------------------------------------------------------------------
(* Chunks of places.                                                       *)

\* Rounding up: so many chunks of size c hold n rows, one chunk less does not.
LEMMA RoundedUp ==
    ASSUME NEW n \in Nat, NEW c \in Nat \ {0}
    PROVE  LET k == (n + c - 1) \div c
           IN  /\ k \in Nat /\ k <= n
               /\ n <= k * c
               /\ k > 0 => (k - 1) * c < n
<1> DEFINE k == (n + c - 1) \div c
<1>1. k \in Int /\ k * c <= n + c - 1 /\ n + c - 1 < (k + 1) * c
  BY Z3
<1> HIDE DEF k
<1>2. (k + 1) * c = k * c + c /\ (k - 1) * c = k * c - c
  BY <1>1, Z3
<1>3. n <= k * c /\ (k - 1) * c < n
  BY <1>1, <1>2
<1>4. k >= 0
  <2>1. ASSUME k < 0 PROVE FALSE
    <3>1. k + 1 <= 0
      BY <1>1, <2>1
    <3>2. (k + 1) * c <= 0
      BY <1>1, <3>1, Z3
    <3> QED
      BY <1>1, <3>2
  <2> QED
    BY <1>1, <2>1
<1>5. k <= n
  <2>1. ASSUME k > n PROVE FALSE
    <3>1. k - 1 >= n
      BY <1>1, <2>1
    <3>2. (k - 1) * c >= k - 1
      <4>1. k - 1 \in Nat
        BY <1>1, <3>1
      <4>2. \A x \in Nat : x * c >= x
        BY Z3
      <4> QED
        BY <4>1, <4>2
    <3> QED
      BY <1>1, <1>3, <3>1, <3>2
  <2> QED
    BY <1>1, <2>1
<1> QED
  BY <1>1, <1>3, <1>4, <1>5 DEF k

\* Every place from the first to the last of such chunks is in one of them.
LEMMA ChunkOfPlace ==
    ASSUME NEW c \in Nat \ {0}, NEW k \in Nat, NEW p \in Nat \ {0}, p <= k * c
    PROVE  \E i \in 1..k : (i - 1) * c < p /\ p <= i * c
<1> DEFINE S == { i \in 1..k : p <= i * c }
<1>1. k # 0
  BY Z3
<1>2. k \in S
  BY <1>1
<1>3. S \in SUBSET (1..k) /\ S \in SUBSET Int /\ IsFiniteSet(S)
  <2>1. S \in SUBSET (1..k) /\ S \in SUBSET Int
    OBVIOUS
  <2>2. IsFiniteSet(1..k)
    BY FS_Interval
  <2> HIDE DEF S
  <2> QED
    BY <2>1, <2>2, FS_Subset
<1> HIDE DEF S
<1>4. PICK i \in S : \A j \in S : i <= j
  BY <1>2, <1>3, LeastExists
<1>5. i \in 1..k /\ p <= i * c
  BY <1>4 DEF S
<1>6. (i - 1) * c < p
  <2>1. CASE i = 1
    <3>1. (i - 1) * c = 0
      BY <2>1, Z3
    <3> QED
      BY <3>1
  <2>2. CASE i > 1
    <3>1. i - 1 \in 1..k /\ i - 1 \notin S
      BY <1>3, <1>4, <1>5, <2>2
    <3>2. ~(p <= (i - 1) * c)
      BY <3>1 DEF S
    <3>3. (i - 1) * c \in Int
      BY <3>1
    <3> QED
      BY <3>2, <3>3
  <2> QED
    BY <1>5, <2>1, <2>2
<1> QED
  BY <1>5, <1>6

-----------------------------------------------------------------------------
(* The rows of a query, one for each entity, in order and cut into chunks. *)

\* Finitely many rows, of which no two tell of one entity at one LSN.
Rows(raw) ==
    /\ raw \subseteq Row /\ IsFiniteSet(raw)
    /\ \A r, q \in raw : r.id = q.id /\ r.lsn = q.lsn => r = q

\* So are those a query returns.
LEMMA RowsSubset ==
    ASSUME NEW h, Rows(h), NEW raw \in SUBSET h
    PROVE  Rows(raw)
<1>1. IsFiniteSet(raw)
  BY FS_Subset DEF Rows
<1> QED
  BY <1>1 DEF Rows

\* The types of the fields of a row.
LEMMA RowTypes ==
    ASSUME NEW r \in Row
    PROVE  r.lsn \in Nat /\ r.id \in Entity /\ r.id \in Nat /\ r.own \in BOOLEAN
  BY EntityNumbers DEF Row

\* The LSNs of some rows.
LEMMA LsnsOfRows ==
    ASSUME NEW raw, raw \subseteq Row, IsFiniteSet(raw)
    PROVE  /\ {r.lsn : r \in raw} \in SUBSET Int
           /\ IsFiniteSet({r.lsn : r \in raw})
<1> DEFINE f == [r \in raw |-> r.lsn]
           T == {r.lsn : r \in raw}
<1>1. f \in Surjection(raw, T)
  BY DEF Surjection
<1>2. IsFiniteSet(T)
  <2> HIDE DEF f, T
  <2> QED
    BY <1>1, FS_Surjection
<1>3. T \in SUBSET Int
  BY RowTypes
<1> QED
  BY <1>2, <1>3

\* The newest row of an entity is among the latest.
LEMMA LatestExists ==
    ASSUME NEW raw, Rows(raw), NEW r \in raw
    PROVE  \E q \in Latest(raw) : q.id = r.id /\ r.lsn <= q.lsn
<1> DEFINE S == {q \in raw : q.id = r.id}
           T == {q.lsn : q \in S}
<1>1. S \subseteq Row /\ IsFiniteSet(S)
  <2>1. IsFiniteSet(S)
    BY FS_Subset DEF Rows
  <2> QED
    BY <2>1 DEF Rows
<1>2. T \in SUBSET Int /\ IsFiniteSet(T)
  <2> HIDE DEF S
  <2> QED
    BY <1>1, LsnsOfRows
<1>3. T # {}
  OBVIOUS
<1>4. PICK m \in T : \A x \in T : x <= m
  <2> HIDE DEF T
  <2> QED
    BY <1>2, <1>3, GreatestExists
<1>5. PICK q \in S : q.lsn = m
  BY <1>4
<1>6. \A p \in S : p.lsn <= q.lsn
  BY <1>4, <1>5
<1> QED
  BY <1>5, <1>6 DEF Latest

\* The first LSN of an entity.
LEMMA FirstExists ==
    ASSUME NEW raw, Rows(raw), NEW r \in raw
    PROVE  FirstLSN(raw, r.id) \in Nat
<1> DEFINE S == {q \in raw : q.id = r.id}
           T == {q.lsn : q \in S}
<1>1. S \subseteq Row /\ IsFiniteSet(S)
  <2>1. IsFiniteSet(S)
    BY FS_Subset DEF Rows
  <2> QED
    BY <2>1 DEF Rows
<1>2. T \in SUBSET Int /\ IsFiniteSet(T)
  <2> HIDE DEF S
  <2> QED
    BY <1>1, LsnsOfRows
<1>3. T # {}
  OBVIOUS
<1>4. PICK m \in T : \A x \in T : m <= x
  <2> HIDE DEF T
  <2> QED
    BY <1>2, <1>3, LeastExists
<1>5. /\ m \in {q.lsn : q \in raw}
      /\ \E q \in raw : q.id = r.id /\ q.lsn = m
      /\ \A q \in raw : q.id = r.id => m <= q.lsn
  BY <1>4
<1>6. FirstLSN(raw, r.id) \in {q.lsn : q \in raw}
  BY <1>5 DEF FirstLSN
<1> QED
  BY <1>6, RowTypes DEF Rows

\* The order of what is sent is total.
LEMMA BeforeIsTotal ==
    ASSUME NEW raw, Rows(raw)
    PROVE  /\ \A a \in Processed(raw) : ~Before(raw, a, a)
           /\ \A a, b, c \in Processed(raw) :
                 Before(raw, a, b) /\ Before(raw, b, c) => Before(raw, a, c)
           /\ \A a, b \in Processed(raw) :
                 a # b => Before(raw, a, b) \/ Before(raw, b, a)
<1>1. \A a \in Processed(raw) : a \in raw /\ a \in Row
  BY DEF Processed, Latest, Rows
<1>2. \A a \in Processed(raw) :
        /\ DomainKey(a) \in Nat /\ FirstLSN(raw, a.id) \in Nat /\ a.id \in Nat
  <2> TAKE a \in Processed(raw)
  <2>1. DomainKey(a) \in Nat
    BY DEF DomainKey
  <2>2. FirstLSN(raw, a.id) \in Nat
    BY <1>1, FirstExists
  <2> QED
    BY <1>1, <2>1, <2>2, RowTypes
<1>3. \A a, b \in Processed(raw) : a.id = b.id => a = b
  <2> SUFFICES ASSUME NEW a \in Processed(raw), NEW b \in Processed(raw), a.id = b.id
               PROVE  a = b
    OBVIOUS
  <2>1. a \in raw /\ b \in raw /\ a.lsn <= b.lsn /\ b.lsn <= a.lsn
    BY DEF Processed, Latest
  <2>2. a.lsn \in Nat /\ b.lsn \in Nat
    BY <1>1, RowTypes
  <2>3. a.lsn = b.lsn
    BY <2>1, <2>2
  <2> QED
    BY <2>1, <2>3 DEF Rows
<1>4. \A a \in Processed(raw) : ~Before(raw, a, a)
  BY <1>2 DEF Before
<1>5. \A a, b, c \in Processed(raw) :
         Before(raw, a, b) /\ Before(raw, b, c) => Before(raw, a, c)
  <2> TAKE a, b, c \in Processed(raw)
  <2>1. /\ DomainKey(a) \in Nat /\ FirstLSN(raw, a.id) \in Nat /\ a.id \in Nat
        /\ DomainKey(b) \in Nat /\ FirstLSN(raw, b.id) \in Nat /\ b.id \in Nat
        /\ DomainKey(c) \in Nat /\ FirstLSN(raw, c.id) \in Nat /\ c.id \in Nat
    BY <1>2
  <2> HIDE DEF DomainKey, FirstLSN
  <2> QED
    BY <2>1 DEF Before
<1>6. \A a, b \in Processed(raw) : a # b => Before(raw, a, b) \/ Before(raw, b, a)
  <2> TAKE a, b \in Processed(raw)
  <2>1. /\ DomainKey(a) \in Nat /\ FirstLSN(raw, a.id) \in Nat /\ a.id \in Nat
        /\ DomainKey(b) \in Nat /\ FirstLSN(raw, b.id) \in Nat /\ b.id \in Nat
    BY <1>2
  <2>2. a # b => a.id # b.id
    BY <1>3
  <2> QED
    BY <2>1, <2>2 DEF Before
<1> QED
  BY <1>4, <1>5, <1>6

\* Chunks have numbers from 1, rows of the query and the LSN of one of them;
\* together they hold every row that is to be sent.
LEMMA ChunksOf ==
    ASSUME NEW raw, Rows(raw)
    PROVE  /\ Chunks(raw) \in Seq(Chunk)
           /\ Len(Chunks(raw)) <= Cardinality(raw)
           /\ \A i \in DOMAIN Chunks(raw) :
                 /\ Chunks(raw)[i].n = i
                 /\ \E r \in raw : Chunks(raw)[i].lsn = r.lsn
           /\ \A r \in Processed(raw) :
                 \E i \in DOMAIN Chunks(raw) : r \in Chunks(raw)[i].rows
<1> DEFINE rows == Processed(raw)
           Rank(r) == Cardinality({q \in rows : Before(raw, q, r)}) + 1
           Part(i) == {r \in rows : (i-1) * ChunkSize < Rank(r) /\ Rank(r) <= i * ChunkSize}
           LastOf(P) == CHOOSE r \in P : \A q \in P : Rank(q) <= Rank(r)
           chunk(i) == [n |-> i, rows |-> Part(i), lsn |-> LastOf(Part(i)).lsn]
           N == Cardinality(rows)
           count == (N + ChunkSize - 1) \div ChunkSize
           lower == [r \in rows |-> {q \in rows : Before(raw, q, r)}]
           rank == [r \in rows |-> Cardinality(lower[r]) + 1]
<1>1. Chunks(raw) = [i \in 1..count |-> chunk(i)]
  BY DEF Chunks
<1>2. rows \in SUBSET raw /\ IsFiniteSet(rows) /\ N \in Nat /\ N <= Cardinality(raw)
  <2>1. rows \in SUBSET raw
    BY DEF Processed, Latest
  <2> HIDE DEF rows
  <2>2. IsFiniteSet(rows) /\ N <= Cardinality(raw)
    BY <2>1, FS_Subset DEF Rows
  <2> QED
    BY <2>1, <2>2, FS_CardinalityType
<1>3. \A r \in rows : rank[r] = Rank(r)
  <2> SUFFICES ASSUME NEW r \in rows PROVE rank[r] = Rank(r)
    OBVIOUS
  <2>1. lower[r] = {q \in rows : Before(raw, q, r)}
    OBVIOUS
  <2> QED
    BY <2>1
<1>4. /\ \A r \in rows : rank[r] \in 1..N
      /\ \A a, b \in rows : rank[a] = rank[b] => a = b
      /\ \A k \in 1..N : \E r \in rows : rank[r] = k
  <2>1. \A r \in rows : lower[r] \subseteq rows /\ r \notin lower[r]
    BY BeforeIsTotal
  <2>2. \A a, b \in rows : a \in lower[b] => lower[a] \subseteq lower[b]
    BY BeforeIsTotal
  <2>3. \A a, b \in rows : a # b => a \in lower[b] \/ b \in lower[a]
    BY BeforeIsTotal
  <2>5. DOMAIN rank = rows /\ rank = [r \in DOMAIN rank |-> rank[r]]
    OBVIOUS
  <2>6. \A r \in rows : rank[r] = Cardinality(lower[r]) + 1
    OBVIOUS
  <2> HIDE DEF rows, lower, rank, N
  <2>7. /\ \A r \in rows : rank[r] \in 1..Cardinality(rows)
        /\ \A a, b \in rows : rank[a] = rank[b] => a = b
        /\ \A k \in 1..Cardinality(rows) : \E r \in rows : rank[r] = k
    BY <1>2, <2>1, <2>2, <2>3, <2>5, <2>6, Ranks
  <2> QED
    BY <2>7 DEF N
<1>5. ChunkSize \in Nat \ {0}
  BY SizesPositive
<1> HIDE DEF rows, lower, rank
<1>6. /\ count \in Nat /\ count <= N /\ N <= count * ChunkSize
      /\ count > 0 => (count - 1) * ChunkSize < N
  <2> HIDE DEF N
  <2> QED
    BY <1>2, <1>5, RoundedUp
<1> HIDE DEF count, N
<1>7. ASSUME NEW r \in rows PROVE \E i \in 1..count : r \in Part(i)
  <2>1. rank[r] \in Nat \ {0} /\ rank[r] <= N
    BY <1>2, <1>4
  <2>2. count * ChunkSize \in Nat
    BY <1>5, <1>6
  <2>3. rank[r] <= count * ChunkSize
    BY <1>2, <1>6, <2>1, <2>2
  <2>4. \E i \in 1..count : (i - 1) * ChunkSize < rank[r] /\ rank[r] <= i * ChunkSize
    BY <1>5, <1>6, <2>1, <2>3, ChunkOfPlace
  <2> HIDE DEF Rank
  <2> QED
    BY <1>3, <2>4
<1>8. ASSUME NEW i \in 1..count PROVE Part(i) # {}
  <2>1. i - 1 \in Nat /\ i - 1 <= count - 1 /\ count > 0
    BY <1>6
  <2>2. (i - 1) * ChunkSize <= (count - 1) * ChunkSize
    <3>1. \A a, b, c \in Nat : a <= b => a * c <= b * c
      BY Z3
    <3>2. count - 1 \in Nat
      BY <1>6, <2>1
    <3> QED
      BY <1>5, <2>1, <3>1, <3>2
  <2>3. (i - 1) * ChunkSize \in Nat /\ i * ChunkSize = (i - 1) * ChunkSize + ChunkSize
    <3>1. i - 1 \in Nat /\ ChunkSize \in Nat
      BY <1>5, <2>1
    <3>2. \A a, c \in Nat : a * c \in Nat /\ (a + 1) * c = a * c + c
      BY Z3
    <3>3. (i - 1) + 1 = i
      BY <2>1
    <3> QED
      BY <3>1, <3>2, <3>3
  <2>4. (count - 1) * ChunkSize \in Int
    BY <1>5, <1>6
  <2>5. (i - 1) * ChunkSize + 1 \in 1..N
    BY <1>2, <1>6, <2>1, <2>2, <2>3, <2>4
  <2>6. PICK r \in rows : rank[r] = (i - 1) * ChunkSize + 1
    BY <1>4, <2>5
  <2>7. Rank(r) = (i - 1) * ChunkSize + 1
    BY <1>3, <2>6
  <2> HIDE DEF Rank
  <2>8. r \in Part(i)
    BY <1>5, <2>3, <2>7
  <2> QED
    BY <2>8
<1>9. ASSUME NEW i \in 1..count PROVE LastOf(Part(i)) \in Part(i)
  <2> DEFINE P == Part(i)
             f == [r \in P |-> rank[r]]
             T == {rank[r] : r \in P}
  <2>1. P \subseteq rows /\ P # {}
    BY <1>8
  <2> HIDE DEF P
  <2>2. IsFiniteSet(P)
    BY <1>2, <2>1, FS_Subset
  <2>3. f \in Surjection(P, T)
    BY DEF Surjection
  <2>4. T \in SUBSET Int /\ T # {}
    BY <1>2, <1>4, <2>1
  <2>5. IsFiniteSet(T)
    <3> HIDE DEF f, T
    <3> QED
      BY <2>2, <2>3, FS_Surjection
  <2>6. PICK m \in T : \A x \in T : x <= m
    <3> HIDE DEF T
    <3> QED
      BY <2>4, <2>5, GreatestExists
  <2>7. PICK r \in P : rank[r] = m
    BY <2>6
  <2>8. \A q \in P : rank[q] <= rank[r]
    BY <2>6, <2>7
  <2>9. \A q \in P : Rank(q) <= Rank(r)
    BY <1>3, <2>1, <2>8
  <2> HIDE DEF Rank
  <2>10. LastOf(P) \in P
    BY <2>9
  <2> QED
    BY <2>10 DEF P
<1> HIDE DEF Rank, LastOf
<1>10. ASSUME NEW i \in 1..count
       PROVE  /\ chunk(i) \in Chunk /\ chunk(i).n = i
              /\ \E r \in raw : chunk(i).lsn = r.lsn
  <2>1. Part(i) \subseteq rows
    OBVIOUS
  <2> HIDE DEF Part
  <2>2. LastOf(Part(i)) \in raw
    BY <1>2, <1>9, <2>1
  <2>3. LastOf(Part(i)).lsn \in Nat
    BY <2>2, RowTypes DEF Rows
  <2>4. Part(i) \in SUBSET Row
    BY <1>2, <2>1 DEF Rows
  <2>5. i \in Nat
    BY <1>6
  <2> QED
    BY <2>2, <2>3, <2>4, <2>5 DEF Chunk
<1> HIDE DEF Part
<1>11. Chunks(raw) \in Seq(Chunk) /\ Len(Chunks(raw)) = count /\ DOMAIN Chunks(raw) = 1..count
  <2>1. Chunks(raw) \in [1..count -> Chunk]
    <3> HIDE DEF chunk
    <3> QED
      BY <1>1, <1>10
  <2> QED
    BY <1>6, <2>1
<1>12. \A i \in 1..count : Chunks(raw)[i] = chunk(i) /\ chunk(i).rows = Part(i)
  BY <1>1
<1> HIDE DEF chunk
<1>13. Len(Chunks(raw)) <= Cardinality(raw)
  <2>1. Cardinality(raw) \in Nat
    BY FS_CardinalityType DEF Rows
  <2> QED
    BY <1>2, <1>6, <1>11, <2>1
<1>14. \A r \in Processed(raw) : \E i \in DOMAIN Chunks(raw) : r \in Chunks(raw)[i].rows
  BY <1>7, <1>11, <1>12 DEF rows
<1> QED
  BY <1>10, <1>11, <1>12, <1>13, <1>14

-----------------------------------------------------------------------------
(* Types.                                                                  *)

\* Chunks of a catch-up session have the number of a wait, live ones have none.
ClientChunk == { c \in Chunk : c.n \in 0..BatchSize }
CatchupChunk == { c \in Chunk : c.n \in ChunkNumber }

SessionType ==
    [pc : {"idle", "accepted", "query", "send", "await", "finish", "failed"},
     lsn : Nat, todo : Seq(CatchupChunk), upto : Nat, ok : BOOLEAN, full : BOOLEAN]

TypeInv ==
    /\ Rows(history) /\ noticed \in Nat
    /\ link \in BOOLEAN
    /\ toClient \in Seq(ClientChunk)
    /\ toServer \in Seq([n : ChunkNumber, lsn : Nat])
    /\ clientLsn \in Nat /\ urlLsn \in Nat /\ applying \in ClientChunk
    /\ seen \subseteq Row /\ dropped \subseteq Row
    /\ srvLsn \in Nat
    /\ acks \in [ChunkNumber -> Nat]
    /\ sess \in [Session -> SessionType]
    /\ \A s \in Session : sess[s].pc = "await" => sess[s].todo # << >>
    /\ notice \in [Notice -> [pc : {"idle", "read"}, lsn : Nat, upto : Nat]]
    /\ connects \in Nat /\ faults \in Nat

\* The last LSN of the feed.
LEMMA ServerLsnIsLast ==
    ASSUME Rows(history)
    PROVE  /\ ServerLSN \in Nat
           /\ \A r \in history : r.lsn <= ServerLSN
<1>1. CASE history = {}
  BY <1>1 DEF ServerLSN
<1>2. CASE history # {}
  <2> DEFINE T == {r.lsn : r \in history}
  <2>1. T \in SUBSET Int /\ IsFiniteSet(T)
    BY LsnsOfRows DEF Rows
  <2>2. T # {}
    BY <1>2
  <2>3. PICK m \in T : \A x \in T : x <= m
    <3> HIDE DEF T
    <3> QED
      BY <2>1, <2>2, GreatestExists
  <2>4. \A r \in history : r.lsn <= m
    BY <2>3
  <2>5. ServerLSN \in T /\ \A r \in history : r.lsn <= ServerLSN
    BY <1>2, <2>3, <2>4 DEF ServerLSN
  <2>6. \A x \in T : x \in Nat
    BY RowTypes DEF Rows
  <2> QED
    BY <2>5, <2>6
<1> QED
  BY <1>1, <1>2

\* A transaction appends rows of a new LSN.
LEMMA CommitRows ==
    ASSUME Rows(history), Commit
    PROVE  Rows(history')
<1>1. PICK ids \in (SUBSET Entity) \ {{}}, op \in {"write", "delete"}, own \in BOOLEAN :
         history' = history \cup
            { [lsn |-> ServerLSN + 1, id |-> i, op |-> op, own |-> own] : i \in ids }
  BY DEF Commit
<1>2. IsFiniteSet(history')
  BY CommitFinite DEF Rows
<1>3. ServerLSN \in Nat /\ \A r \in history : r.lsn <= ServerLSN
  BY ServerLsnIsLast
<1> DEFINE row(i) == [lsn |-> ServerLSN + 1, id |-> i, op |-> op, own |-> own]
<1>4. \A i \in ids : row(i) \in Row /\ row(i).lsn = ServerLSN + 1 /\ row(i).id = i
  BY <1>3 DEF Row
<1>5. \A r \in history' : r \in history \/ \E i \in ids : r = row(i)
  BY <1>1
<1> HIDE DEF row
<1>6. history' \subseteq Row
  BY <1>4, <1>5 DEF Rows
<1>7. ASSUME NEW r \in history', NEW q \in history', r.id = q.id, r.lsn = q.lsn
      PROVE  r = q
  <2>1. CASE r \in history /\ q \in history
    BY <1>7, <2>1 DEF Rows
  <2>2. CASE r \in history /\ q \notin history
    <3>1. r.lsn <= ServerLSN /\ q.lsn = ServerLSN + 1
      BY <1>3, <1>4, <1>5, <2>2
    <3>2. r.lsn \in Nat
      BY <2>2, RowTypes DEF Rows
    <3> QED
      BY <1>3, <1>7, <3>1, <3>2
  <2>3. CASE r \notin history /\ q \in history
    <3>1. q.lsn <= ServerLSN /\ r.lsn = ServerLSN + 1
      BY <1>3, <1>4, <1>5, <2>3
    <3>2. q.lsn \in Nat
      BY <2>3, RowTypes DEF Rows
    <3> QED
      BY <1>3, <1>7, <3>1, <3>2
  <2>4. CASE r \notin history /\ q \notin history
    <3>1. PICK i, j \in ids : r = row(i) /\ q = row(j)
      BY <1>5, <2>4
    <3> QED
      BY <1>4, <1>7, <3>1
  <2> QED
    BY <2>1, <2>2, <2>3, <2>4
<1> QED
  BY <1>2, <1>6, <1>7 DEF Rows

\* What a query returns: no more than its limit.
LEMMA LimitedRows ==
    ASSUME Rows(history), NEW S \in SUBSET history, NEW k \in Nat, NEW raw \in Limited(S, k)
    PROVE  raw \subseteq S /\ Rows(raw) /\ Cardinality(raw) \in Nat /\ Cardinality(raw) <= k
<1>1. raw \subseteq S /\ Cardinality(raw) = (IF Cardinality(S) <= k THEN Cardinality(S) ELSE k)
  BY DEF Limited
<1>2. IsFiniteSet(S)
  BY FS_Subset DEF Rows
<1>3. Cardinality(S) \in Nat
  BY <1>2, FS_CardinalityType
<1>4. Rows(raw)
  BY <1>1, RowsSubset
<1> QED
  BY <1>1, <1>3, <1>4

\* The LSN of the last chunk is one of a row of the query.
LEMMA LastChunk ==
    ASSUME NEW raw, Rows(raw), Processed(raw) # {}
    PROVE  /\ Chunks(raw) # << >>
           /\ \E r \in raw : LSNAfter(raw) = r.lsn
<1>1. DOMAIN Chunks(raw) # {} /\ Chunks(raw) \in Seq(Chunk)
  BY ChunksOf
<1>2. Len(Chunks(raw)) \in DOMAIN Chunks(raw)
  BY <1>1
<1> QED
  BY <1>1, <1>2, ChunksOf DEF LSNAfter

\* The chunks of a catch-up batch.
LEMMA CatchupChunks ==
    ASSUME Rows(history), NEW l, NEW raw \in Limited(CatchupRows(l), BatchSize), raw # {}
    PROVE  /\ Rows(raw) /\ raw \subseteq CatchupRows(l)
           /\ Processed(raw) = Latest(raw) /\ Processed(raw) # {}
           /\ Chunks(raw) \in Seq(CatchupChunk) /\ Chunks(raw) # << >>
           /\ LSNAfter(raw) \in Nat
<1>1. BatchSize \in Nat /\ CatchupRows(l) \in SUBSET history
  BY SizesPositive DEF CatchupRows
<1>2. /\ raw \subseteq CatchupRows(l) /\ Rows(raw)
      /\ Cardinality(raw) \in Nat /\ Cardinality(raw) <= BatchSize
  BY <1>1, LimitedRows
<1>3. Processed(raw) = Latest(raw)
  BY <1>2 DEF Processed, Latest, CatchupRows
<1>4. Processed(raw) # {}
  BY <1>2, <1>3, LatestExists
<1>5. Chunks(raw) # << >> /\ LSNAfter(raw) \in Nat
  BY <1>2, <1>4, LastChunk, RowTypes DEF Rows
<1>6. Chunks(raw) \in Seq(CatchupChunk)
  <2> DEFINE q == Chunks(raw)
  <2>1. q \in Seq(Chunk) /\ Len(q) <= Cardinality(raw) /\ \A i \in DOMAIN q : q[i].n = i
    BY <1>2, ChunksOf
  <2> HIDE DEF q
  <2>2. DOMAIN q = 1..Len(q) /\ Len(q) \in Nat /\ \A i \in DOMAIN q : q[i] \in Chunk
    BY <2>1
  <2>3. \A i \in DOMAIN q : q[i] \in CatchupChunk
    BY <1>1, <1>2, <2>1, <2>2 DEF CatchupChunk, ChunkNumber
  <2>4. q \in [1..Len(q) -> CatchupChunk]
    BY <2>1, <2>2, <2>3
  <2>5. q \in Seq(CatchupChunk)
    BY <2>2, <2>4
  <2> QED
    BY <2>5 DEF q
<1> QED
  BY <1>2, <1>3, <1>4, <1>5, <1>6

\* The chunks of a live update, and the LSN stored after it.
LEMMA LiveChunks ==
    ASSUME Rows(history), NEW from \in Nat, NEW upto \in Nat,
           NEW raw \in Limited(LiveRows(from, upto), LiveLimit)
    PROVE  /\ Rows(raw) /\ raw \subseteq LiveRows(from, upto)
           /\ [i \in DOMAIN Chunks(raw) |-> [Chunks(raw)[i] EXCEPT !.n = 0]] \in Seq(ClientChunk)
           /\ raw = {} => FinalLSN(upto, raw) = upto
           /\ raw # {} => \E r \in raw : FinalLSN(upto, raw) = r.lsn
           /\ FinalLSN(upto, raw) \in Nat
<1>1. LiveLimit \in Nat /\ BatchSize \in Nat /\ LiveRows(from, upto) \in SUBSET history
  BY SizesPositive DEF LiveRows
<1>2. raw \subseteq LiveRows(from, upto) /\ Rows(raw)
  BY <1>1, LimitedRows
<1>3. ASSUME raw # {} PROVE \E r \in raw : FinalLSN(upto, raw) = r.lsn
  <2>1. CASE Processed(raw) # {}
    BY <1>2, <1>3, <2>1, LastChunk DEF FinalLSN
  <2>2. CASE Processed(raw) = {}
    <3> DEFINE T == {r.lsn : r \in raw}
    <3>1. T \in SUBSET Int /\ IsFiniteSet(T)
      BY <1>2, LsnsOfRows DEF Rows
    <3>2. T # {}
      BY <1>3
    <3>3. PICK m \in T : \A x \in T : x <= m
      <4> HIDE DEF T
      <4> QED
        BY <3>1, <3>2, GreatestExists
    <3>4. \A r \in raw : r.lsn <= m
      BY <3>3
    <3>5. FinalLSN(upto, raw) \in T
      BY <1>3, <2>2, <3>3, <3>4 DEF FinalLSN
    <3> QED
      BY <3>5
  <2> QED
    BY <2>1, <2>2
<1>4. raw = {} => FinalLSN(upto, raw) = upto
  BY DEF FinalLSN
<1>5. FinalLSN(upto, raw) \in Nat
  BY <1>2, <1>3, <1>4, RowTypes DEF Rows
<1>6. [i \in DOMAIN Chunks(raw) |-> [Chunks(raw)[i] EXCEPT !.n = 0]] \in Seq(ClientChunk)
  <2> DEFINE q == Chunks(raw)
             p == [i \in DOMAIN q |-> [q[i] EXCEPT !.n = 0]]
  <2>1. q \in Seq(Chunk)
    BY <1>2, ChunksOf
  <2> HIDE DEF q
  <2>2. DOMAIN q = 1..Len(q) /\ Len(q) \in Nat /\ \A i \in DOMAIN q : q[i] \in Chunk
    BY <2>1
  <2>3. \A c \in Chunk : [c EXCEPT !.n = 0] \in ClientChunk
    BY <1>1 DEF Chunk, ClientChunk
  <2>4. p \in [1..Len(q) -> ClientChunk]
    BY <2>2, <2>3
  <2> HIDE DEF p
  <2>5. p \in Seq(ClientChunk)
    BY <2>2, <2>4
  <2> QED
    BY <2>5 DEF p, q
<1> QED
  BY <1>2, <1>3, <1>4, <1>5, <1>6

\* What the steps make of a session.
LEMMA SessionTypes ==
    ASSUME NEW x \in SessionType, NEW t \in Seq(CatchupChunk), NEW u \in Nat, NEW b \in BOOLEAN,
           NEW p \in {"idle", "accepted", "query", "send", "await", "finish", "failed"}
    PROVE  /\ [x EXCEPT !.pc = p] \in SessionType
           /\ [x EXCEPT !.todo = t] \in SessionType
           /\ [x EXCEPT !.todo = t, !.ok = FALSE] \in SessionType
           /\ [x EXCEPT !.pc = p, !.todo = t] \in SessionType
           /\ [x EXCEPT !.pc = p, !.todo = t, !.ok = FALSE] \in SessionType
           /\ [x EXCEPT !.lsn = u, !.pc = p] \in SessionType
           /\ [x EXCEPT !.pc = p, !.ok = TRUE, !.todo = t, !.upto = u, !.full = b] \in SessionType
<1> DEFINE T == Seq(CatchupChunk)
<1>1. t \in T /\ SessionType =
    [pc : {"idle", "accepted", "query", "send", "await", "finish", "failed"},
     lsn : Nat, todo : T, upto : Nat, ok : BOOLEAN, full : BOOLEAN]
  BY DEF SessionType
<1> HIDE DEF T
<1> QED
  BY <1>1

\* A session keeps its type when only its pc moves.
LEMMA SessionPc ==
    ASSUME NEW x \in SessionType,
           NEW p \in {"idle", "accepted", "query", "send", "await", "finish", "failed"}
    PROVE  [x EXCEPT !.pc = p] \in SessionType
<1>1. << >> \in Seq(CatchupChunk) /\ 0 \in Nat /\ TRUE \in BOOLEAN
  OBVIOUS
<1> QED
  BY <1>1, SessionTypes

\* The types of a session before it begins and when it is accepted.
LEMMA IdleTypes ==
    /\ IdleSession \in SessionType
    /\ \A u \in Nat : [IdleSession EXCEPT !.pc = "accepted", !.lsn = u] \in SessionType
    /\ IdleSession.pc = "idle" /\ IdleSession.todo = << >>
<1>1. << >> \in Seq(CatchupChunk)
  OBVIOUS
<1> DEFINE T == Seq(CatchupChunk)
<1>2. << >> \in T /\ SessionType =
    [pc : {"idle", "accepted", "query", "send", "await", "finish", "failed"},
     lsn : Nat, todo : T, upto : Nat, ok : BOOLEAN, full : BOOLEAN]
  BY <1>1 DEF SessionType
<1> HIDE DEF T
<1> QED
  BY <1>2 DEF IdleSession

\* One session changes.
LEMMA SessionChanged ==
    ASSUME TypeInv, NEW s \in Session, NEW x \in SessionType,
           x.pc = "await" => x.todo # << >>, sess' = [sess EXCEPT ![s] = x]
    PROVE  /\ sess' \in [Session -> SessionType]
           /\ \A r \in Session : sess'[r].pc = "await" => sess'[r].todo # << >>
<1>1. sess \in [Session -> SessionType]
  BY DEF TypeInv
<1>2. \A r \in Session : sess'[r] = IF r = s THEN x ELSE sess[r]
  BY <1>1
<1>3. \A r \in Session : sess[r].pc = "await" => sess[r].todo # << >>
  BY DEF TypeInv
<1> QED
  BY <1>1, <1>2, <1>3

\* Messages without rows, and chunks on their way.
LEMMA MessageTypes ==
    /\ NoRows \in ClientChunk
    /\ \A l \in Nat : [NoRows EXCEPT !.lsn = l] \in ClientChunk
    /\ CatchupChunk \subseteq ClientChunk
    /\ \A c \in CatchupChunk : c \in Chunk /\ c.n \in ChunkNumber /\ c.lsn \in Nat
    /\ \A c \in ClientChunk : c.n \in 0..BatchSize /\ c.lsn \in Nat /\ c.rows \subseteq Row
<1>1. BatchSize \in Nat
  BY SizesPositive
<1>2. NoRows \in ClientChunk /\ \A l \in Nat : [NoRows EXCEPT !.lsn = l] \in ClientChunk
  BY <1>1 DEF NoRows, ClientChunk, Chunk
<1>3. CatchupChunk \subseteq ClientChunk
  BY <1>1 DEF CatchupChunk, ClientChunk, ChunkNumber
<1> QED
  BY <1>2, <1>3 DEF CatchupChunk, ClientChunk, Chunk

\* The types hold at first.
LEMMA InitTypes == Init => TypeInv
<1> SUFFICES ASSUME Init PROVE TypeInv
  OBVIOUS
<1>1. Rows(history)
  BY FS_EmptySet DEF Init, Rows
<1>2. BatchSize \in Nat
  BY SizesPositive
<1>3. toClient \in Seq(ClientChunk) /\ toServer \in Seq([n : ChunkNumber, lsn : Nat])
  BY DEF Init
<1>4. acks \in [ChunkNumber -> Nat]
  BY DEF Init
<1>5. sess \in [Session -> SessionType] /\ \A s \in Session : sess[s] = IdleSession
  BY IdleTypes DEF Init
<1>6. \A s \in Session : sess[s].pc = "await" => sess[s].todo # << >>
  BY <1>5, IdleTypes
<1>7. notice \in [Notice -> [pc : {"idle", "read"}, lsn : Nat, upto : Nat]]
  BY DEF Init, IdleNotice
<1>8. applying \in ClientChunk
  BY MessageTypes DEF Init
<1> QED
  BY <1>1, <1>3, <1>4, <1>5, <1>6, <1>7, <1>8 DEF Init, TypeInv

\* Choosing between a catch-up and none keeps the types.
LEMMA DetermineTypes ==
    ASSUME TypeInv, NEW s \in Session, DetermineSyncStrategy(s)
    PROVE  TypeInv'
<1>1. sess[s] \in SessionType /\ sess[s].lsn \in Nat
  BY DEF TypeInv, SessionType
<1> DEFINE x == IF sess[s].lsn < ServerLSN THEN [sess[s] EXCEPT !.pc = "query"] ELSE IdleSession
           m == [NoRows EXCEPT !.lsn = sess[s].lsn]
<1>2. sess \in [Session -> SessionType]
  BY DEF TypeInv
<1>3. sess' = [sess EXCEPT ![s] = x] /\ toClient' \in {toClient, Append(toClient, m)}
      /\ srvLsn' = sess[s].lsn
  BY <1>2 DEF DetermineSyncStrategy
<1>4. x \in SessionType /\ x.pc # "await"
  <2>1. CASE sess[s].lsn < ServerLSN
    <3>1. x = [sess[s] EXCEPT !.pc = "query"] /\ x.pc = "query"
      BY <1>1, <2>1 DEF SessionType
    <3>2. [sess[s] EXCEPT !.pc = "query"] \in SessionType
      BY <1>1, SessionPc
    <3> HIDE DEF x
    <3> QED
      BY <3>1, <3>2
  <2>2. CASE ~(sess[s].lsn < ServerLSN)
    BY <2>2, IdleTypes
  <2> QED
    BY <2>1, <2>2
<1>5. m \in ClientChunk
  BY <1>1, MessageTypes
<1> HIDE DEF x, m
<1>6. toClient' \in Seq(ClientChunk)
  <2>1. toClient \in Seq(ClientChunk)
    BY DEF TypeInv
  <2>2. Append(toClient, m) \in Seq(ClientChunk)
    BY <1>5, <2>1, SeqTypes
  <2> QED
    BY <1>3, <2>1, <2>2
<1>7. /\ sess' \in [Session -> SessionType]
      /\ \A r \in Session : sess'[r].pc = "await" => sess'[r].todo # << >>
  BY <1>3, <1>4, SessionChanged
<1>8. UNCHANGED <<dbVars, link, toServer, clientVars, acks, notice, bounds>>
  BY DEF DetermineSyncStrategy
<1> QED
  BY <1>1, <1>3, <1>6, <1>7, <1>8 DEF TypeInv, dbVars, clientVars, bounds

\* A catch-up query gives the session chunks of the right types.
LEMMA QueryTypes ==
    ASSUME TypeInv, NEW s \in Session, QueryBatch(s)
    PROVE  TypeInv'
<1>1. sess[s] \in SessionType /\ sess \in [Session -> SessionType] /\ Rows(history)
  BY DEF TypeInv
<1>2. PICK raw \in Limited(CatchupRows(sess[s].lsn), BatchSize) :
         sess' = [sess EXCEPT ![s] =
            IF raw = {} THEN [@ EXCEPT !.pc = "finish"]
            ELSE [@ EXCEPT !.pc = "send", !.ok = TRUE,
                           !.todo = Chunks(raw), !.upto = LSNAfter(raw),
                           !.full = Cardinality(raw) = BatchSize]]
  BY DEF QueryBatch
<1> DEFINE b == Cardinality(raw) = BatchSize
           t == Chunks(raw)
           u == LSNAfter(raw)
           x == IF raw = {} THEN [sess[s] EXCEPT !.pc = "finish"]
                ELSE [sess[s] EXCEPT !.pc = "send", !.ok = TRUE, !.todo = t, !.upto = u, !.full = b]
<1>3. sess' = [sess EXCEPT ![s] = x]
  BY <1>1, <1>2
<1>4. x \in SessionType /\ x.pc # "await"
  <2>1. b \in BOOLEAN
    OBVIOUS
  <2>2. raw # {} => t \in Seq(CatchupChunk) /\ u \in Nat
    BY <1>1, CatchupChunks
  <2> HIDE DEF b, t, u
  <2>3. CASE raw = {}
    <3>1. [sess[s] EXCEPT !.pc = "finish"] \in SessionType
      BY <1>1, SessionPc
    <3>2. [sess[s] EXCEPT !.pc = "finish"].pc = "finish"
      BY <1>1 DEF SessionType
    <3> QED
      BY <2>3, <3>1, <3>2
  <2>4. CASE raw # {}
    <3> DEFINE y == [sess[s] EXCEPT !.pc = "send", !.ok = TRUE, !.todo = t, !.upto = u, !.full = b]
    <3>1. y \in SessionType
      BY <1>1, <2>1, <2>2, <2>4, SessionTypes
    <3>2. y.pc = "send"
      BY <1>1 DEF SessionType
    <3>3. x = y
      BY <2>4
    <3> HIDE DEF x, y
    <3> QED
      BY <3>1, <3>2, <3>3
  <2> QED
    BY <2>3, <2>4
<1> HIDE DEF x
<1>5. /\ sess' \in [Session -> SessionType]
      /\ \A r \in Session : sess'[r].pc = "await" => sess'[r].todo # << >>
  BY <1>3, <1>4, SessionChanged
<1>6. UNCHANGED <<dbVars, netVars, clientVars, srvLsn, acks, notice, bounds>>
  BY DEF QueryBatch
<1> QED
  BY <1>5, <1>6 DEF TypeInv, dbVars, netVars, clientVars, bounds

\* Sending a chunk keeps the types.
LEMMA SendTypes ==
    ASSUME TypeInv, NEW s \in Session, SendChunk(s) \/ AckTimeout(s)
    PROVE  TypeInv'
<1>1. sess[s] \in SessionType /\ sess \in [Session -> SessionType]
  BY DEF TypeInv
<1>2. sess[s].todo # << >> /\ sess[s].todo \in Seq(CatchupChunk)
  BY <1>1 DEF TypeInv, SessionType, SendChunk, AckTimeout
<1> DEFINE c == Head(sess[s].todo)
           t == Tail(sess[s].todo)
           x == sess[s]
<1>3. c \in CatchupChunk /\ t \in Seq(CatchupChunk)
  BY <1>2, SeqTypes
<1>4. /\ [x EXCEPT !.todo = t, !.ok = FALSE] \in SessionType
      /\ [x EXCEPT !.pc = "await"] \in SessionType
      /\ [x EXCEPT !.todo = t] \in SessionType
      /\ [x EXCEPT !.pc = "send", !.todo = t, !.ok = FALSE] \in SessionType
  <2> HIDE DEF t, x
  <2>1. x \in SessionType
    BY <1>1 DEF x
  <2> QED
    BY <1>3, <2>1, SessionTypes
<1>5. /\ x.pc = "send" => [x EXCEPT !.todo = t, !.ok = FALSE].pc = "send"
      /\ x.pc = "send" => [x EXCEPT !.todo = t].pc = "send"
      /\ [x EXCEPT !.pc = "await"].todo = x.todo
      /\ [x EXCEPT !.pc = "send", !.todo = t, !.ok = FALSE].pc = "send"
  BY <1>1 DEF SessionType
<1>6. \/ x.pc = "send" /\ sess' = [sess EXCEPT ![s] = [x EXCEPT !.todo = t, !.ok = FALSE]]
      \/ sess' = [sess EXCEPT ![s] = [x EXCEPT !.pc = "await"]]
      \/ x.pc = "send" /\ sess' = [sess EXCEPT ![s] = [x EXCEPT !.todo = t]]
      \/ sess' = [sess EXCEPT ![s] = [x EXCEPT !.pc = "send", !.todo = t, !.ok = FALSE]]
  <2>1. CASE SendChunk(s)
    BY <1>1, <2>1 DEF SendChunk
  <2>2. CASE AckTimeout(s)
    BY <1>1, <2>2 DEF AckTimeout
  <2> QED
    BY <2>1, <2>2
<1>7. /\ toClient' \in {toClient, Append(toClient, c)}
      /\ faults' \in {faults, faults + 1}
      /\ acks' = acks \/ (acks[c.n] # 0 /\ acks' = [acks EXCEPT ![c.n] = @ - 1])
  <2>1. CASE SendChunk(s)
    BY <2>1 DEF SendChunk, bounds
  <2>2. CASE AckTimeout(s)
    BY <2>2 DEF AckTimeout, netVars, Fault
  <2> QED
    BY <2>1, <2>2
<1>8. UNCHANGED <<dbVars, link, toServer, clientVars, srvLsn, notice, connects>>
  BY DEF SendChunk, AckTimeout, netVars, bounds
<1>9. /\ sess' \in [Session -> SessionType]
      /\ \A r \in Session : sess'[r].pc = "await" => sess'[r].todo # << >>
  <2>1. x.todo # << >>
    BY <1>2
  <2> HIDE DEF x, t
  <2>2. CASE x.pc = "send" /\ sess' = [sess EXCEPT ![s] = [x EXCEPT !.todo = t, !.ok = FALSE]]
    <3> DEFINE y == [x EXCEPT !.todo = t, !.ok = FALSE]
    <3>1. y \in SessionType /\ y.pc # "await" /\ sess' = [sess EXCEPT ![s] = y]
      BY <1>4, <1>5, <2>2
    <3> HIDE DEF y
    <3> QED
      BY <3>1, SessionChanged
  <2>3. CASE sess' = [sess EXCEPT ![s] = [x EXCEPT !.pc = "await"]]
    <3> DEFINE y == [x EXCEPT !.pc = "await"]
    <3>1. y \in SessionType /\ y.todo # << >> /\ sess' = [sess EXCEPT ![s] = y]
      BY <1>4, <1>5, <2>1, <2>3
    <3> HIDE DEF y
    <3> QED
      BY <3>1, SessionChanged
  <2>4. CASE x.pc = "send" /\ sess' = [sess EXCEPT ![s] = [x EXCEPT !.todo = t]]
    <3> DEFINE y == [x EXCEPT !.todo = t]
    <3>1. y \in SessionType /\ y.pc # "await" /\ sess' = [sess EXCEPT ![s] = y]
      BY <1>4, <1>5, <2>4
    <3> HIDE DEF y
    <3> QED
      BY <3>1, SessionChanged
  <2>5. CASE sess' = [sess EXCEPT ![s] = [x EXCEPT !.pc = "send", !.todo = t, !.ok = FALSE]]
    <3> DEFINE y == [x EXCEPT !.pc = "send", !.todo = t, !.ok = FALSE]
    <3>1. y \in SessionType /\ y.pc # "await" /\ sess' = [sess EXCEPT ![s] = y]
      BY <1>4, <1>5, <2>5
    <3> HIDE DEF y
    <3> QED
      BY <3>1, SessionChanged
  <2> QED
    BY <1>6, <2>2, <2>3, <2>4, <2>5
<1> HIDE DEF x, t, c
<1>10. toClient' \in Seq(ClientChunk)
  <2>1. toClient \in Seq(ClientChunk) /\ c \in ClientChunk
    BY <1>3, MessageTypes DEF TypeInv
  <2>2. Append(toClient, c) \in Seq(ClientChunk)
    BY <2>1, SeqTypes
  <2> QED
    BY <1>7, <2>1, <2>2
<1>11. acks' \in [ChunkNumber -> Nat]
  <2>1. acks \in [ChunkNumber -> Nat] /\ c.n \in ChunkNumber
    BY <1>3, MessageTypes DEF TypeInv
  <2>2. acks[c.n] # 0 => acks[c.n] - 1 \in Nat
    BY <2>1
  <2> QED
    BY <1>7, <2>1, <2>2
<1>12. faults' \in Nat
  BY <1>7 DEF TypeInv
<1> QED
  BY <1>8, <1>9, <1>10, <1>11, <1>12 DEF TypeInv, dbVars, clientVars

\* The end of a batch keeps the types.
LEMMA BatchDoneTypes ==
    ASSUME TypeInv, NEW s \in Session, BatchDone(s)
    PROVE  TypeInv'
<1>1. sess[s] \in SessionType /\ sess \in [Session -> SessionType]
  BY DEF TypeInv
<1> DEFINE p == IF sess[s].full THEN "query" ELSE "finish"
           x == IF ~sess[s].ok THEN [sess[s] EXCEPT !.pc = "failed"]
                ELSE [sess[s] EXCEPT !.lsn = sess[s].upto, !.pc = p]
<1>2. sess' = [sess EXCEPT ![s] = x]
  BY <1>1 DEF BatchDone
<1>3. x \in SessionType /\ x.pc # "await"
  <2>1. [sess[s] EXCEPT !.pc = "failed"] \in SessionType
        /\ [sess[s] EXCEPT !.pc = "failed"].pc = "failed"
    <3>1. [sess[s] EXCEPT !.pc = "failed"].pc = "failed"
      BY <1>1 DEF SessionType
    <3> QED
      BY <1>1, <3>1, SessionPc
  <2>2. [sess[s] EXCEPT !.lsn = sess[s].upto, !.pc = p] \in SessionType
        /\ [sess[s] EXCEPT !.lsn = sess[s].upto, !.pc = p].pc # "await"
    BY <1>1 DEF SessionType
  <2> QED
    BY <2>1, <2>2
<1> HIDE DEF x
<1>4. /\ sess' \in [Session -> SessionType]
      /\ \A r \in Session : sess'[r].pc = "await" => sess'[r].todo # << >>
  BY <1>2, <1>3, SessionChanged
<1>5. UNCHANGED <<dbVars, netVars, clientVars, srvLsn, acks, notice, bounds>>
  BY DEF BatchDone
<1> QED
  BY <1>4, <1>5 DEF TypeInv, dbVars, netVars, clientVars, bounds

\* The end of a session keeps the types.
LEMMA EndTypes ==
    ASSUME TypeInv, NEW s \in Session, Finish(s) \/ Fail(s)
    PROVE  TypeInv'
<1>1. sess[s] \in SessionType /\ sess \in [Session -> SessionType] /\ srvLsn \in Nat
  BY DEF TypeInv
<1>2. sess' = [sess EXCEPT ![s] = IdleSession] /\ srvLsn' \in {srvLsn, sess[s].lsn}
  BY DEF Finish, Fail
<1>3. /\ sess' \in [Session -> SessionType]
      /\ \A r \in Session : sess'[r].pc = "await" => sess'[r].todo # << >>
  BY <1>2, IdleTypes, SessionChanged
<1>4. srvLsn' \in Nat
  BY <1>1, <1>2 DEF SessionType
<1>5. UNCHANGED <<dbVars, netVars, clientVars, acks, notice, bounds>>
  BY DEF Finish, Fail
<1> QED
  BY <1>3, <1>4, <1>5 DEF TypeInv, dbVars, netVars, clientVars, bounds

\* A new connection keeps the types.
LEMMA ConnectTypes ==
    ASSUME TypeInv, NEW s \in Session, Connect(s)
    PROVE  TypeInv'
<1> DEFINE x == [IdleSession EXCEPT !.pc = "accepted", !.lsn = urlLsn]
<1>1. /\ sess' = [sess EXCEPT ![s] = x]
      /\ connects' = connects + 1 /\ link' = TRUE
      /\ UNCHANGED <<dbVars, toClient, toServer, clientVars, srvLsn, acks, notice, faults>>
  BY DEF Connect
<1>2. x \in SessionType /\ x.pc # "await"
  <2>1. x \in SessionType
    BY IdleTypes DEF TypeInv
  <2>2. x.pc = "accepted"
    BY DEF IdleSession
  <2> QED
    BY <2>1, <2>2
<1> HIDE DEF x
<1>3. /\ sess' \in [Session -> SessionType]
      /\ \A r \in Session : sess'[r].pc = "await" => sess'[r].todo # << >>
  BY <1>1, <1>2, SessionChanged
<1>4. connects' \in Nat
  BY <1>1 DEF TypeInv
<1> QED
  BY <1>1, <1>3, <1>4 DEF TypeInv, dbVars, clientVars

\* An answer of the browser keeps the types when it arrives.
LEMMA AckTypes ==
    ASSUME TypeInv, WebSocketMessage
    PROVE  TypeInv'
<1> DEFINE m == Head(toServer)
<1>1. /\ toServer # << >> /\ toServer' = Tail(toServer)
      /\ acks' = [acks EXCEPT ![m.n] = @ + 1]
      /\ sess' = [s \in Session |->
            IF sess[s].pc = "await" /\ Head(sess[s].todo).n = m.n
            THEN [sess[s] EXCEPT !.pc = "send", !.todo = Tail(@)] ELSE sess[s]]
      /\ srvLsn' = m.lsn
      /\ UNCHANGED <<dbVars, link, toClient, clientVars, notice, bounds>>
  BY DEF WebSocketMessage, ReceiveAck
<1>2. m \in [n : ChunkNumber, lsn : Nat] /\ toServer' \in Seq([n : ChunkNumber, lsn : Nat])
  BY <1>1, SeqTypes DEF TypeInv
<1> HIDE DEF m
<1>3. acks' \in [ChunkNumber -> Nat]
  <2>1. acks \in [ChunkNumber -> Nat] /\ m.n \in ChunkNumber /\ acks[m.n] + 1 \in Nat
    BY <1>2 DEF TypeInv
  <2> QED
    BY <1>1, <2>1
<1>4. ASSUME NEW s \in Session
      PROVE  sess'[s] \in SessionType /\ (sess'[s].pc = "await" => sess'[s].todo # << >>)
  <2>1. sess[s] \in SessionType /\ (sess[s].pc = "await" => sess[s].todo # << >>)
    BY DEF TypeInv
  <2> DEFINE t == Tail(sess[s].todo)
             x == [sess[s] EXCEPT !.pc = "send", !.todo = t]
  <2>2. CASE sess[s].pc = "await"
    <3>1. t \in Seq(CatchupChunk)
      BY <2>1, <2>2, SeqTypes DEF SessionType
    <3>2. sess'[s] \in {sess[s], x}
      BY <1>1
    <3> HIDE DEF t
    <3>3. 0 \in Nat /\ TRUE \in BOOLEAN
      OBVIOUS
    <3>4. x \in SessionType
      BY <2>1, <3>1, <3>3, SessionTypes
    <3>5. x.pc = "send"
      BY <2>1 DEF SessionType
    <3> HIDE DEF x
    <3> QED
      BY <2>1, <3>2, <3>4, <3>5
  <2>3. CASE sess[s].pc # "await"
    BY <1>1, <2>1, <2>3
  <2> QED
    BY <2>2, <2>3
<1>5. sess' \in [Session -> SessionType]
  BY <1>1, <1>4, Zenon
<1>6. srvLsn' \in Nat
  BY <1>1, <1>2
<1> QED
  BY <1>1, <1>2, <1>3, <1>4, <1>5, <1>6 DEF TypeInv, dbVars, clientVars, bounds

\* The steps of a live update keep the types.
LEMMA NoticeTypes ==
    ASSUME TypeInv, NEW n \in Notice, NewChanges(n) \/ SendLiveChanges(n)
    PROVE  TypeInv'
<1> DEFINE NoticeType == [pc : {"idle", "read"}, lsn : Nat, upto : Nat]
<1>1. notice \in [Notice -> NoticeType] /\ srvLsn \in Nat /\ Rows(history)
      /\ toClient \in Seq(ClientChunk)
  BY DEF TypeInv
<1>2. IdleNotice \in NoticeType
  BY DEF IdleNotice
<1>3. CASE NewChanges(n)
  <2> DEFINE x == [pc |-> "read", lsn |-> srvLsn, upto |-> ServerLSN]
  <2>1. notice' = [notice EXCEPT ![n] = IF link THEN x ELSE IdleNotice] /\ noticed' = noticed + 1
    BY <1>3 DEF NewChanges
  <2>2. x \in NoticeType
    BY <1>1, ServerLsnIsLast
  <2> HIDE DEF x, NoticeType
  <2>3. notice' \in [Notice -> NoticeType]
    BY <1>1, <1>2, <2>1, <2>2
  <2>4. noticed' \in Nat
    BY <2>1 DEF TypeInv
  <2>5. UNCHANGED <<history, netVars, clientVars, srvLsn, acks, sess, bounds>>
    BY <1>3 DEF NewChanges
  <2> QED
    BY <2>3, <2>4, <2>5 DEF TypeInv, netVars, clientVars, bounds, NoticeType
<1>4. CASE SendLiveChanges(n)
  <2>1. PICK raw \in Limited(LiveRows(notice[n].lsn, notice[n].upto), LiveLimit) :
           LiveUpdate(n, raw)
    BY <1>4 DEF SendLiveChanges
  <2>2. notice[n].lsn \in Nat /\ notice[n].upto \in Nat
    BY <1>1
  <2> DEFINE chunks == [i \in DOMAIN Chunks(raw) |-> [Chunks(raw)[i] EXCEPT !.n = 0]]
             f == FinalLSN(notice[n].upto, raw)
  <2>3. chunks \in Seq(ClientChunk) /\ f \in Nat
    BY <1>1, <2>1, <2>2, LiveChunks
  <2>4. toClient' \in {toClient, toClient \o chunks} /\ srvLsn' \in {srvLsn, f}
    BY <2>1 DEF LiveUpdate
  <2> HIDE DEF chunks, f
  <2>5. toClient' \in Seq(ClientChunk)
    <3>1. toClient \o chunks \in Seq(ClientChunk)
      BY <1>1, <2>3
    <3> QED
      BY <1>1, <2>4, <3>1
  <2>6. srvLsn' \in Nat
    BY <1>1, <2>3, <2>4
  <2>7. notice' = [notice EXCEPT ![n] = IdleNotice]
        /\ UNCHANGED <<dbVars, link, toServer, clientVars, acks, sess, bounds>>
    BY <1>4 DEF SendLiveChanges
  <2> HIDE DEF NoticeType
  <2>8. notice' \in [Notice -> NoticeType]
    BY <1>1, <1>2, <2>7
  <2> QED
    BY <2>5, <2>6, <2>7, <2>8 DEF TypeInv, dbVars, clientVars, bounds, NoticeType
<1> QED
  BY <1>3, <1>4

\* Steps of the browser.
LEMMA BrowserTypes ==
    ASSUME TypeInv, Receive \/ Apply \/ ApplyError
    PROVE  TypeInv'
<1>1. CASE Receive
  <2> DEFINE m == Head(toClient)
  <2>1. /\ toClient # << >> /\ toClient' = Tail(toClient) /\ clientLsn' = m.lsn
        /\ applying' \in {applying, m} /\ dropped' \in {dropped, dropped \cup m.rows}
        /\ UNCHANGED <<dbVars, link, toServer, urlLsn, seen, srvLsn, acks, sess, notice, bounds>>
    BY <1>1 DEF Receive
  <2>2. toClient \in Seq(ClientChunk)
    BY DEF TypeInv
  <2>3. m \in ClientChunk /\ toClient' \in Seq(ClientChunk)
    BY <2>1, <2>2, SeqTypes
  <2>4. m.lsn \in Nat /\ m.rows \subseteq Row
    BY <2>3, MessageTypes
  <2> HIDE DEF m
  <2>5. clientLsn' \in Nat /\ applying' \in ClientChunk /\ dropped' \subseteq Row
    BY <2>1, <2>3, <2>4 DEF TypeInv
  <2> QED
    BY <2>1, <2>3, <2>5 DEF TypeInv, dbVars, bounds
<1>2. CASE Apply
  <2> DEFINE m == [n |-> applying.n, lsn |-> applying.lsn]
             A == [n : ChunkNumber, lsn : Nat]
  <2>1. /\ seen' = seen \cup applying.rows /\ applying' = NoRows
        /\ toServer' = IF link /\ applying.n > 0 THEN Append(toServer, m) ELSE toServer
        /\ UNCHANGED <<dbVars, link, toClient, clientLsn, urlLsn, dropped, srvLsn, acks,
                       sess, notice, bounds>>
    BY <1>2 DEF Apply
  <2>2. applying.n \in 0..BatchSize /\ applying.lsn \in Nat /\ applying.rows \subseteq Row
    BY MessageTypes DEF TypeInv
  <2>3. applying.n > 0 => m \in A
    BY <2>2, SizesPositive DEF ChunkNumber
  <2>4. toServer \in Seq(A)
    BY DEF TypeInv
  <2> HIDE DEF m, A
  <2>5. toServer' \in Seq(A)
    BY <2>1, <2>3, <2>4, SeqTypes
  <2>6. seen' \subseteq Row /\ applying' \in ClientChunk
    BY <2>1, <2>2, MessageTypes DEF TypeInv
  <2> QED
    BY <2>1, <2>5, <2>6 DEF TypeInv, dbVars, bounds, A
<1>3. CASE ApplyError
  <2>1. /\ dropped' = dropped \cup applying.rows /\ applying' = NoRows /\ faults' = faults + 1
        /\ UNCHANGED <<dbVars, netVars, clientLsn, urlLsn, seen, srvLsn, acks, sess,
                       notice, connects>>
    BY <1>3 DEF ApplyError, Fault
  <2>2. applying.rows \subseteq Row /\ NoRows \in ClientChunk
    BY MessageTypes DEF TypeInv
  <2>3. dropped' \subseteq Row /\ applying' \in ClientChunk /\ faults' \in Nat
    BY <2>1, <2>2 DEF TypeInv
  <2> QED
    BY <2>1, <2>3 DEF TypeInv, dbVars, netVars
<1> QED
  BY <1>1, <1>2, <1>3

\* Broken connections and restarts.
LEMMA BreakTypes ==
    ASSUME TypeInv, Evict \/ Hibernate \/ Disconnect \/ Reload
    PROVE  TypeInv'
<1> DEFINE A == [n : ChunkNumber, lsn : Nat]
<1>1. << >> \in Seq(ClientChunk) /\ << >> \in Seq(A)
  OBVIOUS
<1>2. [n \in ChunkNumber |-> 0] \in [ChunkNumber -> Nat]
  OBVIOUS
<1>3. CASE Evict
  <2>1. /\ link' = FALSE /\ toClient' = << >> /\ toServer' = << >> /\ faults' = faults + 1
        /\ acks' = [n \in ChunkNumber |-> 0]
        /\ sess' = [s \in Session |-> IdleSession]
        /\ notice' = [n \in Notice |-> IdleNotice]
        /\ UNCHANGED <<dbVars, clientVars, srvLsn, connects>>
    BY <1>3 DEF Evict, Fault
  <2>2. sess' \in [Session -> SessionType] /\ \A r \in Session : sess'[r].pc # "await"
    BY <2>1, IdleTypes
  <2>3. notice' \in [Notice -> [pc : {"idle", "read"}, lsn : Nat, upto : Nat]]
    BY <2>1 DEF IdleNotice
  <2>4. faults' \in Nat
    BY <2>1 DEF TypeInv
  <2> QED
    BY <1>1, <1>2, <2>1, <2>2, <2>3, <2>4 DEF TypeInv, dbVars, clientVars
<1>4. CASE Hibernate
  <2>1. /\ acks' = [n \in ChunkNumber |-> 0]
        /\ UNCHANGED <<dbVars, netVars, clientVars, srvLsn, sess, notice, bounds>>
    BY <1>4 DEF Hibernate
  <2> QED
    BY <1>2, <2>1 DEF TypeInv, dbVars, netVars, clientVars, bounds
<1>5. CASE Disconnect
  <2>1. /\ link' = FALSE /\ toClient' = << >> /\ toServer' = << >> /\ faults' = faults + 1
        /\ UNCHANGED <<dbVars, clientVars, srvLsn, acks, sess, notice, connects>>
    BY <1>5 DEF Disconnect, Fault
  <2>2. faults' \in Nat
    BY <2>1 DEF TypeInv
  <2> QED
    BY <1>1, <2>1, <2>2 DEF TypeInv, dbVars, clientVars
<1>6. CASE Reload
  <2>1. /\ link' = FALSE /\ toClient' = << >> /\ toServer' = << >> /\ faults' = faults + 1
        /\ urlLsn' = clientLsn /\ dropped' = dropped \cup applying.rows /\ applying' = NoRows
        /\ UNCHANGED <<dbVars, clientLsn, seen, srvLsn, acks, sess, notice, connects>>
    BY <1>6 DEF Reload, Fault
  <2>2. applying.rows \subseteq Row /\ NoRows \in ClientChunk
    BY MessageTypes DEF TypeInv
  <2>3. dropped' \subseteq Row /\ applying' \in ClientChunk /\ faults' \in Nat /\ urlLsn' \in Nat
    BY <2>1, <2>2 DEF TypeInv
  <2> QED
    BY <1>1, <2>1, <2>3 DEF TypeInv, dbVars
<1> QED
  BY <1>3, <1>4, <1>5, <1>6

\* Every step keeps the types.
LEMMA NextTypes ==
    ASSUME TypeInv, [Next]_vars
    PROVE  TypeInv'
<1>1. CASE Commit
  <2>1. UNCHANGED <<noticed, netVars, clientVars, srvLsn, acks, sess, notice, bounds>>
    BY <1>1 DEF Commit
  <2>2. Rows(history')
    BY <1>1, CommitRows DEF TypeInv
  <2> QED
    BY <2>1, <2>2 DEF TypeInv, netVars, clientVars, bounds
<1>2. ASSUME NEW s \in Session, SessionStep(s) PROVE TypeInv'
  BY <1>2, DetermineTypes, QueryTypes, SendTypes, BatchDoneTypes, EndTypes DEF SessionStep
<1>3. CASE UNCHANGED vars
  BY <1>3 DEF TypeInv, vars, dbVars, netVars, clientVars, bounds
<1> QED
  BY <1>1, <1>2, <1>3, ConnectTypes, AckTypes, NoticeTypes, BrowserTypes, BreakTypes DEF Next

\* Every variable has its type: the last LSN of the feed, of a batch and of a
\* chunk always exist, no chunk is without a number and no ack is taken that has
\* not come.
THEOREM TypeCorrect == Spec => []TypeOK
<1>1. TypeInv => TypeOK
  <2> SUFFICES ASSUME TypeInv PROVE TypeOK
    OBVIOUS
  <2>1. ClientChunk \subseteq Chunk /\ CatchupChunk \subseteq Chunk /\ ChunkNumber \subseteq Nat
    BY DEF ClientChunk, CatchupChunk, ChunkNumber
  <2>2. toClient \in Seq(Chunk)
    BY <2>1, SeqMonotone DEF TypeInv
  <2>3. toServer \in Seq([n : Nat, lsn : Nat])
    <3>1. [n : ChunkNumber, lsn : Nat] \subseteq [n : Nat, lsn : Nat]
      BY <2>1
    <3> QED
      BY <3>1, SeqMonotone DEF TypeInv
  <2>4. applying \in Chunk
    BY <2>1 DEF TypeInv
  <2> DEFINE T == [pc : {"idle", "accepted", "query", "send", "await", "finish", "failed"},
                   lsn : Nat, todo : Seq(Chunk), upto : Nat, ok : BOOLEAN, full : BOOLEAN]
  <2>5. SessionType \subseteq T
    <3>1. Seq(CatchupChunk) \subseteq Seq(Chunk)
      BY <2>1
    <3> QED
      BY <3>1 DEF SessionType
  <2>6. sess \in [Session -> T]
    <3> HIDE DEF T
    <3> QED
      BY <2>5 DEF TypeInv
  <2> QED
    BY <2>2, <2>3, <2>4, <2>6 DEF TypeInv, TypeOK, Rows
<1> QED
  BY <1>1, InitTypes, NextTypes, PTL DEF Spec

-----------------------------------------------------------------------------
(* What each LSN stands for.                                               *)

\* Everywhere the LSN of a client is kept or on its way.
Lsns(q) == { q[i].lsn : i \in DOMAIN q }
SessionLsns(x) == {x.lsn, x.upto} \cup Lsns(x.todo)
LsnsInSessions == UNION { SessionLsns(sess[s]) : s \in Session }
LsnsInNotices == { notice[n].lsn : n \in Notice }
KeptLsns ==
    {0, clientLsn, urlLsn, srvLsn, applying.lsn} \cup Lsns(toClient) \cup Lsns(toServer)
    \cup LsnsInSessions \cup LsnsInNotices

\* Rows the client has been given, and rows on the way to it: in messages, and in
\* the chunks its sessions have still to send.
RowsIn(q) == UNION { q[i].rows : i \in DOMAIN q }
Unsent(x) == IF x.pc = "await" THEN Tail(x.todo) ELSE x.todo
RowsInSessions == UNION { RowsIn(Unsent(sess[s])) : s \in Session }
UnderWay ==
    seen \cup dropped \cup OwnRows \cup applying.rows \cup RowsIn(toClient) \cup RowsInSessions

\* Every row of h up to l, or a later one of its entity, is in U.
Covers(U, h, l) == \A r \in h : r.lsn <= l => \E q \in U : q.id = r.id /\ q.lsn >= r.lsn

\* Nothing works for a client that is not connected.
LinkInv ==
    /\ \A s \in Session : sess[s].pc # "idle" => link
    /\ \A s \in Session : sess[s].pc \notin {"send", "await"} => sess[s].todo = << >>
    /\ \A n \in Notice : notice[n].pc # "idle" => link
    /\ ~link => toClient = << >>

KnownInv ==
    /\ \A l \in KeptLsns : l <= ServerLSN /\ Covers(UnderWay, history, l)
    /\ \A n \in Notice : notice[n].upto <= ServerLSN
    /\ \A r \in history : r.lsn > 0
    /\ \A r, q \in history : r.lsn = q.lsn => r = q
    /\ LinkInv

\* A connection ends only when nothing is under way on it.
QuietBreak == link /\ ~link' => Settled

\* LSNs and rows of sequences that grow and shrink.
LEMMA Contents ==
    ASSUME NEW S, NEW q \in Seq(S)
    PROVE  /\ \A c : Lsns(Append(q, c)) = Lsns(q) \cup {c.lsn}
           /\ \A c : RowsIn(Append(q, c)) = RowsIn(q) \cup c.rows
           /\ q # << >> => /\ Lsns(Tail(q)) \subseteq Lsns(q) /\ Head(q).lsn \in Lsns(q)
                           /\ RowsIn(q) = Head(q).rows \cup RowsIn(Tail(q))
<1>1. DOMAIN q = 1..Len(q) /\ Len(q) \in Nat
  OBVIOUS
<1>2. ASSUME NEW c
      PROVE  /\ Lsns(Append(q, c)) = Lsns(q) \cup {c.lsn}
             /\ RowsIn(Append(q, c)) = RowsIn(q) \cup c.rows
  <2> DEFINE a == Append(q, c)
  <2>1. /\ DOMAIN a = 1..(Len(q) + 1) /\ a[Len(q) + 1] = c
        /\ \A i \in 1..Len(q) : a[i] = q[i]
    OBVIOUS
  <2>2. \A i \in DOMAIN a : i \in DOMAIN q \/ i = Len(q) + 1
    BY <1>1, <2>1
  <2>3. \A i \in DOMAIN q : i \in DOMAIN a
    BY <1>1, <2>1
  <2>4. Len(q) + 1 \in DOMAIN a
    BY <1>1, <2>1
  <2> HIDE DEF a
  <2>5. Lsns(a) = Lsns(q) \cup {c.lsn}
    BY <1>1, <2>1, <2>2, <2>3, <2>4 DEF Lsns
  <2>6. RowsIn(a) = RowsIn(q) \cup c.rows
    BY <1>1, <2>1, <2>2, <2>3, <2>4 DEF RowsIn
  <2> QED
    BY <2>5, <2>6 DEF a
<1>3. ASSUME q # << >>
      PROVE  /\ Lsns(Tail(q)) \subseteq Lsns(q) /\ Head(q).lsn \in Lsns(q)
             /\ RowsIn(q) = Head(q).rows \cup RowsIn(Tail(q))
  <2> DEFINE t == Tail(q)
  <2>1. /\ Len(q) > 0 /\ Head(q) = q[1] /\ DOMAIN t = 1..(Len(q) - 1)
        /\ \A i \in 1..(Len(q) - 1) : t[i] = q[i + 1]
    BY <1>3
  <2>2. 1 \in DOMAIN q /\ \A i \in DOMAIN t : i + 1 \in DOMAIN q /\ t[i] = q[i + 1]
    BY <1>1, <2>1
  <2>3. \A i \in DOMAIN q : i = 1 \/ (i - 1 \in DOMAIN t /\ q[i] = t[i - 1])
    BY <1>1, <2>1
  <2>4. Head(q) = q[1]
    BY <2>1
  <2> HIDE DEF t
  <2>5. Lsns(t) \subseteq Lsns(q) /\ Head(q).lsn \in Lsns(q)
    BY <2>2, <2>4 DEF Lsns
  <2>6. RowsIn(q) = Head(q).rows \cup RowsIn(t)
    BY <2>2, <2>3, <2>4 DEF RowsIn
  <2> QED
    BY <2>5, <2>6 DEF t
<1> QED
  BY <1>2, <1>3

\* LSNs and rows of two sequences, one after the other.
LEMMA ContentsJoined ==
    ASSUME NEW S, NEW q \in Seq(S), NEW p \in Seq(S)
    PROVE  Lsns(q \o p) = Lsns(q) \cup Lsns(p) /\ RowsIn(q \o p) = RowsIn(q) \cup RowsIn(p)
<1> DEFINE a == q \o p
<1>1. DOMAIN q = 1..Len(q) /\ Len(q) \in Nat /\ DOMAIN p = 1..Len(p) /\ Len(p) \in Nat
  OBVIOUS
<1>2. /\ DOMAIN a = 1..(Len(q) + Len(p))
      /\ \A i \in 1..(Len(q) + Len(p)) : a[i] = IF i <= Len(q) THEN q[i] ELSE p[i - Len(q)]
  OBVIOUS
<1> HIDE DEF a
<1>3. \A i \in DOMAIN a : \/ i \in DOMAIN q /\ a[i] = q[i]
                          \/ i - Len(q) \in DOMAIN p /\ a[i] = p[i - Len(q)]
  BY <1>1, <1>2
<1>4. \A i \in DOMAIN q : i \in DOMAIN a /\ a[i] = q[i]
  BY <1>1, <1>2
<1>5. \A i \in DOMAIN p : i + Len(q) \in DOMAIN a /\ a[i + Len(q)] = p[i]
  BY <1>1, <1>2
<1>6. Lsns(a) = Lsns(q) \cup Lsns(p)
  BY <1>3, <1>4, <1>5 DEF Lsns
<1>7. RowsIn(a) = RowsIn(q) \cup RowsIn(p)
  BY <1>3, <1>4, <1>5 DEF RowsIn
<1> QED
  BY <1>6, <1>7 DEF a

\* An empty sequence has no LSNs and no rows.
LEMMA EmptyContents == Lsns(<< >>) = {} /\ RowsIn(<< >>) = {}
  BY DEF Lsns, RowsIn

\* What is covered by some rows is covered by more of them.
LEMMA MoreCovers ==
    ASSUME NEW U, NEW V, U \subseteq V, NEW h, NEW l, Covers(U, h, l)
    PROVE  Covers(V, h, l)
  BY DEF Covers

\* A query takes the rows it is asked for in the order of their LSNs: if the rows
\* up to its start were covered, those up to any row of it are.
LEMMA BatchCovers ==
    ASSUME Rows(history), \A r, q \in history : r.lsn = q.lsn => r = q,
           NEW S \in SUBSET history, NEW k, NEW raw \in Limited(S, k), NEW last \in raw,
           NEW from \in Nat, NEW U, Covers(U, history, from), OwnRows \subseteq U,
           \A r \in history : from < r.lsn /\ r.lsn <= last.lsn => r \in S \/ r.own,
           Latest(raw) \subseteq U
    PROVE  Covers(U, history, last.lsn)
<1> SUFFICES ASSUME NEW r \in history, r.lsn <= last.lsn
             PROVE  \E q \in U : q.id = r.id /\ q.lsn >= r.lsn
  BY DEF Covers
<1>1. raw \subseteq S /\ \A a \in raw, b \in S \ raw : a.lsn <= b.lsn
  BY DEF Limited
<1>2. r.lsn \in Nat /\ last.lsn \in Nat
  BY <1>1, RowTypes DEF Rows
<1>3. CASE r.lsn <= from
  BY <1>3 DEF Covers
<1>4. CASE r.own
  <2>1. r \in U
    BY <1>4 DEF OwnRows
  <2> QED
    BY <1>2, <2>1
<1>5. CASE from < r.lsn /\ ~r.own
  <2>1. r \in S
    BY <1>5
  <2>2. r \in raw
    <3>1. ASSUME r \notin raw PROVE FALSE
      <4>1. last.lsn <= r.lsn
        BY <1>1, <2>1, <3>1
      <4>2. last.lsn = r.lsn /\ last \in history
        BY <1>1, <1>2, <4>1
      <4> QED
        BY <3>1, <4>2
    <3> QED
      BY <3>1
  <2>3. Rows(raw)
    BY <1>1, RowsSubset
  <2>4. PICK q \in Latest(raw) : q.id = r.id /\ r.lsn <= q.lsn
    BY <2>2, <2>3, LatestExists
  <2>5. q.lsn \in Nat
    BY <2>3, RowTypes DEF Latest, Rows
  <2> QED
    BY <1>2, <2>4, <2>5
<1> QED
  BY <1>2, <1>3, <1>4, <1>5

\* A step that moves rows on and copies LSNs, and whose other LSNs (New) are
\* covered by what is then under way.
LEMMA StillKnown ==
    ASSUME KnownInv, UNCHANGED history, NEW New,
           {clientLsn', urlLsn', srvLsn', applying'.lsn} \subseteq KeptLsns \cup New,
           Lsns(toClient') \subseteq KeptLsns \cup New,
           Lsns(toServer') \subseteq KeptLsns \cup New,
           \A s \in Session : SessionLsns(sess'[s]) \subseteq KeptLsns \cup New,
           \A n \in Notice : notice'[n].lsn \in KeptLsns \cup New /\ notice'[n].upto <= ServerLSN,
           UnderWay \subseteq UnderWay',
           \A l \in New : l <= ServerLSN /\ Covers(UnderWay', history, l),
           LinkInv'
    PROVE  KnownInv'
<1>1. ServerLSN' = ServerLSN
  BY DEF ServerLSN
<1>2. KeptLsns' \subseteq KeptLsns \cup New
  <2>1. 0 \in KeptLsns
    BY DEF KeptLsns
  <2> DEFINE K == KeptLsns \cup New
  <2>2. /\ 0 \in K /\ {clientLsn', urlLsn', srvLsn', applying'.lsn} \subseteq K
        /\ Lsns(toClient') \subseteq K /\ Lsns(toServer') \subseteq K
        /\ \A s \in Session : SessionLsns(sess'[s]) \subseteq K
        /\ \A n \in Notice : notice'[n].lsn \in K
    BY <2>1
  <2> HIDE DEF K
  <2>3. ASSUME NEW l \in KeptLsns' PROVE l \in K
    <3>1. \/ l \in {0, clientLsn', urlLsn', srvLsn', applying'.lsn}
          \/ l \in Lsns(toClient') \/ l \in Lsns(toServer')
          \/ l \in LsnsInSessions' \/ l \in LsnsInNotices'
      BY DEF KeptLsns
    <3>2. l \in LsnsInSessions' => \E s \in Session : l \in SessionLsns(sess'[s])
      BY DEF LsnsInSessions
    <3>3. l \in LsnsInNotices' => \E n \in Notice : l = notice'[n].lsn
      BY DEF LsnsInNotices
    <3> QED
      BY <2>2, <3>1, <3>2, <3>3
  <2>6. KeptLsns' \subseteq K
    BY <2>3
  <2> QED
    BY <2>6 DEF K
<1>3. ASSUME NEW l \in KeptLsns' PROVE l <= ServerLSN /\ Covers(UnderWay', history, l)
  <2>1. CASE l \in KeptLsns
    <3>1. l <= ServerLSN /\ Covers(UnderWay, history, l)
      BY <2>1 DEF KnownInv
    <3> QED
      BY <3>1, MoreCovers
  <2>2. CASE l \in New
    BY <2>2
  <2> QED
    BY <1>2, <2>1, <2>2
<1>4. \A l \in KeptLsns' : l <= ServerLSN' /\ Covers(UnderWay', history', l)
  BY <1>1, <1>3
<1> QED
  BY <1>1, <1>4 DEF KnownInv

\* What KeptLsns holds, part by part.
LEMMA Kept ==
    /\ {0, clientLsn, urlLsn, srvLsn, applying.lsn} \subseteq KeptLsns
    /\ Lsns(toClient) \subseteq KeptLsns /\ Lsns(toServer) \subseteq KeptLsns
    /\ \A s \in Session : SessionLsns(sess[s]) \subseteq KeptLsns
    /\ \A n \in Notice : notice[n].lsn \in KeptLsns
<1>1. \A s \in Session : SessionLsns(sess[s]) \subseteq LsnsInSessions
  BY DEF LsnsInSessions
<1>2. \A n \in Notice : notice[n].lsn \in LsnsInNotices
  BY DEF LsnsInNotices
<1> QED
  BY <1>1, <1>2 DEF KeptLsns

\* What KeptLsns holds of a session.
LEMMA SessionKept ==
    ASSUME NEW s \in Session
    PROVE  sess[s].lsn \in KeptLsns /\ sess[s].upto \in KeptLsns /\ Lsns(sess[s].todo) \subseteq KeptLsns
  BY Kept DEF SessionLsns

\* One session moves on.
LEMMA SessionKnown ==
    ASSUME TypeInv, KnownInv, NEW s \in Session, NEW x, sess' = [sess EXCEPT ![s] = x],
           UNCHANGED <<history, seen, dropped, applying, clientLsn, urlLsn, toServer, notice>>,
           NEW New, srvLsn' \in KeptLsns \cup New,
           Lsns(toClient') \subseteq KeptLsns \cup New,
           SessionLsns(x) \subseteq KeptLsns \cup New,
           \A l \in New : l <= ServerLSN /\ Covers(UnderWay', history, l),
           RowsIn(toClient) \cup RowsIn(Unsent(sess[s])) \subseteq RowsIn(toClient') \cup RowsIn(Unsent(x)),
           link => link', x.pc # "idle" => link', ~link' => toClient' = << >>,
           x.pc \notin {"send", "await"} => x.todo = << >>
    PROVE  KnownInv'
<1>1. \A r \in Session : sess'[r] = IF r = s THEN x ELSE sess[r]
  BY DEF TypeInv
<1>2. \A r \in Session : SessionLsns(sess'[r]) \subseteq KeptLsns \cup New
  BY <1>1, Kept
<1>3. UnderWay \subseteq UnderWay'
  <2>1. \A r \in Session : RowsIn(Unsent(sess[r])) \subseteq RowsInSessions' \cup RowsIn(toClient')
    <3> TAKE r \in Session
    <3>1. RowsIn(Unsent(sess'[r])) \subseteq RowsInSessions'
      BY DEF RowsInSessions
    <3> QED
      BY <1>1, <3>1
  <2>2. RowsInSessions \subseteq RowsInSessions' \cup RowsIn(toClient')
    BY <2>1 DEF RowsInSessions
  <2>3. RowsIn(toClient) \subseteq RowsInSessions' \cup RowsIn(toClient')
    <3>1. RowsIn(Unsent(sess'[s])) \subseteq RowsInSessions'
      BY DEF RowsInSessions
    <3> QED
      BY <1>1, <3>1
  <2> QED
    BY <2>2, <2>3 DEF UnderWay, OwnRows
<1>4. {clientLsn', urlLsn', srvLsn', applying'.lsn} \subseteq KeptLsns \cup New
      /\ Lsns(toServer') \subseteq KeptLsns \cup New
  BY Kept
<1>5. \A n \in Notice : notice'[n].lsn \in KeptLsns \cup New /\ notice'[n].upto <= ServerLSN
  BY Kept DEF KnownInv
<1>6. LinkInv'
  <2>1. \A r \in Session : sess'[r].pc # "idle" => link'
    BY <1>1 DEF KnownInv, LinkInv
  <2>2. \A r \in Session : sess'[r].pc \notin {"send", "await"} => sess'[r].todo = << >>
    BY <1>1 DEF KnownInv, LinkInv
  <2>3. \A n \in Notice : notice'[n].pc # "idle" => link'
    BY DEF KnownInv, LinkInv
  <2> QED
    BY <2>1, <2>2, <2>3 DEF LinkInv
<1> QED
  BY <1>2, <1>3, <1>4, <1>5, <1>6, StillKnown

\* The same when no LSN is new.
LEMMA SessionMoves ==
    ASSUME TypeInv, KnownInv, NEW s \in Session, NEW x, sess' = [sess EXCEPT ![s] = x],
           UNCHANGED <<history, seen, dropped, applying, clientLsn, urlLsn, toServer, notice>>,
           srvLsn' \in KeptLsns, Lsns(toClient') \subseteq KeptLsns, SessionLsns(x) \subseteq KeptLsns,
           RowsIn(toClient) \cup RowsIn(Unsent(sess[s])) \subseteq RowsIn(toClient') \cup RowsIn(Unsent(x)),
           link => link', x.pc # "idle" => link', ~link' => toClient' = << >>,
           x.pc \notin {"send", "await"} => x.todo = << >>
    PROVE  KnownInv'
<1> DEFINE New == {}
<1>1. /\ srvLsn' \in KeptLsns \cup New /\ Lsns(toClient') \subseteq KeptLsns \cup New
      /\ SessionLsns(x) \subseteq KeptLsns \cup New
      /\ \A l \in New : l <= ServerLSN /\ Covers(UnderWay', history, l)
  OBVIOUS
<1> HIDE DEF New
<1> QED
  BY <1>1, SessionKnown

\* A session that has not begun keeps no LSN but 0 and no rows.
LEMMA IdleKept ==
    /\ SessionLsns(IdleSession) = {0} /\ Unsent(IdleSession) = << >>
    /\ IdleSession.pc = "idle" /\ IdleSession.todo = << >>
  BY EmptyContents DEF SessionLsns, IdleSession, Unsent

\* A connection keeps the invariant: its LSN comes from the browser.
LEMMA ConnectKnown ==
    ASSUME TypeInv, KnownInv, NEW s \in Session, Connect(s)
    PROVE  KnownInv'
<1> DEFINE x == [IdleSession EXCEPT !.pc = "accepted", !.lsn = urlLsn]
<1>1. /\ ~link /\ sess[s].pc = "idle" /\ sess' = [sess EXCEPT ![s] = x] /\ link' = TRUE
      /\ UNCHANGED <<history, seen, dropped, applying, clientLsn, urlLsn, toServer, notice,
                     srvLsn, toClient>>
  BY DEF Connect, dbVars, clientVars
<1>2. x.pc = "accepted" /\ x.todo = << >> /\ x.lsn = urlLsn /\ x.upto = 0
  BY DEF IdleSession
<1> HIDE DEF x
<1>3. SessionLsns(x) \subseteq KeptLsns /\ Unsent(x) = << >>
  BY <1>2, Kept, EmptyContents DEF SessionLsns, Unsent
<1>4. Unsent(sess[s]) = << >>
  BY <1>1 DEF KnownInv, LinkInv, Unsent
<1>5. srvLsn' \in KeptLsns /\ Lsns(toClient') \subseteq KeptLsns
  BY <1>1, Kept
<1>6. RowsIn(toClient) \cup RowsIn(Unsent(sess[s])) \subseteq RowsIn(toClient') \cup RowsIn(Unsent(x))
  BY <1>1, <1>3, <1>4
<1> QED
  BY <1>1, <1>2, <1>3, <1>5, <1>6, SessionMoves

\* Choosing between a catch-up and none keeps the invariant.
LEMMA DetermineKnown ==
    ASSUME TypeInv, KnownInv, NEW s \in Session, DetermineSyncStrategy(s)
    PROVE  KnownInv'
<1> DEFINE x == IF sess[s].lsn < ServerLSN THEN [sess[s] EXCEPT !.pc = "query"] ELSE IdleSession
           m == [NoRows EXCEPT !.lsn = sess[s].lsn]
<1>1. sess[s] \in SessionType /\ sess \in [Session -> SessionType] /\ toClient \in Seq(ClientChunk)
  BY DEF TypeInv
<1>2. /\ sess[s].pc = "accepted" /\ sess' = [sess EXCEPT ![s] = x]
      /\ toClient' \in {toClient, Append(toClient, m)} /\ srvLsn' = sess[s].lsn
      /\ UNCHANGED <<history, seen, dropped, applying, clientLsn, urlLsn, toServer, notice, link>>
  BY <1>1 DEF DetermineSyncStrategy, dbVars, clientVars
<1>3. link /\ sess[s].todo = << >>
  BY <1>2 DEF KnownInv, LinkInv
<1>4. m.lsn = sess[s].lsn /\ m.rows = {}
  BY DEF NoRows
<1> DEFINE y == [sess[s] EXCEPT !.pc = "query"]
<1>5. y.pc = "query" /\ y.todo = << >> /\ y.lsn = sess[s].lsn /\ y.upto = sess[s].upto
  BY <1>1, <1>3 DEF SessionType
<1>6. x \in {y, IdleSession}
  OBVIOUS
<1> HIDE DEF x, y, m
<1>7. sess[s].lsn \in KeptLsns /\ sess[s].upto \in KeptLsns
  BY SessionKept
<1>8. SessionLsns(x) \subseteq KeptLsns /\ Unsent(x) = << >> /\ x.todo = << >>
  <2>1. SessionLsns(y) \subseteq KeptLsns /\ Unsent(y) = << >>
    BY <1>5, <1>7, EmptyContents DEF SessionLsns, Unsent
  <2>2. SessionLsns(IdleSession) \subseteq KeptLsns
    BY Kept, IdleKept
  <2> QED
    BY <1>5, <1>6, <2>1, <2>2, IdleKept
<1>9. Lsns(toClient') \subseteq KeptLsns /\ RowsIn(toClient') = RowsIn(toClient)
  <2>1. Lsns(Append(toClient, m)) = Lsns(toClient) \cup {m.lsn}
        /\ RowsIn(Append(toClient, m)) = RowsIn(toClient) \cup m.rows
    BY <1>1, Contents
  <2> QED
    BY <1>2, <1>4, <1>7, <2>1, Kept
<1>10. Unsent(sess[s]) = << >>
  BY <1>2, <1>3 DEF Unsent
<1>11. RowsIn(toClient) \cup RowsIn(Unsent(sess[s])) \subseteq RowsIn(toClient') \cup RowsIn(Unsent(x))
  BY <1>8, <1>9, <1>10
<1>12. srvLsn' \in KeptLsns
  BY <1>2, <1>7
<1>13. link' /\ sess' = [sess EXCEPT ![s] = x]
       /\ UNCHANGED <<history, seen, dropped, applying, clientLsn, urlLsn, toServer, notice>>
  BY <1>2, <1>3
<1>14. SessionLsns(x) \subseteq KeptLsns /\ x.todo = << >> /\ Lsns(toClient') \subseteq KeptLsns
  BY <1>8, <1>9
<1> QED
  BY <1>11, <1>12, <1>13, <1>14, SessionMoves

\* A query keeps the invariant: what it skips of the history up to its last row
\* is the client's own or older.
LEMMA QueryKnown ==
    ASSUME TypeInv, KnownInv, NEW s \in Session, QueryBatch(s)
    PROVE  KnownInv'
<1>1. sess[s] \in SessionType /\ sess \in [Session -> SessionType] /\ Rows(history)
  BY DEF TypeInv
<1>2. PICK raw \in Limited(CatchupRows(sess[s].lsn), BatchSize) :
         sess' = [sess EXCEPT ![s] =
            IF raw = {} THEN [@ EXCEPT !.pc = "finish"]
            ELSE [@ EXCEPT !.pc = "send", !.ok = TRUE,
                           !.todo = Chunks(raw), !.upto = LSNAfter(raw),
                           !.full = Cardinality(raw) = BatchSize]]
  BY DEF QueryBatch
<1>3. /\ sess[s].pc = "query"
      /\ UNCHANGED <<history, seen, dropped, applying, clientLsn, urlLsn, toServer, notice, link,
                     srvLsn, toClient>>
  BY DEF QueryBatch, dbVars, netVars, clientVars
<1>4. link /\ link' /\ sess[s].todo = << >> /\ Unsent(sess[s]) = << >>
  BY <1>3 DEF KnownInv, LinkInv, Unsent
<1>5. sess[s].lsn \in KeptLsns /\ sess[s].upto \in KeptLsns
  BY SessionKept
<1>6. CASE raw = {}
  <2> DEFINE x == [sess[s] EXCEPT !.pc = "finish"]
  <2>1. sess' = [sess EXCEPT ![s] = x]
    BY <1>1, <1>2, <1>6
  <2>2. x.pc = "finish" /\ x.todo = << >> /\ x.lsn = sess[s].lsn /\ x.upto = sess[s].upto
    BY <1>1, <1>4 DEF SessionType
  <2> HIDE DEF x
  <2>3. SessionLsns(x) \subseteq KeptLsns /\ Unsent(x) = << >>
    BY <1>5, <2>2, EmptyContents DEF SessionLsns, Unsent
  <2>4. srvLsn' \in KeptLsns /\ Lsns(toClient') \subseteq KeptLsns
    BY <1>3, Kept
  <2>5. RowsIn(toClient) \cup RowsIn(Unsent(sess[s])) \subseteq RowsIn(toClient') \cup RowsIn(Unsent(x))
    BY <1>3, <1>4, <2>3
  <2> QED
    BY <1>3, <1>4, <2>1, <2>2, <2>3, <2>4, <2>5, SessionMoves
<1>7. CASE raw # {}
  <2> DEFINE t == Chunks(raw)
             u == LSNAfter(raw)
             b == Cardinality(raw) = BatchSize
             x == [sess[s] EXCEPT !.pc = "send", !.ok = TRUE, !.todo = t, !.upto = u, !.full = b]
             New == {r.lsn : r \in raw}
  <2>1. /\ Rows(raw) /\ raw \subseteq CatchupRows(sess[s].lsn)
        /\ Processed(raw) = Latest(raw) /\ Processed(raw) # {}
        /\ t \in Seq(CatchupChunk) /\ t # << >>
    BY <1>1, <1>7, CatchupChunks
  <2>2. sess' = [sess EXCEPT ![s] = x]
    BY <1>1, <1>2, <1>7
  <2>3. /\ \A i \in DOMAIN t : \E r \in raw : t[i].lsn = r.lsn
        /\ \A r \in Processed(raw) : \E i \in DOMAIN t : r \in t[i].rows
        /\ \E r \in raw : u = r.lsn
    BY <2>1, ChunksOf, LastChunk
  <2> HIDE DEF t, u, b
  <2>4. x.pc = "send" /\ x.todo = t /\ x.lsn = sess[s].lsn /\ x.upto = u
    BY <1>1 DEF SessionType
  <2> HIDE DEF x
  <2>5. SessionLsns(x) \subseteq KeptLsns \cup New
    <3>1. Lsns(t) \subseteq New
      BY <2>3 DEF Lsns
    <3>2. u \in New
      BY <2>3
    <3> HIDE DEF New
    <3> QED
      BY <1>5, <2>4, <3>1, <3>2 DEF SessionLsns
  <2>6. Unsent(x) = t /\ Processed(raw) \subseteq RowsIn(t)
    BY <2>3, <2>4 DEF Unsent, RowsIn
  <2>7. srvLsn' \in KeptLsns \cup New /\ Lsns(toClient') \subseteq KeptLsns \cup New
    BY <1>3, Kept
  <2>8. RowsIn(toClient) \cup RowsIn(Unsent(sess[s])) \subseteq RowsIn(toClient') \cup RowsIn(Unsent(x))
    BY <1>3, <1>4, EmptyContents
  <2>9. Covers(UnderWay, history, sess[s].lsn) /\ sess[s].lsn \in Nat
    BY <1>1, <1>5 DEF KnownInv, SessionType
  <2>10. \A r \in Session : sess'[r] = IF r = s THEN x ELSE sess[r]
    BY <1>1, <2>2
  <2>11. RowsIn(t) \subseteq UnderWay'
    <3>1. RowsIn(Unsent(sess'[s])) \subseteq RowsInSessions'
      BY DEF RowsInSessions
    <3>2. sess'[s] = x
      BY <2>10
    <3> QED
      BY <2>6, <3>1, <3>2 DEF UnderWay
  <2>12. UnderWay \subseteq UnderWay'
    <3>1. \A r \in Session : RowsIn(Unsent(sess[r])) \subseteq RowsInSessions'
      <4> TAKE r \in Session
      <4>1. RowsIn(Unsent(sess'[r])) \subseteq RowsInSessions'
        BY DEF RowsInSessions
      <4> QED
        BY <1>4, <2>10, <4>1, EmptyContents
    <3>2. RowsInSessions \subseteq RowsInSessions'
      BY <3>1 DEF RowsInSessions
    <3> QED
      BY <1>3, <3>2 DEF UnderWay, OwnRows
  <2>13. OwnRows \subseteq UnderWay'
    BY <2>12 DEF UnderWay
  <2>14. ASSUME NEW l \in New PROVE l <= ServerLSN /\ Covers(UnderWay', history, l)
    <3>1. PICK last \in raw : l = last.lsn
      OBVIOUS
    <3>2. CatchupRows(sess[s].lsn) \in SUBSET history
      BY DEF CatchupRows
    <3>3. last.lsn <= ServerLSN
      BY <1>1, <2>1, <3>2, ServerLsnIsLast
    <3>4. \A r \in history : sess[s].lsn < r.lsn /\ r.lsn <= last.lsn =>
             r \in CatchupRows(sess[s].lsn) \/ r.own
      <4> TAKE r \in history
      <4>1. sess[s].lsn < r.lsn => r.lsn > sess[s].lsn
        OBVIOUS
      <4> QED
        BY <4>1 DEF CatchupRows
    <3>5. Latest(raw) \subseteq UnderWay'
      BY <2>1, <2>6, <2>11
    <3>6. Covers(UnderWay', history, sess[s].lsn)
      BY <2>9, <2>12, MoreCovers
    <3>7. \A r, q \in history : r.lsn = q.lsn => r = q
      BY DEF KnownInv
    <3>8. Covers(UnderWay', history, last.lsn)
      BY <1>1, <2>9, <2>13, <3>2, <3>4, <3>5, <3>6, <3>7, BatchCovers
    <3> QED
      BY <3>1, <3>3, <3>8
  <2> HIDE DEF New
  <2> QED
    BY <1>3, <1>4, <2>2, <2>4, <2>5, <2>7, <2>8, <2>14, SessionKnown
<1> QED
  BY <1>6, <1>7

\* Sending a chunk keeps the invariant: its rows go from the session to the
\* message.
LEMMA SendKnown ==
    ASSUME TypeInv, KnownInv, NEW s \in Session, SendChunk(s) \/ AckTimeout(s)
    PROVE  KnownInv'
<1> DEFINE c == Head(sess[s].todo)
           t == Tail(sess[s].todo)
<1>1. sess[s] \in SessionType /\ sess \in [Session -> SessionType] /\ toClient \in Seq(ClientChunk)
  BY DEF TypeInv
<1>2. sess[s].todo # << >> /\ sess[s].todo \in Seq(CatchupChunk) /\ sess[s].pc \in {"send", "await"}
  BY <1>1 DEF TypeInv, SessionType, SendChunk, AckTimeout
<1>3. link
  BY <1>2 DEF KnownInv, LinkInv
<1>4. UNCHANGED <<history, seen, dropped, applying, clientLsn, urlLsn, toServer, notice, link, srvLsn>>
  BY DEF SendChunk, AckTimeout, dbVars, netVars, clientVars
<1>5. /\ Lsns(t) \subseteq KeptLsns /\ c.lsn \in KeptLsns
      /\ sess[s].lsn \in KeptLsns /\ sess[s].upto \in KeptLsns /\ Lsns(sess[s].todo) \subseteq KeptLsns
      /\ RowsIn(sess[s].todo) = c.rows \cup RowsIn(t)
  BY <1>2, Contents, SessionKept
<1>6. /\ Lsns(toClient) \subseteq KeptLsns
      /\ Lsns(Append(toClient, c)) = Lsns(toClient) \cup {c.lsn}
      /\ RowsIn(Append(toClient, c)) = RowsIn(toClient) \cup c.rows
  BY <1>1, Contents, Kept
<1>7. srvLsn' \in KeptLsns /\ link'
  BY <1>3, <1>4, Kept
<1>8. CASE SendChunk(s)
  <2> DEFINE a == [sess[s] EXCEPT !.pc = "await"]
             b == [sess[s] EXCEPT !.todo = t]
  <2>1. /\ sess[s].pc = "send" /\ toClient' = Append(toClient, c)
        /\ sess' = [sess EXCEPT ![s] = a] \/ sess' = [sess EXCEPT ![s] = b]
    BY <1>1, <1>3, <1>8 DEF SendChunk
  <2>2. /\ a.pc = "await" /\ a.todo = sess[s].todo /\ a.lsn = sess[s].lsn /\ a.upto = sess[s].upto
        /\ b.pc = sess[s].pc /\ b.todo = t /\ b.lsn = sess[s].lsn /\ b.upto = sess[s].upto
    BY <1>1 DEF SessionType
  <2>3. Unsent(sess[s]) = sess[s].todo
    BY <2>1 DEF Unsent
  <2> HIDE DEF a, b, c
  <2>4. Unsent(a) = t /\ Unsent(b) = t
    BY <2>1, <2>2 DEF Unsent
  <2>5. SessionLsns(a) \subseteq KeptLsns /\ SessionLsns(b) \subseteq KeptLsns
    BY <1>5, <2>2 DEF SessionLsns
  <2>6. Lsns(toClient') \subseteq KeptLsns
    BY <1>5, <1>6, <2>1
  <2> HIDE DEF t
  <2>7. RowsIn(toClient) \cup RowsIn(Unsent(sess[s])) \subseteq RowsIn(toClient') \cup RowsIn(t)
    BY <1>5, <1>6, <2>1, <2>3
  <2>8. CASE sess' = [sess EXCEPT ![s] = a]
    BY <1>4, <1>7, <2>2, <2>4, <2>5, <2>6, <2>7, <2>8, SessionMoves
  <2>9. CASE sess' = [sess EXCEPT ![s] = b]
    BY <1>4, <1>7, <2>1, <2>2, <2>4, <2>5, <2>6, <2>7, <2>9, SessionMoves
  <2> QED
    BY <2>1, <2>8, <2>9
<1>9. CASE AckTimeout(s)
  <2> DEFINE a == [sess[s] EXCEPT !.pc = "send", !.todo = t, !.ok = FALSE]
  <2>1. sess[s].pc = "await" /\ toClient' = toClient /\ sess' = [sess EXCEPT ![s] = a]
    BY <1>1, <1>9 DEF AckTimeout, netVars
  <2>2. a.pc = "send" /\ a.todo = t /\ a.lsn = sess[s].lsn /\ a.upto = sess[s].upto
    BY <1>1 DEF SessionType
  <2>3. Unsent(sess[s]) = t
    BY <2>1 DEF Unsent
  <2> HIDE DEF a, c, t
  <2>4. Unsent(a) = t
    BY <2>1, <2>2 DEF Unsent
  <2>5. SessionLsns(a) \subseteq KeptLsns
    BY <1>5, <2>2 DEF SessionLsns
  <2>6. RowsIn(toClient) \cup RowsIn(Unsent(sess[s])) \subseteq RowsIn(toClient') \cup RowsIn(Unsent(a))
    BY <2>1, <2>3, <2>4
  <2>7. Lsns(toClient') \subseteq KeptLsns
    BY <1>6, <2>1
  <2> QED
    BY <1>4, <1>7, <2>1, <2>2, <2>5, <2>6, <2>7, SessionMoves
<1> QED
  BY <1>8, <1>9

\* The end of a batch or of a session keeps the invariant: nothing of it is
\* unsent.
LEMMA EndKnown ==
    ASSUME TypeInv, KnownInv, NEW s \in Session, BatchDone(s) \/ Finish(s) \/ Fail(s)
    PROVE  KnownInv'
<1>1. sess[s] \in SessionType /\ sess \in [Session -> SessionType]
  BY DEF TypeInv
<1>2. sess[s].todo = << >> /\ sess[s].pc # "await" /\ link
  BY DEF KnownInv, LinkInv, BatchDone, Finish, Fail
<1>3. UNCHANGED <<history, seen, dropped, applying, clientLsn, urlLsn, toServer, notice, link, toClient>>
  BY DEF BatchDone, Finish, Fail, dbVars, netVars, clientVars
<1>4. sess[s].lsn \in KeptLsns /\ sess[s].upto \in KeptLsns
  BY SessionKept
<1>5. srvLsn' \in KeptLsns
  <2>1. srvLsn' \in {srvLsn, sess[s].lsn}
    BY DEF BatchDone, Finish, Fail
  <2> QED
    BY <1>4, <2>1, Kept
<1>6. PICK x : /\ sess' = [sess EXCEPT ![s] = x] /\ x.todo = << >> /\ Unsent(x) = << >>
               /\ SessionLsns(x) \subseteq KeptLsns
  <2>1. CASE BatchDone(s)
    <3> DEFINE x == IF ~sess[s].ok THEN [sess[s] EXCEPT !.pc = "failed"]
                    ELSE [sess[s] EXCEPT !.lsn = sess[s].upto,
                             !.pc = IF sess[s].full THEN "query" ELSE "finish"]
    <3>1. sess' = [sess EXCEPT ![s] = x]
      BY <1>1, <2>1 DEF BatchDone
    <3>2. x.todo = << >> /\ x.pc # "await" /\ x.lsn \in {sess[s].lsn, sess[s].upto} /\ x.upto = sess[s].upto
      BY <1>1, <1>2 DEF SessionType
    <3> HIDE DEF x
    <3>3. SessionLsns(x) \subseteq KeptLsns /\ Unsent(x) = << >>
      BY <1>4, <3>2, EmptyContents DEF SessionLsns, Unsent
    <3> QED
      BY <3>1, <3>2, <3>3
  <2>2. CASE Finish(s) \/ Fail(s)
    <3>1. sess' = [sess EXCEPT ![s] = IdleSession]
      BY <2>2 DEF Finish, Fail
    <3>2. SessionLsns(IdleSession) \subseteq KeptLsns
      BY IdleKept, Kept
    <3> QED
      BY <3>1, <3>2, IdleKept
  <2> QED
    BY <2>1, <2>2
<1>7. Unsent(sess[s]) = << >>
  BY <1>2 DEF Unsent
<1>8. RowsIn(toClient) \cup RowsIn(Unsent(sess[s])) \subseteq RowsIn(toClient') \cup RowsIn(Unsent(x))
  BY <1>3, <1>6, <1>7
<1>9. link' /\ Lsns(toClient') \subseteq KeptLsns
  BY <1>2, <1>3, Kept
<1> QED
  BY <1>3, <1>5, <1>6, <1>8, <1>9, SessionMoves

\* A step without a new LSN.
LEMMA Moves ==
    ASSUME KnownInv, UNCHANGED history,
           {clientLsn', urlLsn', srvLsn', applying'.lsn} \subseteq KeptLsns,
           Lsns(toClient') \subseteq KeptLsns, Lsns(toServer') \subseteq KeptLsns,
           \A s \in Session : SessionLsns(sess'[s]) \subseteq KeptLsns,
           \A n \in Notice : notice'[n].lsn \in KeptLsns /\ notice'[n].upto <= ServerLSN,
           UnderWay \subseteq UnderWay', LinkInv'
    PROVE  KnownInv'
<1> DEFINE New == {}
           K == KeptLsns \cup New
<1>1. K = KeptLsns /\ \A l \in New : l <= ServerLSN /\ Covers(UnderWay', history, l)
  OBVIOUS
<1> HIDE DEF New
<1>2. /\ {clientLsn', urlLsn', srvLsn', applying'.lsn} \subseteq K
      /\ Lsns(toClient') \subseteq K /\ Lsns(toServer') \subseteq K
      /\ \A s \in Session : SessionLsns(sess'[s]) \subseteq K
      /\ \A n \in Notice : notice'[n].lsn \in K /\ notice'[n].upto <= ServerLSN
  BY <1>1
<1> QED
  BY <1>1, <1>2, StillKnown

\* What stays under way when the rows in messages and sessions do, or more.
LEMMA UnderWayGrows ==
    ASSUME UNCHANGED history,
           seen \cup dropped \cup applying.rows \cup RowsIn(toClient)
             \subseteq seen' \cup dropped' \cup applying'.rows \cup RowsIn(toClient'),
           RowsInSessions \subseteq RowsInSessions'
    PROVE  UnderWay \subseteq UnderWay'
<1>1. OwnRows' = OwnRows
  BY DEF OwnRows
<1> QED
  BY <1>1 DEF UnderWay

\* An answer keeps the invariant: its LSN is one the browser kept.
LEMMA AckKnown ==
    ASSUME TypeInv, KnownInv, WebSocketMessage
    PROVE  KnownInv'
<1> DEFINE m == Head(toServer)
<1>1. /\ toServer # << >> /\ toServer' = Tail(toServer)
      /\ sess' = [s \in Session |->
            IF sess[s].pc = "await" /\ Head(sess[s].todo).n = m.n
            THEN [sess[s] EXCEPT !.pc = "send", !.todo = Tail(@)] ELSE sess[s]]
      /\ srvLsn' = m.lsn
      /\ UNCHANGED <<history, link, toClient, clientLsn, urlLsn, applying, seen, dropped, notice>>
  BY DEF WebSocketMessage, ReceiveAck, dbVars, clientVars
<1>2. toServer \in Seq([n : ChunkNumber, lsn : Nat])
  BY DEF TypeInv
<1>3. m.lsn \in KeptLsns /\ Lsns(toServer') \subseteq KeptLsns
  BY <1>1, <1>2, Contents, Kept
<1> HIDE DEF m
<1>4. ASSUME NEW s \in Session
      PROVE  /\ SessionLsns(sess'[s]) \subseteq KeptLsns
             /\ Unsent(sess'[s]) = Unsent(sess[s])
             /\ sess'[s].pc # "idle" => link
             /\ sess'[s].pc \notin {"send", "await"} => sess'[s].todo = << >>
  <2>1. /\ sess[s] \in SessionType /\ (sess[s].pc = "await" => sess[s].todo # << >>)
        /\ sess[s].pc # "idle" => link
        /\ sess[s].pc \notin {"send", "await"} => sess[s].todo = << >>
    BY DEF TypeInv, KnownInv, LinkInv
  <2> DEFINE t == Tail(sess[s].todo)
             x == [sess[s] EXCEPT !.pc = "send", !.todo = t]
  <2>2. CASE sess'[s] = sess[s]
    BY <2>1, <2>2, Kept
  <2>3. CASE sess[s].pc = "await" /\ sess'[s] = x
    <3>1. x.pc = "send" /\ x.todo = t /\ x.lsn = sess[s].lsn /\ x.upto = sess[s].upto
      BY <2>1 DEF SessionType
    <3>2. Lsns(t) \subseteq Lsns(sess[s].todo)
      BY <2>1, <2>3, Contents DEF SessionType
    <3>3. Unsent(sess[s]) = t
      BY <2>3 DEF Unsent
    <3> HIDE DEF x, t
    <3>4. Unsent(x) = t /\ SessionLsns(x) \subseteq KeptLsns
      BY <3>1, <3>2, SessionKept DEF Unsent, SessionLsns
    <3> QED
      BY <2>1, <2>3, <3>1, <3>3, <3>4
  <2>4. sess'[s] = sess[s] \/ (sess[s].pc = "await" /\ sess'[s] = x)
    BY <1>1
  <2> QED
    BY <2>2, <2>3, <2>4
<1>5. UnderWay \subseteq UnderWay'
  <2>1. RowsInSessions \subseteq RowsInSessions'
    <3>1. \A s \in Session : RowsIn(Unsent(sess'[s])) \subseteq RowsInSessions'
      BY DEF RowsInSessions
    <3>2. \A s \in Session : RowsIn(Unsent(sess[s])) \subseteq RowsInSessions'
      BY <1>4, <3>1
    <3> QED
      BY <3>2 DEF RowsInSessions
  <2> QED
    BY <1>1, <2>1, UnderWayGrows
<1>6. LinkInv'
  <2>1. \A n \in Notice : notice'[n].pc # "idle" => link'
    BY <1>1 DEF KnownInv, LinkInv
  <2>2. ~link' => toClient' = << >>
    BY <1>1 DEF KnownInv, LinkInv
  <2>3. \A s \in Session : sess'[s].pc # "idle" => link'
    BY <1>1, <1>4
  <2> QED
    BY <1>4, <2>1, <2>2, <2>3 DEF LinkInv
<1>7. {clientLsn', urlLsn', srvLsn', applying'.lsn} \subseteq KeptLsns /\ Lsns(toClient') \subseteq KeptLsns
  BY <1>1, <1>3, Kept
<1>8. \A n \in Notice : notice'[n].lsn \in KeptLsns /\ notice'[n].upto <= ServerLSN
  BY <1>1, Kept DEF KnownInv
<1> QED
  BY <1>1, <1>3, <1>4, <1>5, <1>6, <1>7, <1>8, Moves

\* A notice of new changes keeps the invariant.
LEMMA NewChangesKnown ==
    ASSUME TypeInv, KnownInv, NEW n \in Notice, NewChanges(n)
    PROVE  KnownInv'
<1> DEFINE x == IF link THEN [pc |-> "read", lsn |-> srvLsn, upto |-> ServerLSN] ELSE IdleNotice
<1>1. /\ notice' = [notice EXCEPT ![n] = x]
      /\ UNCHANGED <<history, link, toClient, toServer, clientLsn, urlLsn, applying, seen, dropped,
                     srvLsn, sess>>
  BY DEF NewChanges, netVars, clientVars
<1>2. ServerLSN \in Nat
  BY ServerLsnIsLast DEF TypeInv
<1>3. x.lsn \in {0, srvLsn} /\ x.upto <= ServerLSN /\ (x.pc # "idle" => link)
  BY <1>2 DEF IdleNotice
<1> HIDE DEF x
<1>4. \A k \in Notice : notice'[k] = IF k = n THEN x ELSE notice[k]
  BY <1>1 DEF TypeInv
<1>5. \A k \in Notice : notice'[k].lsn \in KeptLsns /\ notice'[k].upto <= ServerLSN
  <2> TAKE k \in Notice
  <2>1. CASE k = n
    BY <1>3, <1>4, <2>1, Kept
  <2>2. CASE k # n
    BY <1>4, <2>2, Kept DEF KnownInv
  <2> QED
    BY <2>1, <2>2
<1>6. LinkInv'
  <2>1. \A k \in Notice : notice'[k].pc # "idle" => link'
    BY <1>1, <1>3, <1>4 DEF KnownInv, LinkInv
  <2> QED
    BY <1>1, <2>1 DEF KnownInv, LinkInv
<1>7. UnderWay \subseteq UnderWay'
  BY <1>1 DEF UnderWay, OwnRows, RowsInSessions
<1>8. /\ {clientLsn', urlLsn', srvLsn', applying'.lsn} \subseteq KeptLsns
      /\ Lsns(toClient') \subseteq KeptLsns /\ Lsns(toServer') \subseteq KeptLsns
      /\ \A s \in Session : SessionLsns(sess'[s]) \subseteq KeptLsns
  BY <1>1, Kept
<1> QED
  BY <1>1, <1>5, <1>6, <1>7, <1>8, Moves

\* A live update keeps the invariant.
LEMMA LiveKnown ==
    ASSUME TypeInv, KnownInv, NEW n \in Notice, SendLiveChanges(n)
    PROVE  KnownInv'
<1> DEFINE from == notice[n].lsn
           upto == notice[n].upto
<1>1. PICK raw \in Limited(LiveRows(from, upto), LiveLimit) : LiveUpdate(n, raw)
  BY DEF SendLiveChanges
<1>2. /\ notice[n].pc = "read" /\ notice' = [notice EXCEPT ![n] = IdleNotice]
      /\ UNCHANGED <<history, link, toServer, clientLsn, urlLsn, applying, seen, dropped, sess>>
  BY DEF SendLiveChanges, dbVars, clientVars
<1>3. link
  BY <1>2 DEF KnownInv, LinkInv
<1>4. from \in Nat /\ upto \in Nat /\ Rows(history) /\ toClient \in Seq(ClientChunk)
  BY DEF TypeInv
<1>5. from \in KeptLsns /\ upto <= ServerLSN /\ Covers(UnderWay, history, from)
  BY Kept DEF KnownInv
<1> DEFINE chunks == [i \in DOMAIN Chunks(raw) |-> [Chunks(raw)[i] EXCEPT !.n = 0]]
           f == FinalLSN(upto, raw)
           New == {f} \cup {r.lsn : r \in raw}
<1>6. /\ Rows(raw) /\ raw \subseteq LiveRows(from, upto) /\ chunks \in Seq(ClientChunk)
      /\ raw = {} => f = upto
      /\ raw # {} => \E r \in raw : f = r.lsn
  BY <1>1, <1>4, LiveChunks
<1>7. /\ srvLsn' = f
      /\ toClient' = IF Processed(raw) = {} THEN toClient ELSE toClient \o chunks
  BY <1>1, <1>3 DEF LiveUpdate
<1>8. Lsns(chunks) \subseteq New /\ Processed(raw) \subseteq RowsIn(chunks)
  <2>1. Chunks(raw) \in Seq(Chunk)
    BY <1>6, ChunksOf
  <2> DEFINE q == Chunks(raw)
  <2>2. /\ \A i \in DOMAIN q : q[i] \in Chunk
        /\ \A i \in DOMAIN q : \E r \in raw : q[i].lsn = r.lsn
        /\ \A r \in Processed(raw) : \E i \in DOMAIN q : r \in q[i].rows
    BY <1>6, <2>1, ChunksOf
  <2> HIDE DEF q
  <2>3. \A c \in Chunk : [c EXCEPT !.n = 0].lsn = c.lsn /\ [c EXCEPT !.n = 0].rows = c.rows
    BY DEF Chunk
  <2>4. chunks = [i \in DOMAIN q |-> [q[i] EXCEPT !.n = 0]]
    BY DEF q
  <2> HIDE DEF chunks, f
  <2>5. DOMAIN chunks = DOMAIN q
        /\ \A i \in DOMAIN q : chunks[i].lsn = q[i].lsn /\ chunks[i].rows = q[i].rows
    BY <2>2, <2>3, <2>4
  <2>6. Lsns(chunks) \subseteq New
    BY <2>2, <2>5 DEF Lsns
  <2>7. Processed(raw) \subseteq RowsIn(chunks)
    BY <2>2, <2>5 DEF RowsIn
  <2> QED
    BY <2>6, <2>7
<1> HIDE DEF chunks, f
<1>9. /\ Lsns(toClient') \subseteq KeptLsns \cup New
      /\ RowsIn(toClient) \cup Processed(raw) \subseteq RowsIn(toClient')
  <2>1. /\ Lsns(toClient \o chunks) = Lsns(toClient) \cup Lsns(chunks)
        /\ RowsIn(toClient \o chunks) = RowsIn(toClient) \cup RowsIn(chunks)
    BY <1>4, <1>6, ContentsJoined
  <2> HIDE DEF New
  <2>2. CASE Processed(raw) = {}
    BY <1>7, <2>2, Kept
  <2>3. CASE Processed(raw) # {}
    BY <1>7, <1>8, <2>1, <2>3, Kept
  <2> QED
    BY <2>2, <2>3
<1>10. UnderWay \subseteq UnderWay'
  BY <1>2, <1>9 DEF UnderWay, OwnRows, RowsInSessions
<1>11. OwnRows \subseteq UnderWay' /\ Latest(raw) \subseteq UnderWay'
  <2>1. OwnRows \subseteq UnderWay
    BY DEF UnderWay
  <2>2. RowsIn(toClient') \subseteq UnderWay'
    BY DEF UnderWay
  <2>3. \A q \in Latest(raw) : q \in OwnRows \/ q \in Processed(raw)
    BY <1>6 DEF Latest, Processed, OwnRows, LiveRows
  <2> QED
    BY <1>9, <1>10, <2>1, <2>2, <2>3
<1>12. ASSUME NEW last \in raw
       PROVE  last.lsn <= ServerLSN /\ Covers(UnderWay', history, last.lsn)
  <2>1. LiveRows(from, upto) \in SUBSET history /\ last.lsn <= upto /\ last \in history
    BY <1>6 DEF LiveRows
  <2>2. last.lsn <= ServerLSN
    BY <1>4, <2>1, ServerLsnIsLast
  <2>3. \A r \in history : from < r.lsn /\ r.lsn <= last.lsn => r \in LiveRows(from, upto) \/ r.own
    <3> TAKE r \in history
    <3>1. r.lsn \in Nat /\ last.lsn \in Nat
      BY <1>4, <2>1, RowTypes DEF Rows
    <3>2. from < r.lsn /\ r.lsn <= last.lsn => r.lsn > from /\ r.lsn <= upto
      BY <1>4, <2>1, <3>1
    <3> QED
      BY <3>2 DEF LiveRows
  <2>4. Covers(UnderWay', history, from)
    BY <1>5, <1>10, MoreCovers
  <2>5. \A r, q \in history : r.lsn = q.lsn => r = q
    BY DEF KnownInv
  <2> HIDE DEF from, upto
  <2>6. Covers(UnderWay', history, last.lsn)
    BY <1>1, <1>4, <1>11, <2>1, <2>3, <2>4, <2>5, BatchCovers
  <2> QED
    BY <2>2, <2>6
<1>13. ASSUME raw = {} PROVE Covers(UnderWay', history, upto)
  <2> DEFINE S == LiveRows(from, upto)
  <2>1. IsFiniteSet(S)
    <3>1. S \in SUBSET history
      BY DEF LiveRows
    <3> QED
      BY <1>4, <3>1, FS_Subset DEF Rows
  <2>2. LiveLimit \in Nat \ {0}
    BY SizesPositive
  <2>3. 0 = IF Cardinality(S) <= LiveLimit THEN Cardinality(S) ELSE LiveLimit
    BY <1>1, <1>13, FS_EmptySet DEF Limited
  <2>4. Cardinality(S) = 0
    BY <2>2, <2>3
  <2>5. S = {}
    <3> HIDE DEF S
    <3> QED
      BY <2>1, <2>4, FS_EmptySet
  <2>6. \A r \in history : r.lsn <= upto => r.lsn <= from
    <3> TAKE r \in history
    <3>1. r.lsn \in Nat
      BY <1>4, RowTypes DEF Rows
    <3> QED
      BY <1>4, <2>5, <3>1 DEF LiveRows
  <2>7. Covers(UnderWay, history, upto)
    BY <1>5, <2>6 DEF Covers
  <2> QED
    BY <1>10, <2>7, MoreCovers
<1>14. ASSUME NEW l \in New PROVE l <= ServerLSN /\ Covers(UnderWay', history, l)
  <2>1. CASE raw = {}
    <3>1. l = upto
      BY <1>6, <2>1
    <3> QED
      BY <1>5, <1>13, <2>1, <3>1
  <2>2. CASE raw # {}
    <3>1. \E r \in raw : l = r.lsn
      BY <1>6, <2>2
    <3> QED
      BY <1>12, <3>1
  <2> QED
    BY <2>1, <2>2
<1>15. f \in New
  OBVIOUS
<1> HIDE DEF New
<1>16. {clientLsn', urlLsn', srvLsn', applying'.lsn} \subseteq KeptLsns \cup New
       /\ Lsns(toServer') \subseteq KeptLsns \cup New
       /\ \A s \in Session : SessionLsns(sess'[s]) \subseteq KeptLsns \cup New
  BY <1>2, <1>7, <1>15, Kept
<1>17. \A k \in Notice : notice'[k] = IF k = n THEN IdleNotice ELSE notice[k]
  BY <1>2 DEF TypeInv
<1>18. \A k \in Notice : notice'[k].lsn \in KeptLsns \cup New /\ notice'[k].upto <= ServerLSN
  <2> TAKE k \in Notice
  <2>1. CASE k = n
    <3>1. notice'[k].lsn = 0 /\ notice'[k].upto = 0
      BY <1>17, <2>1 DEF IdleNotice
    <3>2. ServerLSN \in Nat
      BY <1>4, ServerLsnIsLast
    <3> QED
      BY <3>1, <3>2, Kept
  <2>2. CASE k # n
    BY <1>17, <2>2, Kept DEF KnownInv
  <2> QED
    BY <2>1, <2>2
<1>19. LinkInv'
  BY <1>2, <1>3 DEF KnownInv, LinkInv
<1> QED
  BY <1>2, <1>9, <1>10, <1>14, <1>16, <1>18, <1>19, StillKnown

\* The browser takes rows over and remembers their LSN.
LEMMA BrowserKnown ==
    ASSUME TypeInv, KnownInv, Receive \/ Apply \/ ApplyError
    PROVE  KnownInv'
<1>1. UNCHANGED <<history, link, sess, notice, urlLsn, srvLsn>>
  BY DEF Receive, Apply, ApplyError, dbVars, netVars
<1>2. \A s \in Session : SessionLsns(sess'[s]) \subseteq KeptLsns
  BY <1>1, Kept
<1>3. \A n \in Notice : notice'[n].lsn \in KeptLsns /\ notice'[n].upto <= ServerLSN
  BY <1>1, Kept DEF KnownInv
<1>4. RowsInSessions \subseteq RowsInSessions'
  BY <1>1 DEF RowsInSessions
<1>5. CASE Receive
  <2> DEFINE m == Head(toClient)
  <2>1. /\ toClient # << >> /\ toClient' = Tail(toClient) /\ clientLsn' = m.lsn
        /\ UNCHANGED <<toServer, seen>>
        /\ \/ applying = NoRows /\ applying' = m /\ UNCHANGED dropped
           \/ dropped' = dropped \cup m.rows /\ UNCHANGED applying
    BY <1>5 DEF Receive
  <2>2. toClient \in Seq(ClientChunk)
    BY DEF TypeInv
  <2>3. m.lsn \in KeptLsns /\ Lsns(toClient') \subseteq KeptLsns
        /\ RowsIn(toClient) = m.rows \cup RowsIn(toClient')
    BY <2>1, <2>2, Contents, Kept
  <2>4. NoRows.rows = {}
    BY DEF NoRows
  <2> HIDE DEF m
  <2>5. {clientLsn', urlLsn', srvLsn', applying'.lsn} \subseteq KeptLsns
    BY <1>1, <2>1, <2>3, Kept
  <2>6. UnderWay \subseteq UnderWay'
    BY <1>1, <1>4, <2>1, <2>3, <2>4, UnderWayGrows
  <2>7. LinkInv'
    <3>1. ~link' => FALSE
      BY <1>1, <2>1 DEF KnownInv, LinkInv
    <3> QED
      BY <1>1, <3>1 DEF KnownInv, LinkInv
  <2>8. Lsns(toServer') \subseteq KeptLsns
    BY <2>1, Kept
  <2> QED
    BY <1>1, <1>2, <1>3, <2>3, <2>5, <2>6, <2>7, <2>8, Moves
<1>6. CASE Apply \/ ApplyError
  <2> DEFINE m == [n |-> applying.n, lsn |-> applying.lsn]
  <2>1. /\ applying' = NoRows /\ toServer' \in {toServer, Append(toServer, m)}
        /\ seen \cup dropped \cup applying.rows \subseteq seen' \cup dropped'
        /\ UNCHANGED <<toClient, clientLsn>>
    BY <1>6 DEF Apply, ApplyError, netVars
  <2>2. toServer \in Seq([n : ChunkNumber, lsn : Nat]) /\ m.lsn = applying.lsn
    BY DEF TypeInv
  <2> HIDE DEF m
  <2>3. Lsns(toServer') \subseteq KeptLsns
    <3>1. Lsns(Append(toServer, m)) = Lsns(toServer) \cup {m.lsn}
      BY <2>2, Contents
    <3> QED
      BY <2>1, <2>2, <3>1, Kept
  <2>4. {clientLsn', urlLsn', srvLsn', applying'.lsn} \subseteq KeptLsns
    <3>1. applying'.lsn = 0
      BY <2>1 DEF NoRows
    <3> QED
      BY <1>1, <2>1, <3>1, Kept
  <2>5. UnderWay \subseteq UnderWay'
    BY <1>1, <1>4, <2>1, UnderWayGrows
  <2>6. LinkInv' /\ Lsns(toClient') \subseteq KeptLsns
    BY <1>1, <2>1, Kept DEF KnownInv, LinkInv
  <2> QED
    BY <1>1, <1>2, <1>3, <2>3, <2>4, <2>5, <2>6, Moves
<1> QED
  BY <1>5, <1>6

\* Without a connection, and when everything has settled, nothing is under way.
LEMMA NothingUnderWay ==
    ASSUME TypeInv, KnownInv, Settled \/ ~link
    PROVE  /\ toClient = << >>
           /\ \A s \in Session : sess[s].pc = "idle" /\ sess[s].todo = << >>
                                 /\ RowsIn(Unsent(sess[s])) = {}
           /\ RowsInSessions = {}
           /\ \A n \in Notice : notice[n].pc = "idle"
<1>1. toClient = << >> /\ \A s \in Session : sess[s].pc = "idle"
  BY DEF KnownInv, LinkInv, Settled
<1>2. \A n \in Notice : notice[n].pc = "idle"
  BY DEF KnownInv, LinkInv, Settled
<1>3. \A s \in Session : sess[s].todo = << >> /\ RowsIn(Unsent(sess[s])) = {}
  BY <1>1, EmptyContents DEF KnownInv, LinkInv, Unsent
<1>4. RowsInSessions = {}
  BY <1>3 DEF RowsInSessions
<1> QED
  BY <1>1, <1>2, <1>3, <1>4

\* A connection that ends with nothing under way keeps the invariant.
LEMMA BreakKnown ==
    ASSUME TypeInv, KnownInv, QuietBreak, Evict \/ Disconnect \/ Reload
    PROVE  KnownInv'
<1>1. Settled \/ ~link
  BY DEF QuietBreak, Evict, Disconnect, Reload
<1>2. /\ toClient = << >> /\ RowsInSessions = {}
      /\ \A s \in Session : sess[s].pc = "idle" /\ sess[s].todo = << >>
      /\ \A n \in Notice : notice[n].pc = "idle"
  BY <1>1, NothingUnderWay
<1>3. /\ toClient' = << >> /\ toServer' = << >> /\ UNCHANGED <<history, clientLsn, seen, srvLsn>>
      /\ urlLsn' \in {urlLsn, clientLsn}
      /\ applying' \in {applying, NoRows}
      /\ dropped \cup applying.rows \subseteq dropped' \cup applying'.rows
  BY DEF Evict, Disconnect, Reload, dbVars, clientVars
<1>4. \/ UNCHANGED <<sess, notice>>
      \/ sess' = [s \in Session |-> IdleSession] /\ notice' = [n \in Notice |-> IdleNotice]
  BY DEF Evict, Disconnect, Reload
<1>5. ASSUME NEW s \in Session
      PROVE  SessionLsns(sess'[s]) \subseteq KeptLsns /\ sess'[s].pc = "idle" /\ sess'[s].todo = << >>
  <2>1. CASE sess'[s] = sess[s]
    BY <1>2, <2>1, Kept
  <2>2. CASE sess'[s] = IdleSession
    BY <2>2, IdleKept, Kept
  <2> QED
    BY <1>4, <2>1, <2>2
<1>6. ASSUME NEW n \in Notice
      PROVE  notice'[n].lsn \in KeptLsns /\ notice'[n].upto <= ServerLSN /\ notice'[n].pc = "idle"
  <2>1. CASE notice'[n] = notice[n]
    BY <1>2, <2>1, Kept DEF KnownInv
  <2>2. CASE notice'[n] = IdleNotice
    <3>1. ServerLSN \in Nat
      BY ServerLsnIsLast DEF TypeInv
    <3> QED
      BY <2>2, <3>1, Kept DEF IdleNotice
  <2> QED
    BY <1>4, <2>1, <2>2
<1>7. UnderWay \subseteq UnderWay'
  BY <1>2, <1>3, UnderWayGrows
<1>8. {clientLsn', urlLsn', srvLsn', applying'.lsn} \subseteq KeptLsns
  <2>1. NoRows.lsn = 0
    BY DEF NoRows
  <2> QED
    BY <1>3, <2>1, Kept
<1>9. Lsns(toClient') \subseteq KeptLsns /\ Lsns(toServer') \subseteq KeptLsns
  BY <1>3, EmptyContents
<1>10. LinkInv'
  BY <1>3, <1>5, <1>6 DEF LinkInv
<1> QED
  BY <1>3, <1>5, <1>6, <1>7, <1>8, <1>9, <1>10, Moves

\* A transaction comes after every LSN that is kept.
LEMMA CommitKnown ==
    ASSUME TypeInv, KnownInv, TxRows = 1, Commit
    PROVE  KnownInv'
<1>1. PICK ids \in (SUBSET Entity) \ {{}}, op \in {"write", "delete"}, own \in BOOLEAN :
         /\ Cardinality(ids) <= TxRows
         /\ history' = history \cup
            { [lsn |-> ServerLSN + 1, id |-> i, op |-> op, own |-> own] : i \in ids }
  BY DEF Commit
<1>2. UNCHANGED <<noticed, netVars, clientVars, srvLsn, acks, sess, notice, bounds>>
  BY DEF Commit
<1>3. PICK e : ids = {e}
  <2>a. ids # {}
    OBVIOUS
  <2>b. IsFiniteSet(ids)
    BY EntityNumbers, FS_Subset
  <2>1. IsFiniteSet(ids) /\ ids # {}
    BY <2>a, <2>b
  <2>2. Cardinality(ids) \in Nat /\ Cardinality(ids) # 0
    BY <2>1, FS_CardinalityType, FS_EmptySet
  <2>3. Cardinality(ids) = 1
    BY <1>1, <2>2
  <2> QED
    BY <2>1, <2>3, FS_Singleton
<1> DEFINE new == [lsn |-> ServerLSN + 1, id |-> e, op |-> op, own |-> own]
<1>4. history' = history \cup {new} /\ new.lsn = ServerLSN + 1
  BY <1>1, <1>3
<1> HIDE DEF new
<1>5. Rows(history) /\ Rows(history')
  BY CommitRows DEF TypeInv
<1>6. ServerLSN \in Nat /\ \A r \in history : r.lsn \in Nat /\ r.lsn <= ServerLSN
  BY <1>5, ServerLsnIsLast, RowTypes DEF Rows
<1>7. ServerLSN' \in Nat /\ \A r \in history' : r.lsn <= ServerLSN'
  <2>1. \A h : h = history' => (IF h = {} THEN 0 ELSE CHOOSE l \in {r.lsn : r \in h} :
                                   \A r \in h : r.lsn <= l) = ServerLSN'
    BY DEF ServerLSN
  <2> DEFINE h == history'
             T == {r.lsn : r \in h}
  <2>2. T \in SUBSET Int /\ IsFiniteSet(T)
    BY <1>5, LsnsOfRows DEF Rows
  <2>3. T # {} /\ h # {}
    BY <1>4
  <2>4. PICK m \in T : \A x \in T : x <= m
    <3> HIDE DEF T
    <3> QED
      BY <2>2, <2>3, GreatestExists
  <2>5. \A r \in h : r.lsn <= m
    BY <2>4
  <2>6. ServerLSN' = CHOOSE l \in T : \A r \in h : r.lsn <= l
    BY <2>1, <2>3
  <2>7. ServerLSN' \in T /\ \A r \in h : r.lsn <= ServerLSN'
    <3> HIDE DEF T, h
    <3> QED
      BY <2>4, <2>5, <2>6
  <2>8. \A x \in T : x \in Nat
    BY <1>5, RowTypes DEF Rows
  <2> QED
    BY <2>7, <2>8
<1>8. ServerLSN + 1 <= ServerLSN'
  BY <1>4, <1>7
<1>9. KeptLsns' = KeptLsns
  <2>1. LsnsInSessions' = LsnsInSessions
    BY <1>2 DEF LsnsInSessions
  <2>2. LsnsInNotices' = LsnsInNotices
    BY <1>2 DEF LsnsInNotices
  <2> QED
    BY <1>2, <2>1, <2>2 DEF KeptLsns, netVars, clientVars
<1>10. UnderWay \subseteq UnderWay'
  <2>1. RowsInSessions' = RowsInSessions
    BY <1>2 DEF RowsInSessions
  <2>2. OwnRows \subseteq OwnRows'
    BY <1>4 DEF OwnRows
  <2> QED
    BY <1>2, <2>1, <2>2 DEF UnderWay, netVars, clientVars
<1>11. ASSUME NEW l \in KeptLsns'
       PROVE  l <= ServerLSN' /\ Covers(UnderWay', history', l)
  <2>1. l <= ServerLSN /\ Covers(UnderWay, history, l)
    BY <1>9 DEF KnownInv
  <2>2. Covers(UnderWay', history, l)
    BY <1>10, <2>1, MoreCovers
  <2>3. l \in Nat
    <3>1. \A k \in KeptLsns : k \in Nat
      <4> SUFFICES ASSUME NEW k \in KeptLsns PROVE k \in Nat
        OBVIOUS
      <4>1. \A S : \A q \in Seq(S) : (\A c \in S : c.lsn \in Nat) => Lsns(q) \subseteq Nat
        BY DEF Lsns
      <4>2. Lsns(toClient) \subseteq Nat
        BY <4>1, MessageTypes DEF TypeInv
      <4>3. Lsns(toServer) \subseteq Nat
        <5>1. \A c \in [n : ChunkNumber, lsn : Nat] : c.lsn \in Nat
          OBVIOUS
        <5> QED
          BY <4>1, <5>1 DEF TypeInv
      <4>4. \A s \in Session : SessionLsns(sess[s]) \subseteq Nat
        <5> TAKE s \in Session
        <5>1. sess[s].lsn \in Nat /\ sess[s].upto \in Nat /\ sess[s].todo \in Seq(CatchupChunk)
          BY DEF TypeInv, SessionType
        <5>2. Lsns(sess[s].todo) \subseteq Nat
          BY <4>1, <5>1, MessageTypes
        <5> QED
          BY <5>1, <5>2 DEF SessionLsns
      <4>5. LsnsInSessions \subseteq Nat
        BY <4>4 DEF LsnsInSessions
      <4>6. LsnsInNotices \subseteq Nat
        BY DEF LsnsInNotices, TypeInv
      <4>7. {0, clientLsn, urlLsn, srvLsn, applying.lsn} \subseteq Nat
        BY MessageTypes DEF TypeInv
      <4> QED
        BY <4>2, <4>3, <4>5, <4>6, <4>7 DEF KeptLsns
    <3> QED
      BY <1>9, <3>1
  <2>4. ~(new.lsn <= l)
    BY <1>4, <1>6, <2>1, <2>3
  <2>5. Covers(UnderWay', history', l)
    BY <1>4, <2>2, <2>4 DEF Covers
  <2> QED
    BY <1>6, <1>7, <1>8, <2>1, <2>3, <2>5
<1>12. \A n \in Notice : notice'[n].upto <= ServerLSN'
  <2> TAKE n \in Notice
  <2>1. notice[n].upto <= ServerLSN /\ notice[n].upto \in Nat /\ notice'[n] = notice[n]
    BY <1>2 DEF KnownInv, TypeInv
  <2> QED
    BY <1>6, <1>7, <1>8, <2>1
<1>13. \A r \in history' : r.lsn > 0
  BY <1>4, <1>6 DEF KnownInv
<1>14. \A r, q \in history' : r.lsn = q.lsn => r = q
  <2> SUFFICES ASSUME NEW r \in history', NEW q \in history', r.lsn = q.lsn PROVE r = q
    OBVIOUS
  <2>1. CASE r \in history /\ q \in history
    BY <2>1 DEF KnownInv
  <2>2. CASE r \notin history \/ q \notin history
    <3>1. \A p \in history : p.lsn # new.lsn
      <4> TAKE p \in history
      <4>1. p.lsn \in Nat /\ p.lsn <= ServerLSN
        BY <1>6
      <4> QED
        BY <1>4, <1>6, <4>1
    <3> QED
      BY <1>4, <2>2, <3>1
  <2> QED
    BY <2>1, <2>2
<1>15. LinkInv'
  BY <1>2 DEF KnownInv, LinkInv, netVars
<1>16. \A l \in KeptLsns' : l <= ServerLSN' /\ Covers(UnderWay', history', l)
  BY <1>11
<1> QED
  BY <1>12, <1>13, <1>14, <1>15, <1>16 DEF KnownInv

\* The invariant holds at first.
LEMMA InitKnown == Init => KnownInv
<1> SUFFICES ASSUME Init PROVE KnownInv
  OBVIOUS
<1>1. /\ history = {} /\ ~link /\ toClient = << >> /\ toServer = << >>
      /\ clientLsn = 0 /\ urlLsn = 0 /\ srvLsn = 0 /\ applying = NoRows
      /\ \A s \in Session : sess[s] = IdleSession
      /\ \A n \in Notice : notice[n] = IdleNotice
  BY DEF Init
<1>2. ServerLSN = 0
  BY <1>1 DEF ServerLSN
<1>3. LinkInv
  BY <1>1, IdleKept DEF LinkInv, IdleNotice
<1>4. ASSUME NEW l \in KeptLsns PROVE l = 0
  <2>1. \/ l \in {0, clientLsn, urlLsn, srvLsn, applying.lsn}
        \/ l \in Lsns(toClient) \/ l \in Lsns(toServer)
        \/ l \in LsnsInSessions \/ l \in LsnsInNotices
    BY DEF KeptLsns
  <2>2. applying.lsn = 0
    BY <1>1 DEF NoRows
  <2>3. l \in LsnsInSessions => l = 0
    BY <1>1, IdleKept DEF LsnsInSessions
  <2>4. l \in LsnsInNotices => l = 0
    BY <1>1 DEF LsnsInNotices, IdleNotice
  <2> QED
    BY <1>1, <2>1, <2>2, <2>3, <2>4, EmptyContents
<1>5. \A l \in KeptLsns : l <= ServerLSN /\ Covers(UnderWay, history, l)
  <2> SUFFICES ASSUME NEW l \in KeptLsns PROVE l <= ServerLSN /\ Covers(UnderWay, history, l)
    OBVIOUS
  <2>1. l = 0
    BY <1>4
  <2> QED
    BY <1>1, <1>2, <2>1 DEF Covers
<1>6. \A n \in Notice : notice[n].upto <= ServerLSN
  BY <1>1, <1>2 DEF IdleNotice
<1> QED
  BY <1>1, <1>3, <1>5, <1>6 DEF KnownInv

\* Every step keeps the invariant, if connections end only when nothing is
\* under way.
LEMMA NextKnown ==
    ASSUME TypeInv, KnownInv, TxRows = 1, [Next]_vars, [QuietBreak]_vars
    PROVE  KnownInv'
<1>1. ASSUME NEW s \in Session, SessionStep(s) PROVE KnownInv'
  BY <1>1, DetermineKnown, QueryKnown, SendKnown, EndKnown DEF SessionStep
<1>2. CASE Hibernate \/ UNCHANGED vars
  <2>1. UNCHANGED <<dbVars, netVars, clientVars, srvLsn, sess, notice>>
    BY <1>2 DEF Hibernate, vars
  <2>2. UnderWay \subseteq UnderWay'
    BY <2>1 DEF UnderWay, OwnRows, RowsInSessions, dbVars, netVars, clientVars
  <2>3. LinkInv'
    BY <2>1 DEF KnownInv, LinkInv, netVars
  <2>4. /\ {clientLsn', urlLsn', srvLsn', applying'.lsn} \subseteq KeptLsns
        /\ Lsns(toClient') \subseteq KeptLsns /\ Lsns(toServer') \subseteq KeptLsns
        /\ \A s \in Session : SessionLsns(sess'[s]) \subseteq KeptLsns
        /\ \A n \in Notice : notice'[n].lsn \in KeptLsns /\ notice'[n].upto <= ServerLSN
    BY <2>1, Kept DEF KnownInv, dbVars, netVars, clientVars
  <2> QED
    BY <2>1, <2>2, <2>3, <2>4, Moves DEF dbVars
<1>3. CASE Evict \/ Disconnect \/ Reload
  <2>1. QuietBreak
    <3>1. CASE UNCHANGED vars
      BY <3>1 DEF QuietBreak, vars, netVars
    <3> QED
      BY <3>1
  <2> QED
    BY <1>3, <2>1, BreakKnown
<1> QED
  BY <1>1, <1>2, <1>3, CommitKnown, ConnectKnown, AckKnown, NewChangesKnown, LiveKnown,
     BrowserKnown DEF Next

\* What is kept is given to the browser or under way, and nothing is under way.
LEMMA KnownWasGiven == TypeInv /\ KnownInv => NoSilentLoss /\ NoSilentSkip
<1> SUFFICES ASSUME TypeInv, KnownInv, Settled,
                    NEW r \in history, r.lsn <= clientLsn \/ r.lsn <= srvLsn
             PROVE  Handled(r)
  BY DEF NoSilentLoss, NoSilentSkip
<1>1. Covers(UnderWay, history, clientLsn) /\ Covers(UnderWay, history, srvLsn)
  BY Kept DEF KnownInv
<1>2. PICK q \in UnderWay : q.id = r.id /\ q.lsn >= r.lsn
  BY <1>1 DEF Covers
<1>3. RowsInSessions = {} /\ RowsIn(toClient) = {} /\ applying.rows = {}
  BY NothingUnderWay, EmptyContents DEF Settled, NoRows
<1>4. q \in seen \cup dropped \cup OwnRows
  BY <1>3 DEF UnderWay
<1> QED
  BY <1>2, <1>4 DEF Handled

\* Transactions of one row, which a LIMIT cannot cut, and connections that end
\* only when nothing is under way: then the browser's LSN passes no row that the
\* browser was not given, whatever the sizes of chunks and batches, and however
\* sessions, acks that are late or refused, failing applies and live updates
\* interleave.
THEOREM NothingLost ==
    ASSUME TxRows = 1
    PROVE  Spec /\ [][QuietBreak]_vars => []NoSilentLoss
  BY KnownWasGiven, InitTypes, NextTypes, InitKnown, NextKnown, PTL DEF Spec

\* Neither does the LSN that the server keeps for it, from which live updates go
\* on.
THEOREM NothingSkipped ==
    ASSUME TxRows = 1
    PROVE  Spec /\ [][QuietBreak]_vars => []NoSilentSkip
  BY KnownWasGiven, InitTypes, NextTypes, InitKnown, NextKnown, PTL DEF Spec

=============================================================================
