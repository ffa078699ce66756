---------------------------- MODULE EndToEndProofs ----------------------------
(***************************************************************************)
(* Proofs about EndToEnd for any browsers, rows and bounds: the types, and *)
(* that a browser which has everything and has nothing left to send shows  *)
(* what the server has, unless there is a cause.                           *)
(*                                                                         *)
(* The invariant says where the news is when a row of a browser differs    *)
(* from the server's: in a change that was never sent, in a message that   *)
(* is in process, or in a part of change_history the browser has not       *)
(* received.  What could lose it is an update that finds no row on the     *)
(* server; so the invariant also follows the insert of every row the       *)
(* server does not have yet.                                               *)
(***************************************************************************)
EXTENDS EndToEnd, FiniteNumbers, SequenceTheorems

-----------------------------------------------------------------------------
(* The invariant.                                                          *)

\* Every edit has a version of its own.
Versions ==
    /\ sent \subseteq 1..edits
    /\ \A c \in Client : \A e \in changes[c] : e.v <= edits
    /\ \A c, d \in Client : \A e \in changes[c], x \in changes[d] :
          e.v = x.v => c = d /\ e = x

\* A browser has the rows it changed.
Known ==
    /\ \A c \in Client : \A e \in changes[c] : local[c][e.row] # Absent
    /\ \A i \in DOMAIN messages : \A r \in messages[i].rows : local[messages[i].from][r] # Absent
    /\ \A c \in Client : \A k \in DOMAIN answers[c] : \A r \in answers[c][k] : local[c][r] # Absent

\* The last entry of a row in change_history is what the server has.
LastOf(j) == \A k \in DOMAIN history : k > j => history[k].row # history[j].row

HistoryInv ==
    \A j \in DOMAIN history :
        /\ server[history[j].row] # Absent
        /\ LastOf(j) => history[j].v = server[history[j].row]

\* The insert of a row is queued, before all other changes of the row, and
\* nothing of the row has been sent.
Fresh(c, r) ==
    /\ \E x \in changes[c] :
          /\ x.row = r /\ x.op = "insert" /\ x.v \in queue[c]
          /\ \A e \in changes[c] : e.row = r => x.v <= e.v
    /\ \A i \in DOMAIN messages : messages[i].from = c => r \notin messages[i].rows
    /\ \A k \in DOMAIN answers[c] : r \notin answers[c][k]

InsertSent(c, r) ==
    \E i \in DOMAIN messages :
        messages[i].from = c /\ \E e \in messages[i].todo : e.row = r /\ e.op = "insert"

InsertInv ==
    \A c \in Client, r \in Row :
        server[r] = Absent /\ local[c][r] # Absent => Fresh(c, r) \/ InsertSent(c, r)

\* Where the news of a row is.
Unsent(c, r) == \E e \in changes[c] : e.row = r /\ e.v \notin sent
InProcess(c, r) ==
    \E i \in DOMAIN messages : messages[i].from = c /\ \E e \in messages[i].todo : e.row = r
ToReceive(c, r) == \E j \in DOMAIN history : j > received[c] /\ history[j].row = r

NewsInv ==
    \A c \in Client, r \in Row :
        Unsent(c, r) \/ InProcess(c, r) \/ ToReceive(c, r) \/ Same(c, r)

IInv == TypeOK /\ Versions /\ Known /\ HistoryInv /\ InsertInv /\ NewsInv

-----------------------------------------------------------------------------
(* The operators.                                                          *)

\* A sequence without one of its elements has the other elements.
LEMMA RemoveAtElements ==
    ASSUME NEW S, NEW s \in Seq(S), NEW i \in DOMAIN s
    PROVE  /\ RemoveAt(s, i) \in Seq(S)
           /\ \A j \in DOMAIN RemoveAt(s, i) : \E k \in DOMAIN s : RemoveAt(s, i)[j] = s[k]
           /\ \A k \in DOMAIN s \ {i} : \E j \in DOMAIN RemoveAt(s, i) : RemoveAt(s, i)[j] = s[k]
<1> DEFINE a == SubSeq(s, 1, i-1)
           b == SubSeq(s, i+1, Len(s))
           t == a \o b
<1>1. RemoveAt(s, i) = t
  BY DEF RemoveAt
<1>2. i \in 1..Len(s) /\ Len(s) \in Nat
  OBVIOUS
<1>3. a \in Seq(S) /\ Len(a) = i-1 /\ \A j \in 1..(i-1) : a[j] = s[j]
  BY <1>2
<1>4. b \in Seq(S) /\ Len(b) = Len(s)-i /\ \A j \in 1..(Len(s)-i) : b[j] = s[i+j]
  BY <1>2
<1> HIDE DEF a, b
<1>5. /\ t \in Seq(S) /\ Len(t) = Len(s)-1
      /\ \A j \in 1..(Len(s)-1) : t[j] = IF j <= i-1 THEN a[j] ELSE b[j-(i-1)]
  <2>1. Len(a) + Len(b) = Len(s)-1
    BY <1>2, <1>3, <1>4
  <2>2. /\ t \in Seq(S) /\ Len(t) = Len(a) + Len(b)
        /\ \A j \in 1..(Len(a) + Len(b)) : t[j] = IF j <= Len(a) THEN a[j] ELSE b[j - Len(a)]
    BY <1>3, <1>4, ConcatProperties
  <2> HIDE DEF t
  <2> QED
    BY <1>3, <2>1, <2>2
<1>6. \A j \in 1..(Len(s)-1) : t[j] = IF j < i THEN s[j] ELSE s[j+1]
  <2> TAKE j \in 1..(Len(s)-1)
  <2>1. CASE j < i
    BY <1>2, <1>3, <1>5, <2>1
  <2>2. CASE ~(j < i)
    <3>1. j-(i-1) \in 1..(Len(s)-i) /\ i+(j-(i-1)) = j+1 /\ ~(j <= i-1)
      BY <1>2, <2>2
    <3>2. t[j] = b[j-(i-1)]
      BY <1>5, <3>1
    <3>3. b[j-(i-1)] = s[j+1]
      BY <1>4, <3>1
    <3> QED
      BY <2>2, <3>2, <3>3
  <2> QED
    BY <2>1, <2>2
<1>7. DOMAIN t = 1..(Len(s)-1)
  BY <1>5
<1> HIDE DEF t
<1>8. \A j \in DOMAIN t : \E k \in DOMAIN s : t[j] = s[k]
  <2> TAKE j \in DOMAIN t
  <2>1. j \in DOMAIN s /\ j+1 \in DOMAIN s
    BY <1>2, <1>7
  <2> QED
    BY <1>6, <1>7, <2>1
<1>9. ASSUME NEW k \in DOMAIN s \ {i}
      PROVE  \E j \in DOMAIN t : t[j] = s[k]
  <2>1. CASE k < i
    <3>1. k \in DOMAIN t
      BY <1>2, <1>7, <2>1
    <3> QED
      BY <1>6, <1>7, <2>1, <3>1
  <2>2. CASE ~(k < i)
    <3>1. k-1 \in DOMAIN t /\ ~(k-1 < i) /\ (k-1)+1 = k
      BY <1>2, <1>7, <2>2
    <3> QED
      BY <1>6, <1>7, <3>1
  <2> QED
    BY <1>2, <2>1, <2>2
<1> QED
  BY <1>1, <1>5, <1>8, <1>9

\* Versions are finitely many numbers.
LEMMA VersionFinite ==
    ASSUME NEW T \in SUBSET Version
    PROVE  IsFiniteSet(T) /\ T \in SUBSET Int
<1>1. IsFiniteSet(Version)
  BY BoundsNat, FS_Interval DEF Version
<1>2. IsFiniteSet(T)
  BY <1>1, FS_Subset
<1>3. T \in SUBSET Int
  BY BoundsNat DEF Version
<1> QED
  BY <1>2, <1>3

\* Of changes there is an oldest and a newest one.
LEMMA OldestNewest ==
    ASSUME NEW T \in SUBSET Change, T # {}
    PROVE  /\ \E e \in T : \A x \in T : e.v <= x.v
           /\ \E e \in T : \A x \in T : x.v <= e.v
<1> DEFINE V == { e.v : e \in T }
<1>1. V \in SUBSET Version /\ V # {}
  BY DEF Change
<1>2. \A x \in T : x.v \in V
  OBVIOUS
<1>3. \A m \in V : \E e \in T : e.v = m
  OBVIOUS
<1> HIDE DEF V
<1>4. IsFiniteSet(V) /\ V \in SUBSET Int
  BY <1>1, VersionFinite
<1>5. PICK lo \in V : \A x \in V : lo <= x
  BY <1>1, <1>4, LeastExists
<1>6. PICK hi \in V : \A x \in V : x <= hi
  BY <1>1, <1>4, GreatestExists
<1> QED
  BY <1>2, <1>3, <1>5, <1>6

OfRow(S, r) == { e \in S : e.row = r }
Oldest(S, r) == CHOOSE e \in OfRow(S, r) : \A x \in OfRow(S, r) : e.v <= x.v
Newest(S, r) == CHOOSE e \in OfRow(S, r) : \A x \in OfRow(S, r) : x.v <= e.v

LEMMA OptimizedIs ==
    ASSUME NEW S
    PROVE  Optimized(S) =
             { [row |-> r, op |-> Oldest(S, r).op, v |-> Newest(S, r).v] : r \in { e.row : e \in S } }
  BY DEF Optimized, OfRow, Oldest, Newest

LEMMA OldestNewestOf ==
    ASSUME NEW S \in SUBSET Change, NEW r \in { e.row : e \in S }
    PROVE  /\ Oldest(S, r) \in OfRow(S, r) /\ \A x \in OfRow(S, r) : Oldest(S, r).v <= x.v
           /\ Newest(S, r) \in OfRow(S, r)
<1>1. OfRow(S, r) \in SUBSET Change /\ OfRow(S, r) # {}
  BY DEF OfRow
<1>2. \E e \in OfRow(S, r) : \A x \in OfRow(S, r) : e.v <= x.v
  BY <1>1, OldestNewest
<1>3. \E e \in OfRow(S, r) : \A x \in OfRow(S, r) : x.v <= e.v
  BY <1>1, OldestNewest
<1>4. Oldest(S, r) \in OfRow(S, r) /\ \A x \in OfRow(S, r) : Oldest(S, r).v <= x.v
  BY <1>2 DEF Oldest
<1>5. Newest(S, r) \in OfRow(S, r)
  BY <1>3 DEF Newest
<1> QED
  BY <1>4, <1>5

\* What is sent are changes, of the rows of the queued ones and of every one.
LEMMA OptimizedChanges ==
    ASSUME NEW S \in SUBSET Change
    PROVE  /\ Optimized(S) \in SUBSET Change
           /\ { e.row : e \in Optimized(S) } = { e.row : e \in S }
<1> DEFINE R == { e.row : e \in S }
           o(r) == [row |-> r, op |-> Oldest(S, r).op, v |-> Newest(S, r).v]
<1>1. Optimized(S) = { o(r) : r \in R }
  BY OptimizedIs
<1>2. ASSUME NEW r \in R PROVE o(r) \in Change /\ o(r).row = r
  <2>1. Oldest(S, r) \in Change /\ Newest(S, r) \in Change
    BY OldestNewestOf DEF OfRow
  <2>2. r \in Row
    BY DEF Change
  <2> QED
    BY <2>1, <2>2 DEF Change
<1> HIDE DEF R, o
<1>3. Optimized(S) \in SUBSET Change
  BY <1>1, <1>2
<1>4. { e.row : e \in Optimized(S) } = R
  BY <1>1, <1>2
<1> QED
  BY <1>3, <1>4 DEF R

\* An insert that comes before every other change of its row is sent as one.
LEMMA OptimizedInsert ==
    ASSUME NEW S \in SUBSET Change, NEW x \in S, x.op = "insert",
           \A e \in S : e.row = x.row => x.v <= e.v /\ (e.v = x.v => e = x)
    PROVE  \E e \in Optimized(S) : e.row = x.row /\ e.op = "insert"
<1> DEFINE r == x.row
           o == [row |-> r, op |-> Oldest(S, r).op, v |-> Newest(S, r).v]
<1>1. r \in { e.row : e \in S }
  OBVIOUS
<1>2. Oldest(S, r) \in S /\ Oldest(S, r).row = r /\ Oldest(S, r).v <= x.v
  BY <1>1, OldestNewestOf DEF OfRow
<1>3. x.v \in Int /\ Oldest(S, r).v \in Int
  BY <1>2, BoundsNat DEF Change, Version
<1>4. Oldest(S, r) = x
  BY <1>2, <1>3
<1>5. o \in Optimized(S)
  BY <1>1, OptimizedIs
<1> QED
  BY <1>4, <1>5

\* The types that proofs refer to.
Entry == [row : Row, op : {"insert", "update"}, v : Version, from : Client \cup {"api"}]

LEMMA HistoryType ==
    ASSUME TypeOK
    PROVE  /\ history \in Seq(Entry) /\ Len(history) \in Nat /\ DOMAIN history = 1..Len(history)
           /\ \A i \in DOMAIN history : history[i] \in Entry /\ history[i].row \in Row
           /\ \A i \in DOMAIN history : history[i].v \in Version /\ history[i].v \in Int
<1>1. history \in Seq(Entry)
  BY DEF TypeOK, Entry
<1>2. \A i \in DOMAIN history : history[i] \in Entry
  BY <1>1
<1>3. Len(history) \in Nat /\ DOMAIN history = 1..Len(history)
  BY <1>1
<1>4. \A e \in Entry : e.row \in Row /\ e.v \in Version /\ e.v \in Int
  BY BoundsNat DEF Entry, Version
<1> QED
  BY <1>1, <1>2, <1>3, <1>4

\* What a browser takes from a batch is an entry of it, and when the batch is in
\* order the last one.
LEMMA NetIs ==
    ASSUME TypeOK, NEW batch \in SUBSET (DOMAIN history), batch # {}
    PROVE  /\ \E i \in batch : Net(batch) = history[i]
           /\ \A m \in batch : (\A j \in batch : j <= m) /\ ~Disordered(batch)
                                 => Net(batch).v = history[m].v
<1> DEFINE V == { history[i].v : i \in batch }
           newest == { i \in batch : \A j \in batch : history[j].v <= history[i].v }
           first == CHOOSE i \in newest : \A j \in newest : i <= j
<1>1. \A i \in batch : history[i].v \in Version
  BY HistoryType
<1>2. V \in SUBSET Version /\ V # {}
  BY <1>1
<1>3. PICK hi \in V : \A x \in V : x <= hi
  <2> HIDE DEF V
  <2>1. IsFiniteSet(V) /\ V \in SUBSET Int
    BY <1>2, VersionFinite
  <2> QED
    BY <1>2, <2>1, GreatestExists
<1>4. newest # {}
  BY <1>3
<1>5. newest \in SUBSET (DOMAIN history)
  OBVIOUS
<1>6. first \in newest
  <2> HIDE DEF newest
  <2>1. IsFiniteSet(newest) /\ newest \in SUBSET Int
    BY <1>5, PlacesFinite, HistoryType
  <2>2. \E i \in newest : \A j \in newest : i <= j
    BY <1>4, <2>1, LeastExists
  <2> QED
    BY <2>2
<1>7. Net(batch) = history[first]
  BY DEF Net
<1>8. first \in batch /\ \A j \in batch : history[j].v <= history[first].v
  BY <1>6
<1> HIDE DEF first, newest, V
<1>9. ASSUME NEW m \in batch, \A j \in batch : j <= m, ~Disordered(batch)
      PROVE  Net(batch).v = history[m].v
  <2>1. history[m].v \in Int /\ history[first].v \in Int
    BY <1>8, HistoryType
  <2>2. m \in Int /\ first \in Int
    BY <1>8, HistoryType
  <2>3. history[m].v <= history[first].v
    BY <1>8
  <2>4. first = m \/ (first < m /\ ~(history[m].v < history[first].v))
    BY <1>8, <1>9, <2>2 DEF Disordered
  <2>5. history[m].v = history[first].v
    BY <2>1, <2>3, <2>4
  <2> QED
    BY <1>7, <2>5
<1> QED
  BY <1>7, <1>8, <1>9

\* The last entry of a row of a stretch.
LEMMA LastInBatch ==
    ASSUME TypeOK, NEW batch \in SUBSET (DOMAIN history), NEW r, RowOf(batch, r) # {}
    PROVE  /\ RowOf(batch, r) \in SUBSET (DOMAIN history)
           /\ \E m \in RowOf(batch, r) : \A j \in RowOf(batch, r) : j <= m
<1>1. RowOf(batch, r) \in SUBSET (DOMAIN history)
  BY DEF RowOf
<1>2. IsFiniteSet(RowOf(batch, r)) /\ RowOf(batch, r) \in SUBSET Int
  BY <1>1, PlacesFinite, HistoryType
<1> QED
  BY <1>1, <1>2, GreatestExists

-----------------------------------------------------------------------------
(* Types.                                                                  *)

\* The parts of TypeOK that take more than a look.
LEMMA Types ==
    ASSUME TypeOK
    PROVE  /\ edits \in Int /\ MaxEdits \in Int
           /\ \A v \in Version : v \in Int /\ v # Absent /\ v >= 1
           /\ messages \in Seq(Message) /\ Len(messages) \in Nat
           /\ DOMAIN messages = 1..Len(messages)
           /\ \A i \in DOMAIN messages :
                 /\ messages[i] \in Message
                 /\ messages[i].from \in Client /\ messages[i].rows \in SUBSET Row
                 /\ messages[i].todo \in SUBSET Change
                 /\ \A e \in messages[i].todo : e \in Change /\ e.row \in messages[i].rows
           /\ \A e \in Change : /\ e.row \in Row /\ e.v \in Version /\ e.v \in Int
                                /\ e.op \in {"insert", "update"}
<1>1. edits \in Int /\ MaxEdits \in Int
  BY BoundsNat DEF TypeOK
<1>2. \A v \in Version : v \in Int /\ v # Absent /\ v >= 1
  BY BoundsNat DEF Version, Absent
<1>3. messages \in Seq(Message)
  BY DEF TypeOK
<1>4. Len(messages) \in Nat /\ DOMAIN messages = 1..Len(messages)
  BY <1>3
<1>5. ASSUME NEW i \in DOMAIN messages
      PROVE  /\ messages[i] \in Message
             /\ messages[i].from \in Client /\ messages[i].rows \in SUBSET Row
             /\ messages[i].todo \in SUBSET Change
             /\ \A e \in messages[i].todo : e \in Change /\ e.row \in messages[i].rows
  <2>1. messages[i] \in Message
    BY <1>3
  <2>2. { e.row : e \in messages[i].todo } \subseteq messages[i].rows
    BY DEF TypeOK
  <2> QED
    BY <2>1, <2>2 DEF Message
<1>6. \A e \in Change : /\ e.row \in Row /\ e.v \in Version /\ e.v \in Int
                        /\ e.op \in {"insert", "update"}
  BY <1>2 DEF Change
<1> QED
  BY <1>1, <1>2, <1>3, <1>4, <1>5, <1>6

\* A sequence with one of its elements replaced.
LEMMA SeqExcept ==
    ASSUME NEW S, NEW s \in Seq(S), NEW i \in DOMAIN s, NEW x \in S
    PROVE  [s EXCEPT ![i] = x] \in Seq(S) /\ DOMAIN [s EXCEPT ![i] = x] = DOMAIN s
<1> DEFINE t == [s EXCEPT ![i] = x]
<1>1. s \in [1..Len(s) -> S] /\ Len(s) \in Nat
  OBVIOUS
<1>2. t \in [1..Len(s) -> S]
  BY <1>1
<1>3. t \in Seq(S) /\ DOMAIN t = 1..Len(s)
  <2> HIDE DEF t
  <2> QED
    BY <1>1, <1>2
<1> QED
  BY <1>1, <1>3

\* What a message may become.
LEMMA TodoTypes ==
    ASSUME TypeOK, NEW i \in DOMAIN messages, NEW e,
           messages' = [messages EXCEPT ![i].todo = @ \ {e}]
    PROVE  /\ messages' \in Seq(Message) /\ DOMAIN messages' = DOMAIN messages
           /\ \A k \in DOMAIN messages :
                 /\ messages'[k].from = messages[k].from
                 /\ messages'[k].rows = messages[k].rows
                 /\ messages'[k].todo = IF k = i THEN messages[k].todo \ {e} ELSE messages[k].todo
<1> DEFINE m == [messages[i] EXCEPT !.todo = @ \ {e}]
<1>1. messages \in Seq(Message) /\ messages[i] \in Message
  BY Types
<1>2. /\ m \in Message /\ m.from = messages[i].from /\ m.rows = messages[i].rows
      /\ m.todo = messages[i].todo \ {e}
  BY <1>1 DEF Message
<1>3. messages' = [messages EXCEPT ![i] = m]
  OBVIOUS
<1> HIDE DEF m
<1>4. messages' \in Seq(Message) /\ DOMAIN messages' = DOMAIN messages
  <2>1. /\ [messages EXCEPT ![i] = m] \in Seq(Message)
        /\ DOMAIN [messages EXCEPT ![i] = m] = DOMAIN messages
    BY <1>1, <1>2, SeqExcept, Zenon
  <2> QED
    BY <1>3, <2>1
<1>5. \A k \in DOMAIN messages : messages'[k] = IF k = i THEN m ELSE messages[k]
  BY <1>1, <1>3
<1> QED
  BY <1>2, <1>4, <1>5

LEMMA InitTypeOK == Init => TypeOK
<1> SUFFICES ASSUME Init PROVE TypeOK
  OBVIOUS
<1>1. << >> \in Seq(Message) /\ DOMAIN messages = {}
  BY DEF Init
<1>2. history = << >> /\ Len(history) = 0
  BY DEF Init
<1>3. answers \in [Client -> Seq(SUBSET Row)]
  BY DEF Init
<1>4. changes \in [Client -> SUBSET Change] /\ queue \in [Client -> SUBSET Version]
  BY DEF Init
<1>5. \A c \in Client : queue[c] \subseteq { e.v : e \in changes[c] }
  BY DEF Init
<1>6. edits \in 0..MaxEdits /\ reloads \in 0..MaxReloads
  BY BoundsNat DEF Init
<1>7. received \in [Client -> 0..Len(history)]
  BY <1>2 DEF Init
<1>8. server \in [Row -> {Absent} \cup Version] /\ local \in [Client -> [Row -> {Absent} \cup Version]]
  BY DEF Init
<1> QED
  BY <1>1, <1>2, <1>3, <1>4, <1>5, <1>6, <1>7, <1>8 DEF Init, TypeOK

\* The three groups of TypeOK.
ServerTypes ==
    /\ server \in [Row -> {Absent} \cup Version]
    /\ history \in Seq(Entry) /\ received \in [Client -> 0..Len(history)]
    /\ local \in [Client -> [Row -> {Absent} \cup Version]]

OutTypes ==
    /\ changes \in [Client -> SUBSET Change]
    /\ queue \in [Client -> SUBSET Version]
    /\ \A c \in Client : queue[c] \subseteq { e.v : e \in changes[c] }
    /\ sent \subseteq Version /\ cause \subseteq Client \X Row
    /\ edits \in 0..MaxEdits /\ reloads \in 0..MaxReloads

NetTypes ==
    /\ messages \in Seq(Message)
    /\ \A i \in DOMAIN messages : { e.row : e \in messages[i].todo } \subseteq messages[i].rows
    /\ answers \in [Client -> Seq(SUBSET Row)]

LEMMA TypeGroups ==
    /\ TypeOK <=> ServerTypes /\ OutTypes /\ NetTypes
    /\ TypeOK' <=> ServerTypes' /\ OutTypes' /\ NetTypes'
  BY DEF TypeOK, ServerTypes, OutTypes, NetTypes, Entry

\* The server's part of a write.
LEMMA WriteTypes ==
    ASSUME TypeOK, NEW r \in Row, NEW op, NEW v \in Version, NEW from \in Client \cup {"api"},
           Write(r, op, v, from), UNCHANGED <<local, received>>
    PROVE  ServerTypes'
<1>1. ServerTypes
  BY TypeGroups
<1>2. CASE UNCHANGED serverVars
  BY <1>1, <1>2 DEF ServerTypes, serverVars
<1>3. CASE /\ server' = [server EXCEPT ![r] = v]
           /\ history' = Append(history, [row |-> r, op |-> Op(r, server[r] # Absent),
                                          v |-> v, from |-> from])
  <2> DEFINE h == [row |-> r, op |-> Op(r, server[r] # Absent), v |-> v, from |-> from]
  <2>1. h \in Entry
    BY DEF Op, Entry
  <2> HIDE DEF h
  <2>2. history' \in Seq(Entry) /\ Len(history') = Len(history) + 1 /\ Len(history) \in Nat
    BY <1>1, <1>3, <2>1 DEF ServerTypes, h
  <2>3. server' \in [Row -> {Absent} \cup Version]
    BY <1>1, <1>3 DEF ServerTypes
  <2>4. 0..Len(history) \subseteq 0..Len(history')
    BY <2>2
  <2>5. received' \in [Client -> 0..Len(history')]
    BY <1>1, <2>4 DEF ServerTypes
  <2> QED
    BY <1>1, <2>2, <2>3, <2>5 DEF ServerTypes
<1> QED
  BY <1>2, <1>3 DEF Write

LEMMA EditTypes ==
    ASSUME TypeOK, NEW c \in Client, NEW r \in Row, Edit(c, r)
    PROVE  TypeOK'
<1> DEFINE e == [row |-> r, op |-> Op(r, local[c][r] # Absent), v |-> edits']
<1>0. ServerTypes /\ OutTypes /\ NetTypes
  BY TypeGroups
<1>1. edits' \in Version /\ edits' \in 0..MaxEdits
  BY <1>0, BoundsNat DEF Edit, NewVersion, OutTypes, Version
<1>2. e \in Change
  BY <1>1 DEF Op, Change
<1>3. ServerTypes'
  BY <1>0, <1>1 DEF Edit, ServerTypes, serverVars
<1>4. changes' = [changes EXCEPT ![c] = @ \cup {e}] /\ e.v = edits'
  BY DEF Edit
<1>5. queue' = [queue EXCEPT ![c] = @ \cup {edits'}]
  BY DEF Edit
<1> HIDE DEF e
<1>6. changes' \in [Client -> SUBSET Change] /\ queue' \in [Client -> SUBSET Version]
  BY <1>0, <1>1, <1>2, <1>4, <1>5 DEF OutTypes
<1>7. ASSUME NEW d \in Client, NEW v \in queue'[d]
      PROVE  \E x \in changes'[d] : x.v = v
  <2>1. v \in queue[d] \/ (d = c /\ v = edits')
    BY <1>0, <1>5, <1>7 DEF OutTypes
  <2>2. changes[d] \subseteq changes'[d] /\ (d = c => e \in changes'[d])
    BY <1>0, <1>4 DEF OutTypes
  <2>3. v \in queue[d] => \E x \in changes[d] : x.v = v
    BY <1>0 DEF OutTypes
  <2> QED
    BY <1>4, <2>1, <2>2, <2>3
<1>8. OutTypes'
  BY <1>0, <1>1, <1>6, <1>7 DEF Edit, OutTypes
<1>9. NetTypes'
  BY <1>0 DEF Edit, NetTypes
<1> QED
  BY <1>3, <1>8, <1>9, TypeGroups

LEMMA ProcessTypes ==
    ASSUME TypeOK, NEW c \in Client, ProcessChanges(c)
    PROVE  TypeOK'
<1> DEFINE S == { e \in changes[c] : e.v \in queue[c] }
           todo == Optimized(S)
           m == [from |-> c, rows |-> { e.row : e \in todo }, todo |-> todo]
<1>0. ServerTypes /\ OutTypes /\ NetTypes
  BY TypeGroups
<1>1. S \in SUBSET Change
  BY <1>0 DEF OutTypes
<1>2. todo \in SUBSET Change
  BY <1>1, OptimizedChanges
<1>3. messages' = Append(messages, m)
  BY DEF ProcessChanges
<1> HIDE DEF S, todo
<1>4. m \in Message /\ { e.row : e \in m.todo } \subseteq m.rows
  BY <1>2 DEF Message, Change
<1> HIDE DEF m
<1>5. messages' \in Seq(Message)
  BY <1>0, <1>3, <1>4 DEF NetTypes
<1>6. \A i \in DOMAIN messages' : messages'[i] = m \/ (i \in DOMAIN messages /\ messages'[i] = messages[i])
  BY <1>0, <1>3 DEF NetTypes
<1>7. NetTypes'
  BY <1>0, <1>4, <1>5, <1>6 DEF ProcessChanges, NetTypes
<1>8. queue[c] \subseteq Version
  BY <1>0 DEF OutTypes
<1>9. queue' = [queue EXCEPT ![c] = {}] /\ UNCHANGED <<changes, cause, edits, reloads>> /\ sent' = sent \cup queue[c]
  BY DEF ProcessChanges
<1>10. OutTypes'
  BY <1>0, <1>8, <1>9 DEF OutTypes
<1>11. ServerTypes'
  BY <1>0 DEF ProcessChanges, ServerTypes, serverVars
<1> QED
  BY <1>7, <1>10, <1>11, TypeGroups

LEMMA HandleTypes ==
    ASSUME TypeOK, NEW c \in Client, HandleChangesApplied(c)
    PROVE  TypeOK'
<1> DEFINE done == { e \in changes[c] : Named(c, e) }
<1>0. ServerTypes /\ OutTypes /\ NetTypes
  BY TypeGroups
<1>1. /\ changes' = [changes EXCEPT ![c] = @ \ done]
      /\ queue' = [queue EXCEPT ![c] = @ \ { e.v : e \in done }]
      /\ cause' = cause \cup { <<c, e.row>> : e \in { x \in done : x.v \notin sent } }
      /\ UNCHANGED <<sent, edits, reloads>>
  BY DEF HandleChangesApplied
<1>2. done \subseteq changes[c] /\ done \subseteq Change
  BY <1>0 DEF OutTypes
<1> HIDE DEF done
<1>3. changes' \in [Client -> SUBSET Change] /\ queue' \in [Client -> SUBSET Version]
  BY <1>0, <1>1 DEF OutTypes
<1>4. cause' \subseteq Client \X Row
  <2>1. \A e \in done : <<c, e.row>> \in Client \X Row
    BY <1>2, Types
  <2> QED
    BY <1>0, <1>1, <2>1 DEF OutTypes
<1>5. ASSUME NEW d \in Client, NEW v \in queue'[d]
      PROVE  \E x \in changes'[d] : x.v = v
  <2>1. v \in queue[d] /\ (d = c => v \notin { e.v : e \in done })
    BY <1>0, <1>1 DEF OutTypes
  <2>2. PICK x \in changes[d] : x.v = v
    BY <1>0, <2>1 DEF OutTypes
  <2>3. d = c => x \notin done
    BY <2>1, <2>2
  <2>4. x \in changes'[d]
    BY <1>0, <1>1, <2>3 DEF OutTypes
  <2> QED
    BY <2>2, <2>4
<1>6. OutTypes'
  BY <1>0, <1>1, <1>3, <1>4, <1>5 DEF OutTypes
<1>7. answers' = [answers EXCEPT ![c] = Tail(@)] /\ answers[c] # << >>
  BY DEF HandleChangesApplied
<1>8. Tail(answers[c]) \in Seq(SUBSET Row)
  BY <1>0, <1>7 DEF NetTypes
<1>9. NetTypes'
  BY <1>0, <1>7, <1>8 DEF HandleChangesApplied, NetTypes
<1>10. ServerTypes'
  BY <1>0 DEF HandleChangesApplied, ServerTypes, serverVars
<1> QED
  BY <1>6, <1>9, <1>10, TypeGroups

LEMMA DeliverTypes ==
    ASSUME TypeOK, NEW c \in Client, NEW n \in (received[c] + 1)..Len(history),
           received' = [received EXCEPT ![c] = n],
           Apply(c, (received[c] + 1)..n, {}),
           UNCHANGED <<serverVars, outVars, messages, answers, edits, reloads>>
    PROVE  TypeOK'
<1> DEFINE batch == (received[c] + 1)..n
           rows == { history[i].row : i \in batch }
           present(r) == local[c][r] # Absent
           now(r) == IF r \notin rows \/ Missed(RowOf(batch, r), present(r))
                     THEN local[c][r] ELSE Net(RowOf(batch, r)).v
           bad == { x \in rows : Disordered(RowOf(batch, x)) \/ Missed(RowOf(batch, x), present(x)) }
<1>0. ServerTypes /\ OutTypes /\ NetTypes
  BY TypeGroups
<1>1. received[c] \in Nat /\ Len(history) \in Nat /\ DOMAIN history = 1..Len(history)
  BY <1>0 DEF ServerTypes
<1>2. batch \in SUBSET (DOMAIN history) /\ n \in 0..Len(history)
  BY <1>1
<1>3. /\ local' = [local EXCEPT ![c] = [r \in Row |-> now(r)]]
      /\ cause' = { x \in cause : x[1] # c \/ x[2] \notin rows } \cup { <<c, r>> : r \in bad }
  BY <1>0 DEF Apply, ServerTypes
<1>4. bad \subseteq rows /\ rows \subseteq Row
  BY <1>2, HistoryType
<1>5. ASSUME NEW r \in Row PROVE now(r) \in {Absent} \cup Version
  <2>1. CASE r \notin rows \/ Missed(RowOf(batch, r), present(r))
    BY <1>0, <2>1 DEF ServerTypes
  <2>2. CASE ~(r \notin rows \/ Missed(RowOf(batch, r), present(r)))
    <3>1. RowOf(batch, r) # {} /\ RowOf(batch, r) \in SUBSET (DOMAIN history)
      BY <1>2, <2>2 DEF RowOf
    <3> QED
      BY <2>2, <3>1, NetIs, HistoryType
  <2> QED
    BY <2>1, <2>2
<1> HIDE DEF now, rows, batch, bad
<1>6. local' \in [Client -> [Row -> {Absent} \cup Version]]
  BY <1>0, <1>3, <1>5 DEF ServerTypes
<1>7. received' \in [Client -> 0..Len(history)]
  BY <1>0, <1>2 DEF ServerTypes
<1>8. ServerTypes'
  BY <1>0, <1>6, <1>7 DEF ServerTypes, serverVars
<1>9. cause' \subseteq Client \X Row
  BY <1>0, <1>3, <1>4 DEF OutTypes
<1>10. OutTypes'
  BY <1>0, <1>9 DEF OutTypes, outVars
<1>11. NetTypes'
  BY <1>0 DEF NetTypes
<1> QED
  BY <1>8, <1>10, <1>11, TypeGroups

LEMMA ExecuteTypes ==
    ASSUME TypeOK, NEW i \in DOMAIN messages, Execute(i)
    PROVE  TypeOK'
<1>0. ServerTypes /\ OutTypes /\ NetTypes
  BY TypeGroups
<1>1. PICK e \in messages[i].todo :
         /\ Write(e.row, e.op, e.v, messages[i].from)
         /\ messages' = [messages EXCEPT ![i].todo = @ \ {e}]
  BY DEF Execute
<1>2. e.row \in Row /\ e.v \in Version /\ messages[i].from \in Client
  BY Types
<1>3. ServerTypes'
  BY <1>1, <1>2, WriteTypes DEF Execute
<1>4. OutTypes'
  BY <1>0 DEF Execute, OutTypes, outVars
<1>5. NetTypes'
  <2>1. messages' \in Seq(Message)
    BY <1>1, TodoTypes
  <2>2. ASSUME NEW k \in DOMAIN messages', NEW x \in messages'[k].todo
        PROVE  x.row \in messages'[k].rows
    <3>1. k \in DOMAIN messages /\ x \in messages[k].todo /\ messages'[k].rows = messages[k].rows
      BY <1>1, <2>2, TodoTypes
    <3> QED
      BY <3>1, Types
  <2>3. UNCHANGED answers
    BY DEF Execute
  <2> QED
    BY <1>0, <2>1, <2>2, <2>3 DEF NetTypes
<1> QED
  BY <1>3, <1>4, <1>5, TypeGroups

LEMMA AnswerTypes ==
    ASSUME TypeOK, NEW i \in DOMAIN messages, SendChangesApplied(i)
    PROVE  TypeOK'
<1>0. ServerTypes /\ OutTypes /\ NetTypes
  BY TypeGroups
<1>1. ServerTypes' /\ OutTypes'
  BY <1>0 DEF SendChangesApplied, ServerTypes, OutTypes, serverVars, outVars
<1>2. messages' = RemoveAt(messages, i)
  BY DEF SendChangesApplied
<1>3. messages' \in Seq(Message) /\ \A j \in DOMAIN messages' : \E k \in DOMAIN messages : messages'[j] = messages[k]
  BY <1>0, <1>2, RemoveAtElements DEF NetTypes
<1>4. messages[i].from \in Client /\ messages[i].rows \in SUBSET Row
  BY Types
<1>5. answers' = [answers EXCEPT ![messages[i].from] = Append(@, messages[i].rows)]
  BY DEF SendChangesApplied
<1>6. Append(answers[messages[i].from], messages[i].rows) \in Seq(SUBSET Row)
  BY <1>0, <1>4 DEF NetTypes
<1>7. answers' \in [Client -> Seq(SUBSET Row)]
  BY <1>0, <1>5, <1>6 DEF NetTypes
<1>8. NetTypes'
  BY <1>0, <1>3, <1>7 DEF NetTypes
<1> QED
  BY <1>1, <1>8, TypeGroups

LEMMA NextTypeOK == TypeOK /\ [Next]_vars => TypeOK'
<1> SUFFICES ASSUME TypeOK, [Next]_vars PROVE TypeOK'
  OBVIOUS
<1>0. ServerTypes /\ OutTypes /\ NetTypes
  BY TypeGroups
<1>1. ASSUME NEW c \in Client, NEW r \in Row, Edit(c, r) PROVE TypeOK'
  BY <1>1, EditTypes
<1>2. ASSUME NEW c \in Client, LoadUnprocessedChanges(c) PROVE TypeOK'
  <2>1. PICK S \in SUBSET { e.v : e \in changes[c] } : queue' = [queue EXCEPT ![c] = @ \cup S]
    BY <1>2 DEF LoadUnprocessedChanges
  <2>2. S \subseteq Version
    BY <1>0, <2>1 DEF OutTypes, Change
  <2>3. reloads' \in 0..MaxReloads /\ UNCHANGED <<changes, sent, cause, edits>>
    BY <1>0, <1>2, BoundsNat DEF LoadUnprocessedChanges, OutTypes
  <2>4. queue' \in [Client -> SUBSET Version]
    BY <1>0, <2>1, <2>2 DEF OutTypes
  <2>5. \A d \in Client : queue'[d] \subseteq { e.v : e \in changes[d] }
    BY <1>0, <2>1 DEF OutTypes
  <2>6. OutTypes'
    BY <1>0, <2>3, <2>4, <2>5 DEF OutTypes
  <2>7. ServerTypes' /\ NetTypes'
    BY <1>0, <1>2 DEF LoadUnprocessedChanges, ServerTypes, NetTypes, serverVars
  <2> QED
    BY <2>6, <2>7, TypeGroups
<1>3. ASSUME NEW c \in Client, ProcessChanges(c) PROVE TypeOK'
  BY <1>3, ProcessTypes
<1>4. ASSUME NEW c \in Client, HandleChangesApplied(c) PROVE TypeOK'
  BY <1>4, HandleTypes
<1>5. ASSUME NEW c \in Client, Deliver(c) PROVE TypeOK'
  BY <1>5, DeliverTypes DEF Deliver
<1>6. ASSUME NEW i \in DOMAIN messages, Execute(i) PROVE TypeOK'
  BY <1>6, ExecuteTypes
<1>7. ASSUME NEW i \in DOMAIN messages, SendChangesApplied(i) PROVE TypeOK'
  BY <1>7, AnswerTypes
<1>8. ASSUME NEW r \in Row, ApiWrite(r) PROVE TypeOK'
  <2>1. edits' \in Version /\ edits' \in 0..MaxEdits
    BY <1>0, <1>8, BoundsNat DEF ApiWrite, NewVersion, OutTypes, Version
  <2>2. ServerTypes'
    BY <1>8, <2>1, WriteTypes DEF ApiWrite
  <2>3. OutTypes' /\ NetTypes'
    BY <1>0, <1>8, <2>1 DEF ApiWrite, OutTypes, NetTypes, outVars
  <2> QED
    BY <2>2, <2>3, TypeGroups
<1>9. CASE UNCHANGED vars
  BY <1>0, <1>9, TypeGroups DEF vars, serverVars, outVars, ServerTypes, OutTypes, NetTypes
<1> QED
  BY <1>1, <1>2, <1>3, <1>4, <1>5, <1>6, <1>7, <1>8, <1>9 DEF Next

\* TypeOK: rows, versions and messages are of their types; what is queued is
\* unprocessed, and a message has changes of the rows it names only.
THEOREM TypeCorrect == Spec => []TypeOK
<1>1. Init => TypeOK
  BY InitTypeOK
<1>2. TypeOK /\ [Next]_vars => TypeOK'
  BY NextTypeOK
<1> QED
  BY <1>1, <1>2, PTL DEF Spec

-----------------------------------------------------------------------------
(* The invariant, action by action.                                        *)

\* What is not types.
Inv == Versions /\ Known /\ HistoryInv /\ InsertInv /\ NewsInv

LEMMA InitIInv == Init => IInv
<1> SUFFICES ASSUME Init PROVE IInv
  OBVIOUS
<1>1. DOMAIN messages = {} /\ DOMAIN history = {} /\ \A c \in Client : DOMAIN answers[c] = {} /\ changes[c] = {}
  BY DEF Init
<1>2. Versions /\ Known /\ HistoryInv
  BY <1>1 DEF Init, Versions, Known, HistoryInv
<1>3. InsertInv /\ NewsInv
  BY DEF Init, InsertInv, NewsInv, Same
<1> QED
  BY <1>2, <1>3, InitTypeOK DEF IInv

LEMMA EditKeeps ==
    ASSUME IInv, NEW c \in Client, NEW r \in Row, Edit(c, r)
    PROVE  Inv'
<1> DEFINE e == [row |-> r, op |-> Op(r, local[c][r] # Absent), v |-> edits']
<1>0. TypeOK /\ Versions /\ Known /\ HistoryInv /\ InsertInv /\ NewsInv
  BY DEF IInv
<1>1. changes' = [changes EXCEPT ![c] = @ \cup {e}] /\ queue' = [queue EXCEPT ![c] = @ \cup {edits'}]
  BY DEF Edit
<1>2. e.row = r /\ e.v = edits' /\ (local[c][r] = Absent => e.op = "insert")
  BY DEF Op
<1>3. edits' = edits + 1 /\ edits \in Int /\ edits' # Absent
  BY <1>0, Types DEF Edit, NewVersion, TypeOK, Absent
<1> HIDE DEF e
<1>4. \A d \in Client : \A x : x \in changes'[d] <=> x \in changes[d] \/ (d = c /\ x = e)
  BY <1>0, <1>1 DEF TypeOK
<1>5. \A d \in Client : queue[d] \subseteq queue'[d] /\ (d = c => edits' \in queue'[d])
  BY <1>0, <1>1 DEF TypeOK
<1>6. \A d \in Client, q \in Row : local'[d][q] = IF d = c /\ q = r THEN edits' ELSE local[d][q]
  BY <1>0 DEF Edit, TypeOK
<1>7. UNCHANGED <<server, history, messages, answers, received, sent, cause>>
  BY DEF Edit, serverVars
<1>8. \A d \in Client : \A x \in changes[d] : x.v \in Int /\ x.row \in Row
  BY <1>0, Types DEF TypeOK
<1>9. Versions'
  <2>1. \A d \in Client : \A x \in changes[d] : x.v <= edits /\ x.v <= edits' /\ x.v # edits'
    BY <1>0, <1>3, <1>8 DEF Versions
  <2>2. \A d \in Client : \A x \in changes'[d] : x.v <= edits'
    BY <1>2, <1>3, <1>4, <2>1
  <2>3. ASSUME NEW a \in Client, NEW b \in Client, NEW x \in changes'[a], NEW y \in changes'[b], x.v = y.v
        PROVE  a = b /\ x = y
    BY <1>0, <1>2, <1>4, <2>1, <2>3 DEF Versions
  <2>4. sent' \subseteq 1..edits'
    BY <1>0, <1>3, <1>7 DEF Versions
  <2> QED
    BY <2>2, <2>3, <2>4 DEF Versions
<1>10. \A d \in Client, q \in Row : local[d][q] # Absent => local'[d][q] # Absent
  BY <1>3, <1>6
<1>11. Known'
  <2>1. \A d \in Client : \A x \in changes'[d] : local'[d][x.row] # Absent
    BY <1>0, <1>2, <1>3, <1>4, <1>6, <1>8, <1>10 DEF Known
  <2>2. \A i \in DOMAIN messages : \A q \in messages[i].rows : local'[messages[i].from][q] # Absent
    BY <1>0, <1>10, Types DEF Known
  <2>3. \A d \in Client : \A k \in DOMAIN answers[d] : \A q \in answers[d][k] : local'[d][q] # Absent
    BY <1>0, <1>10 DEF Known, TypeOK
  <2> QED
    BY <1>7, <2>1, <2>2, <2>3 DEF Known
<1>12. HistoryInv'
  BY <1>0, <1>7 DEF HistoryInv, LastOf
<1>13. ASSUME NEW d \in Client, NEW q \in Row, server'[q] = Absent, local'[d][q] # Absent
       PROVE  Fresh(d, q)' \/ InsertSent(d, q)'
  <2>1. CASE local[d][q] = Absent
    <3>1. d = c /\ q = r /\ e.op = "insert" /\ e \in changes'[c] /\ e.v \in queue'[c]
      BY <1>2, <1>4, <1>5, <1>6, <1>13, <2>1
    <3>2. \A x \in changes'[c] : x.row = r => x = e
      BY <1>0, <1>4, <2>1, <3>1 DEF Known
    <3>3. e.v <= e.v
      BY <1>2, <1>3
    <3>4. \A i \in DOMAIN messages : messages[i].from = c => r \notin messages[i].rows
      BY <1>0, <2>1, <3>1 DEF Known
    <3>5. \A k \in DOMAIN answers[c] : r \notin answers[c][k]
      BY <1>0, <2>1, <3>1 DEF Known
    <3> QED
      BY <1>2, <1>7, <3>1, <3>2, <3>3, <3>4, <3>5 DEF Fresh
  <2>2. CASE local[d][q] # Absent
    <3>1. Fresh(d, q) \/ InsertSent(d, q)
      BY <1>0, <1>7, <1>13, <2>2 DEF InsertInv
    <3>2. InsertSent(d, q) => InsertSent(d, q)'
      BY <1>7 DEF InsertSent
    <3>3. ASSUME Fresh(d, q) PROVE Fresh(d, q)'
      <4>1. PICK x \in changes[d] : /\ x.row = q /\ x.op = "insert" /\ x.v \in queue[d]
                                    /\ \A y \in changes[d] : y.row = q => x.v <= y.v
        BY <3>3 DEF Fresh
      <4>2. x.v <= edits'
        BY <1>0, <1>3, <1>8 DEF Versions
      <4>3. \A y \in changes'[d] : y.row = q => x.v <= y.v
        BY <1>2, <1>4, <4>1, <4>2
      <4>4. x \in changes'[d] /\ x.v \in queue'[d]
        BY <1>4, <1>5, <4>1
      <4> QED
        BY <1>7, <3>3, <4>1, <4>3, <4>4 DEF Fresh
    <3> QED
      BY <3>1, <3>2, <3>3
  <2> QED
    BY <2>1, <2>2
<1>14. ASSUME NEW d \in Client, NEW q \in Row
       PROVE  (Unsent(d, q) \/ InProcess(d, q) \/ ToReceive(d, q) \/ Same(d, q))'
  <2>1. CASE d = c /\ q = r
    <3>1. edits' \notin sent
      BY <1>0, <1>3 DEF Versions
    <3>2. Unsent(d, q)'
      BY <1>2, <1>4, <1>7, <2>1, <3>1 DEF Unsent
    <3> QED
      BY <3>2
  <2>2. CASE ~(d = c /\ q = r)
    <3>1. local'[d][q] = local[d][q]
      BY <1>6, <2>2
    <3>2. Unsent(d, q) => Unsent(d, q)'
      BY <1>4, <1>7 DEF Unsent
    <3>3. /\ InProcess(d, q) => InProcess(d, q)'
          /\ ToReceive(d, q) => ToReceive(d, q)'
          /\ Same(d, q) => Same(d, q)'
      BY <1>7, <3>1 DEF InProcess, ToReceive, Same
    <3> QED
      BY <1>0, <3>2, <3>3 DEF NewsInv
  <2> QED
    BY <2>1, <2>2
<1> QED
  BY <1>9, <1>11, <1>12, <1>13, <1>14 DEF Inv, InsertInv, NewsInv

LEMMA LoadKeeps ==
    ASSUME IInv, NEW c \in Client, LoadUnprocessedChanges(c)
    PROVE  Inv'
<1>0. TypeOK /\ Versions /\ Known /\ HistoryInv /\ InsertInv /\ NewsInv
  BY DEF IInv
<1>1. UNCHANGED <<server, history, local, changes, messages, answers, received, sent, cause, edits>>
  BY DEF LoadUnprocessedChanges, serverVars
<1>2. \A d \in Client : queue[d] \subseteq queue'[d]
  BY <1>0 DEF LoadUnprocessedChanges, TypeOK
<1>3. Versions' /\ HistoryInv'
  BY <1>0, <1>1 DEF Versions, HistoryInv, LastOf
<1>4. Known'
  BY <1>0, <1>1 DEF Known
<1>5. ASSUME NEW d \in Client, NEW q \in Row
      PROVE  (Fresh(d, q) => Fresh(d, q)') /\ (InsertSent(d, q) => InsertSent(d, q)')
  BY <1>1, <1>2 DEF Fresh, InsertSent
<1>6. InsertInv'
  BY <1>0, <1>1, <1>5 DEF InsertInv
<1>7. NewsInv'
  BY <1>0, <1>1 DEF NewsInv, Unsent, InProcess, ToReceive, Same
<1> QED
  BY <1>3, <1>4, <1>6, <1>7 DEF Inv

LEMMA ProcessKeeps ==
    ASSUME IInv, NEW c \in Client, ProcessChanges(c)
    PROVE  Inv'
<1> DEFINE S == { e \in changes[c] : e.v \in queue[c] }
           todo == Optimized(S)
           m == [from |-> c, rows |-> { e.row : e \in todo }, todo |-> todo]
<1>0. TypeOK /\ Versions /\ Known /\ HistoryInv /\ InsertInv /\ NewsInv
  BY DEF IInv
<1>1. S \in SUBSET Change
  BY <1>0 DEF TypeOK
<1>2. \A x : x \in S <=> x \in changes[c] /\ x.v \in queue[c]
  OBVIOUS
<1>3. messages' = Append(messages, m)
  BY DEF ProcessChanges
<1>4. m.from = c /\ m.todo = todo
  OBVIOUS
<1> HIDE DEF S
<1>5. m.rows = { e.row : e \in S }
  BY <1>1, OptimizedChanges
<1>6. \A x \in S : \E o \in todo : o.row = x.row
  BY <1>1, OptimizedChanges
<1> HIDE DEF todo, m
<1>7. /\ \A k \in DOMAIN messages : k \in DOMAIN messages' /\ messages'[k] = messages[k]
      /\ \E k \in DOMAIN messages' : messages'[k] = m
      /\ \A k \in DOMAIN messages' : (k \in DOMAIN messages /\ messages'[k] = messages[k]) \/ messages'[k] = m
  <2>1. messages \in Seq(Message) /\ Len(messages) \in Nat
    BY <1>0, Types
  <2>2. DOMAIN messages' = 1..(Len(messages) + 1) /\ DOMAIN messages = 1..Len(messages)
    BY <1>3, <2>1
  <2>3. messages'[Len(messages) + 1] = m /\ Len(messages) + 1 \in DOMAIN messages'
    BY <1>3, <2>1, <2>2
  <2>4. \A k \in DOMAIN messages : messages'[k] = messages[k]
    BY <1>3, <2>1, <2>2
  <2> QED
    BY <2>1, <2>2, <2>3, <2>4
<1>8. UNCHANGED <<server, history, local, changes, answers, received, cause, edits>>
  BY DEF ProcessChanges, serverVars
<1>9. sent' = sent \cup queue[c]
  BY DEF ProcessChanges
<1>10. \A d \in Client : d # c => queue'[d] = queue[d]
  BY <1>0 DEF ProcessChanges, TypeOK
<1>11. \A v \in queue[c] : \E x \in changes[c] : x.v = v
  BY <1>0 DEF TypeOK
<1>12. Versions'
  <2>1. \A v \in queue[c] : v \in 1..edits
    <3> TAKE v \in queue[c]
    <3>1. PICK x \in changes[c] : x.v = v
      BY <1>11
    <3>2. v <= edits
      BY <1>0, <3>1 DEF Versions
    <3>3. v \in Version
      BY <1>0 DEF TypeOK
    <3> QED
      BY <1>0, <3>2, <3>3, Types
  <2>2. sent' \subseteq 1..edits
    BY <1>0, <1>9, <2>1 DEF Versions
  <2> QED
    BY <1>0, <1>8, <2>2 DEF Versions
<1>13. Known'
  <2>1. \A q \in m.rows : local[m.from][q] # Absent
    BY <1>0, <1>2, <1>4, <1>5 DEF Known
  <2>2. \A i \in DOMAIN messages' : \A q \in messages'[i].rows : local[messages'[i].from][q] # Absent
    BY <1>0, <1>7, <2>1 DEF Known
  <2> QED
    BY <1>0, <1>8, <2>2 DEF Known
<1>14. HistoryInv'
  BY <1>0, <1>8 DEF HistoryInv, LastOf
<1>15. ASSUME NEW d \in Client, NEW q \in Row, server'[q] = Absent, local'[d][q] # Absent
       PROVE  Fresh(d, q)' \/ InsertSent(d, q)'
  <2>1. Fresh(d, q) \/ InsertSent(d, q)
    BY <1>0, <1>8, <1>15 DEF InsertInv
  <2>2. InsertSent(d, q) => InsertSent(d, q)'
    BY <1>7 DEF InsertSent
  <2>3. CASE Fresh(d, q) /\ d # c
    <3>1. \A i \in DOMAIN messages' : messages'[i].from = d => q \notin messages'[i].rows
      BY <1>4, <1>7, <2>3 DEF Fresh
    <3>2. queue'[d] = queue[d]
      BY <1>10, <2>3
    <3> QED
      BY <1>8, <2>3, <3>1, <3>2 DEF Fresh
  <2>4. CASE Fresh(d, q) /\ d = c
    <3>1. PICK x \in changes[c] : /\ x.row = q /\ x.op = "insert" /\ x.v \in queue[c]
                                  /\ \A y \in changes[c] : y.row = q => x.v <= y.v
      BY <2>4 DEF Fresh
    <3>2. x \in S /\ \A y \in S : y.row = x.row => x.v <= y.v /\ (y.v = x.v => y = x)
      BY <1>0, <1>2, <3>1 DEF Versions
    <3>3. \E o \in todo : o.row = q /\ o.op = "insert"
      BY <1>1, <3>1, <3>2, OptimizedInsert DEF todo
    <3> QED
      BY <1>4, <1>7, <2>4, <3>3 DEF InsertSent
  <2> QED
    BY <2>1, <2>2, <2>3, <2>4
<1>16. ASSUME NEW d \in Client, NEW q \in Row
       PROVE  (Unsent(d, q) \/ InProcess(d, q) \/ ToReceive(d, q) \/ Same(d, q))'
  <2>1. ASSUME Unsent(d, q) PROVE Unsent(d, q)' \/ InProcess(d, q)'
    <3>1. PICK x \in changes[d] : x.row = q /\ x.v \notin sent
      BY <2>1 DEF Unsent
    <3>2. CASE x.v \notin queue[c]
      BY <1>8, <1>9, <3>1, <3>2 DEF Unsent
    <3>3. CASE x.v \in queue[c]
      <4>1. d = c /\ x \in S
        BY <1>0, <1>2, <1>11, <3>3 DEF Versions
      <4> QED
        BY <1>4, <1>6, <1>7, <3>1, <4>1 DEF InProcess
    <3> QED
      BY <3>2, <3>3
  <2>2. InProcess(d, q) => InProcess(d, q)'
    BY <1>7 DEF InProcess
  <2>3. (ToReceive(d, q) => ToReceive(d, q)') /\ (Same(d, q) => Same(d, q)')
    BY <1>8 DEF ToReceive, Same
  <2> QED
    BY <1>0, <2>1, <2>2, <2>3 DEF NewsInv
<1> QED
  BY <1>12, <1>13, <1>14, <1>15, <1>16 DEF Inv, InsertInv, NewsInv

\* What a write of a row does to the table and to change_history.
LEMMA WriteNews ==
    ASSUME TypeOK, HistoryInv, NEW r \in Row, NEW v \in Version, NEW op, NEW from,
           server' = [server EXCEPT ![r] = v],
           history' = Append(history, [row |-> r, op |-> op, v |-> v, from |-> from]),
           UNCHANGED received
    PROVE  /\ HistoryInv'
           /\ \A q \in Row : q # r => server'[q] = server[q]
           /\ server'[r] # Absent
           /\ \A d \in Client, q \in Row : ToReceive(d, q) => ToReceive(d, q)'
           /\ \A d \in Client : ToReceive(d, r)'
<1> DEFINE N == Len(history) + 1
           h == [row |-> r, op |-> op, v |-> v, from |-> from]
<1>1. h.row = r /\ h.v = v /\ history' = Append(history, h)
  OBVIOUS
<1>2. Len(history) \in Nat /\ DOMAIN history = 1..Len(history) /\ history \in Seq(Entry)
  BY HistoryType
<1> HIDE DEF h
<1>3. /\ DOMAIN history' = 1..N /\ N \in DOMAIN history' /\ history'[N] = h
      /\ \A j \in DOMAIN history : j \in DOMAIN history' /\ history'[j] = history[j] /\ j < N
      /\ \A j \in DOMAIN history' : j \in DOMAIN history \/ j = N
  <2>1. DOMAIN history' = 1..N /\ N \in DOMAIN history' /\ history'[N] = h
    BY <1>1, <1>2
  <2>2. \A j \in DOMAIN history : j \in DOMAIN history' /\ history'[j] = history[j] /\ j < N
    BY <1>1, <1>2, <2>1
  <2>3. \A j \in DOMAIN history' : j \in DOMAIN history \/ j = N
    BY <1>2, <2>1
  <2> QED
    BY <2>1, <2>2, <2>3
<1>4. \A q \in Row : server'[q] = IF q = r THEN v ELSE server[q]
  BY DEF TypeOK
<1>5. v # Absent
  BY Types
<1> HIDE DEF N
<1>6. ASSUME NEW j \in DOMAIN history'
      PROVE  /\ server'[history'[j].row] # Absent
             /\ LastOf(j)' => history'[j].v = server'[history'[j].row]
  <2>1. CASE j = N
    BY <1>1, <1>3, <1>4, <1>5, <2>1
  <2>2. CASE j \in DOMAIN history
    <3>1. history'[j] = history[j] /\ history[j].row \in Row /\ N > j
      BY <1>2, <1>3, <2>2, HistoryType DEF N
    <3>2. server'[history[j].row] # Absent
      BY <1>4, <1>5, <2>2, <3>1 DEF HistoryInv
    <3>3. ASSUME LastOf(j)' PROVE history[j].v = server'[history[j].row]
      <4>1. history[j].row # r
        BY <1>1, <1>3, <3>1, <3>3 DEF LastOf
      <4>2. LastOf(j)
        BY <1>3, <2>2, <3>3 DEF LastOf
      <4> QED
        BY <1>4, <2>2, <3>1, <4>1, <4>2 DEF HistoryInv
    <3> QED
      BY <3>1, <3>2, <3>3
  <2> QED
    BY <1>3, <2>1, <2>2
<1>7. HistoryInv'
  BY <1>6 DEF HistoryInv
<1>8. \A d \in Client, q \in Row : ToReceive(d, q) => ToReceive(d, q)'
  BY <1>3 DEF ToReceive
<1>9. ASSUME NEW d \in Client PROVE ToReceive(d, r)'
  <2>1. N > received[d]
    BY <1>2 DEF TypeOK, N
  <2> QED
    BY <1>1, <1>3, <2>1 DEF ToReceive
<1> QED
  BY <1>4, <1>5, <1>7, <1>8, <1>9

LEMMA ExecuteKeeps ==
    ASSUME IInv, NEW i \in DOMAIN messages, Execute(i)
    PROVE  Inv'
<1>0. TypeOK /\ Versions /\ Known /\ HistoryInv /\ InsertInv /\ NewsInv
  BY DEF IInv
<1>1. PICK e \in messages[i].todo :
         /\ Write(e.row, e.op, e.v, messages[i].from)
         /\ messages' = [messages EXCEPT ![i].todo = @ \ {e}]
  BY DEF Execute
<1>2. /\ e.row \in Row /\ e.v \in Version /\ e.op \in {"insert", "update"}
      /\ messages[i].from \in Client /\ e.row \in messages[i].rows
  BY <1>0, Types
<1>3. /\ DOMAIN messages' = DOMAIN messages
      /\ \A k \in DOMAIN messages :
            /\ messages'[k].from = messages[k].from
            /\ messages'[k].rows = messages[k].rows
            /\ \A x \in messages[k].todo : x \in messages'[k].todo \/ (k = i /\ x = e)
  BY <1>0, <1>1, TodoTypes
<1>4. UNCHANGED <<changes, queue, sent, local, answers, received, cause, edits>>
  BY DEF Execute, outVars
<1>5. Versions'
  BY <1>0, <1>4 DEF Versions
<1>6. Known'
  BY <1>0, <1>3, <1>4 DEF Known
<1>7. ASSUME NEW d \in Client, NEW q \in Row, Fresh(d, q) PROVE Fresh(d, q)'
  BY <1>3, <1>4, <1>7 DEF Fresh
<1>8. ASSUME NEW d \in Client, NEW q \in Row, Unsent(d, q) PROVE Unsent(d, q)'
  BY <1>4, <1>8 DEF Unsent
<1>9. ASSUME NEW d \in Client, NEW q \in Row, q # e.row
      PROVE  /\ InsertSent(d, q) => InsertSent(d, q)'
             /\ InProcess(d, q) => InProcess(d, q)'
  BY <1>3, <1>9 DEF InsertSent, InProcess
<1>10. CASE e.op = "update" /\ server[e.row] = Absent
  <2>1. UNCHANGED <<server, history>>
    BY <1>1, <1>10 DEF Write, serverVars
  <2>2. HistoryInv'
    BY <1>0, <2>1 DEF HistoryInv, LastOf
  <2>3. ASSUME NEW d \in Client, NEW q \in Row, InsertSent(d, q) PROVE InsertSent(d, q)'
    BY <1>3, <1>10, <2>3 DEF InsertSent
  <2>4. InsertInv'
    BY <1>0, <1>4, <1>7, <2>1, <2>3 DEF InsertInv
  <2>5. ASSUME NEW d \in Client, NEW q \in Row, InProcess(d, q) PROVE InProcess(d, q)'
    <3>1. CASE q = e.row /\ d = messages[i].from
      <4>1. local[d][q] # Absent /\ ~Fresh(d, q)
        BY <1>0, <1>2, <3>1 DEF Known, Fresh
      <4>2. InsertSent(d, q)'
        BY <1>0, <1>10, <2>3, <3>1, <4>1 DEF InsertInv
      <4> QED
        BY <4>2 DEF InsertSent, InProcess
    <3>2. CASE q = e.row /\ d # messages[i].from
      BY <1>3, <2>5, <3>2 DEF InProcess
    <3> QED
      BY <1>9, <2>5, <3>1, <3>2
  <2>6. NewsInv'
    BY <1>0, <1>4, <1>8, <2>1, <2>5 DEF NewsInv, ToReceive, Same
  <2> QED
    BY <1>5, <1>6, <2>2, <2>4, <2>6 DEF Inv
<1>11. CASE ~(e.op = "update" /\ server[e.row] = Absent)
  <2>1. /\ server' = [server EXCEPT ![e.row] = e.v]
        /\ history' = Append(history, [row |-> e.row, op |-> Op(e.row, server[e.row] # Absent),
                                       v |-> e.v, from |-> messages[i].from])
    BY <1>1, <1>11 DEF Write
  <2>2. /\ HistoryInv'
        /\ \A q \in Row : q # e.row => server'[q] = server[q]
        /\ server'[e.row] # Absent
        /\ \A d \in Client, q \in Row : ToReceive(d, q) => ToReceive(d, q)'
        /\ \A d \in Client : ToReceive(d, e.row)'
    BY <1>0, <1>2, <1>4, <2>1, WriteNews
  <2>3. InsertInv'
    BY <1>0, <1>4, <1>7, <1>9, <2>2 DEF InsertInv
  <2>4. ASSUME NEW d \in Client, NEW q \in Row, q # e.row, Same(d, q) PROVE Same(d, q)'
    BY <1>4, <2>2, <2>4 DEF Same
  <2>5. NewsInv'
    BY <1>0, <1>8, <1>9, <2>2, <2>4 DEF NewsInv
  <2> QED
    BY <1>5, <1>6, <2>2, <2>3, <2>5 DEF Inv
<1> QED
  BY <1>10, <1>11

LEMMA ApiKeeps ==
    ASSUME IInv, NEW r \in Row, ApiWrite(r)
    PROVE  Inv'
<1>0. TypeOK /\ Versions /\ Known /\ HistoryInv /\ InsertInv /\ NewsInv
  BY DEF IInv
<1>1. edits' = edits + 1 /\ edits \in Int /\ edits' \in Version
  <2>1. edits \in 0..MaxEdits /\ edits' = edits + 1 /\ edits < MaxEdits
    BY <1>0 DEF TypeOK, ApiWrite, NewVersion
  <2> QED
    BY <2>1, BoundsNat DEF Version
<1>2. UNCHANGED <<changes, queue, sent, local, messages, answers, received, cause>>
  BY DEF ApiWrite, outVars
<1>3. /\ server' = [server EXCEPT ![r] = edits']
      /\ history' = Append(history, [row |-> r, op |-> Op(r, server[r] # Absent),
                                     v |-> edits', from |-> "api"])
  BY DEF ApiWrite, Write, Op
<1>4. /\ HistoryInv'
      /\ \A q \in Row : q # r => server'[q] = server[q]
      /\ server'[r] # Absent
      /\ \A d \in Client, q \in Row : ToReceive(d, q) => ToReceive(d, q)'
      /\ \A d \in Client : ToReceive(d, r)'
  BY <1>0, <1>1, <1>2, <1>3, WriteNews
<1>5. Versions'
  <2>1. \A d \in Client : \A x \in changes[d] : x.v \in Int
    BY <1>0, Types DEF TypeOK
  <2>2. \A d \in Client : \A x \in changes[d] : x.v <= edits'
    BY <1>0, <1>1, <2>1 DEF Versions
  <2>3. sent \subseteq 1..edits'
    BY <1>0, <1>1 DEF Versions
  <2> QED
    BY <1>0, <1>2, <2>2, <2>3 DEF Versions
<1>6. Known'
  BY <1>0, <1>2 DEF Known
<1>7. ASSUME NEW d \in Client, NEW q \in Row
      PROVE  /\ Fresh(d, q) => Fresh(d, q)'
             /\ InsertSent(d, q) => InsertSent(d, q)'
             /\ InProcess(d, q) => InProcess(d, q)'
             /\ Unsent(d, q) => Unsent(d, q)'
             /\ q # r /\ Same(d, q) => Same(d, q)'
  BY <1>2, <1>4 DEF Fresh, InsertSent, InProcess, Unsent, Same
<1>8. InsertInv'
  BY <1>0, <1>2, <1>4, <1>7 DEF InsertInv
<1>9. NewsInv'
  BY <1>0, <1>4, <1>7 DEF NewsInv
<1> QED
  BY <1>4, <1>5, <1>6, <1>8, <1>9 DEF Inv

LEMMA AnswerKeeps ==
    ASSUME IInv, NEW i \in DOMAIN messages, SendChangesApplied(i)
    PROVE  Inv'
<1>0. TypeOK /\ Versions /\ Known /\ HistoryInv /\ InsertInv /\ NewsInv
  BY DEF IInv
<1>1. messages \in Seq(Message) /\ messages[i].todo = {} /\ messages[i].from \in Client
  BY <1>0, Types DEF SendChangesApplied
<1>2. /\ \A j \in DOMAIN messages' : \E k \in DOMAIN messages : messages'[j] = messages[k]
      /\ \A k \in DOMAIN messages \ {i} : \E j \in DOMAIN messages' : messages'[j] = messages[k]
  BY <1>1, RemoveAtElements DEF SendChangesApplied
<1>3. UNCHANGED <<server, history, changes, queue, sent, local, received, cause, edits>>
  BY DEF SendChangesApplied, serverVars, outVars
<1>4. ASSUME NEW d \in Client, NEW k \in DOMAIN answers'[d]
      PROVE  \/ k \in DOMAIN answers[d] /\ answers'[d][k] = answers[d][k]
             \/ d = messages[i].from /\ answers'[d][k] = messages[i].rows
  <2>1. answers[d] \in Seq(SUBSET Row)
    BY <1>0 DEF TypeOK
  <2>2. answers'[d] = IF d = messages[i].from THEN Append(answers[d], messages[i].rows) ELSE answers[d]
    BY <1>0, <1>1 DEF SendChangesApplied, TypeOK
  <2> QED
    BY <1>4, <2>1, <2>2
<1>5. Versions' /\ HistoryInv'
  BY <1>0, <1>3 DEF Versions, HistoryInv, LastOf
<1>6. Known'
  <2>1. \A j \in DOMAIN messages' : \A q \in messages'[j].rows : local[messages'[j].from][q] # Absent
    BY <1>0, <1>2 DEF Known
  <2>2. \A d \in Client : \A k \in DOMAIN answers'[d] : \A q \in answers'[d][k] : local[d][q] # Absent
    BY <1>0, <1>4 DEF Known
  <2> QED
    BY <1>0, <1>3, <2>1, <2>2 DEF Known
<1>7. ASSUME NEW d \in Client, NEW q \in Row, Fresh(d, q) PROVE Fresh(d, q)'
  <2>1. \A j \in DOMAIN messages' : messages'[j].from = d => q \notin messages'[j].rows
    BY <1>2, <1>7 DEF Fresh
  <2>2. \A k \in DOMAIN answers'[d] : q \notin answers'[d][k]
    BY <1>4, <1>7 DEF Fresh
  <2> QED
    BY <1>3, <1>7, <2>1, <2>2 DEF Fresh
<1>8. ASSUME NEW d \in Client, NEW q \in Row
      PROVE  /\ InsertSent(d, q) => InsertSent(d, q)'
             /\ InProcess(d, q) => InProcess(d, q)'
  BY <1>1, <1>2 DEF InsertSent, InProcess
<1>9. InsertInv'
  BY <1>0, <1>3, <1>7, <1>8 DEF InsertInv
<1>10. NewsInv'
  BY <1>0, <1>3, <1>8 DEF NewsInv, Unsent, ToReceive, Same
<1> QED
  BY <1>5, <1>6, <1>9, <1>10 DEF Inv

LEMMA HandleKeeps ==
    ASSUME IInv, NEW c \in Client, HandleChangesApplied(c)
    PROVE  Inv'
<1> DEFINE done == { e \in changes[c] : Named(c, e) }
<1>0. TypeOK /\ Versions /\ Known /\ HistoryInv /\ InsertInv /\ NewsInv
  BY DEF IInv
<1>1. /\ changes' = [changes EXCEPT ![c] = @ \ done]
      /\ queue' = [queue EXCEPT ![c] = @ \ { e.v : e \in done }]
      /\ cause' = cause \cup { <<c, e.row>> : e \in { x \in done : x.v \notin sent } }
      /\ answers[c] # << >> /\ answers' = [answers EXCEPT ![c] = Tail(@)]
      /\ UNCHANGED <<server, history, local, messages, received, sent, edits>>
  BY DEF HandleChangesApplied, serverVars
<1>2. \A x \in done : x \in changes[c] /\ x.row \in answers[c][1]
  BY DEF Named
<1> HIDE DEF done
<1>3. \A d \in Client : \A x : x \in changes'[d] <=> x \in changes[d] /\ ~(d = c /\ x \in done)
  BY <1>0, <1>1 DEF TypeOK
<1>4. \A d \in Client : \A v : v \in queue'[d] <=> v \in queue[d] /\ ~(d = c /\ v \in { e.v : e \in done })
  BY <1>0, <1>1 DEF TypeOK
<1>5. ASSUME NEW d \in Client, NEW k \in DOMAIN answers'[d]
      PROVE  \E l \in DOMAIN answers[d] : answers'[d][k] = answers[d][l]
  <2>1. answers[d] \in Seq(SUBSET Row)
    BY <1>0 DEF TypeOK
  <2>2. answers'[d] = IF d = c THEN Tail(answers[d]) ELSE answers[d]
    BY <1>0, <1>1 DEF TypeOK
  <2>3. CASE d = c
    <3>1. answers'[d] = Tail(answers[d]) /\ answers[d] # << >>
      BY <1>1, <2>2, <2>3
    <3>2. k + 1 \in DOMAIN answers[d] /\ Tail(answers[d])[k] = answers[d][k + 1]
      BY <1>5, <2>1, <3>1
    <3> QED
      BY <3>1, <3>2
  <2> QED
    BY <1>5, <2>2, <2>3
<1>6. Versions' /\ HistoryInv'
  BY <1>0, <1>1, <1>3 DEF Versions, HistoryInv, LastOf
<1>7. Known'
  <2>1. \A d \in Client : \A k \in DOMAIN answers'[d] : \A q \in answers'[d][k] : local[d][q] # Absent
    BY <1>0, <1>5 DEF Known
  <2>2. \A d \in Client : \A x \in changes'[d] : local[d][x.row] # Absent
    BY <1>0, <1>3 DEF Known
  <2> QED
    BY <1>0, <1>1, <2>1, <2>2 DEF Known
<1>8. ASSUME NEW d \in Client, NEW q \in Row, Fresh(d, q) PROVE Fresh(d, q)'
  <2>1. PICK x \in changes[d] : /\ x.row = q /\ x.op = "insert" /\ x.v \in queue[d]
                                /\ \A y \in changes[d] : y.row = q => x.v <= y.v
    BY <1>8 DEF Fresh
  <2>2. d = c => x \notin done
    <3>1. answers[c] \in Seq(SUBSET Row)
      BY <1>0 DEF TypeOK
    <3>2. 1 \in DOMAIN answers[c]
      BY <1>1, <3>1
    <3> QED
      BY <1>2, <1>8, <2>1, <3>2 DEF Fresh
  <2>3. d = c => x.v \notin { e.v : e \in done }
    BY <1>0, <1>2, <2>2 DEF Versions
  <2>4. x \in changes'[d] /\ x.v \in queue'[d]
    BY <1>3, <1>4, <2>1, <2>2, <2>3
  <2>5. \A y \in changes'[d] : y.row = q => x.v <= y.v
    BY <1>3, <2>1
  <2>6. \A k \in DOMAIN answers'[d] : q \notin answers'[d][k]
    BY <1>5, <1>8 DEF Fresh
  <2>7. \A j \in DOMAIN messages' : messages'[j].from = d => q \notin messages'[j].rows
    BY <1>1, <1>8 DEF Fresh
  <2> QED
    BY <2>1, <2>4, <2>5, <2>6, <2>7 DEF Fresh
<1>9. InsertInv'
  BY <1>0, <1>1, <1>8 DEF InsertInv, InsertSent
<1>10. ASSUME NEW d \in Client, NEW q \in Row, Unsent(d, q)
       PROVE  Unsent(d, q)' \/ Same(d, q)'
  <2>1. PICK x \in changes[d] : x.row = q /\ x.v \notin sent
    BY <1>10 DEF Unsent
  <2>2. CASE d = c /\ x \in done
    BY <1>1, <2>1, <2>2 DEF Same
  <2>3. CASE ~(d = c /\ x \in done)
    BY <1>1, <1>3, <2>1, <2>3 DEF Unsent
  <2> QED
    BY <2>2, <2>3
<1>11. ASSUME NEW d \in Client, NEW q \in Row
       PROVE  /\ InProcess(d, q) => InProcess(d, q)'
              /\ ToReceive(d, q) => ToReceive(d, q)'
              /\ Same(d, q) => Same(d, q)'
  BY <1>1 DEF InProcess, ToReceive, Same
<1>12. NewsInv'
  BY <1>0, <1>10, <1>11 DEF NewsInv
<1> QED
  BY <1>6, <1>7, <1>9, <1>12 DEF Inv

LEMMA DeliverKeeps ==
    ASSUME IInv, NEW c \in Client, NEW n \in (received[c] + 1)..Len(history),
           received' = [received EXCEPT ![c] = n],
           Apply(c, (received[c] + 1)..n, {}),
           UNCHANGED <<serverVars, outVars, messages, answers, edits, reloads>>
    PROVE  Inv'
<1> DEFINE batch == (received[c] + 1)..n
           rows == { history[i].row : i \in batch }
           present(r) == local[c][r] # Absent
           lost(r) == Missed(RowOf(batch, r), present(r))
           now(r) == IF r \notin rows \/ lost(r) THEN local[c][r] ELSE Net(RowOf(batch, r)).v
           bad == { x \in rows : Disordered(RowOf(batch, x)) \/ lost(x) }
<1>0. TypeOK /\ Versions /\ Known /\ HistoryInv /\ InsertInv /\ NewsInv
  BY DEF IInv
<1>1. received[c] \in Nat /\ Len(history) \in Nat /\ DOMAIN history = 1..Len(history)
  BY <1>0 DEF TypeOK
<1>2. batch \in SUBSET (DOMAIN history) /\ n \in Nat
  BY <1>1
<1>3. \A j \in DOMAIN history : j \in batch <=> j > received[c] /\ ~(j > n)
  BY <1>1, <1>2
<1>4. \A r : r \in rows <=> \E j \in batch : history[j].row = r
  OBVIOUS
<1>5. \A r \in Row : r \in rows => RowOf(batch, r) # {}
  BY <1>4 DEF RowOf
<1>6. /\ local' = [local EXCEPT ![c] = [r \in Row |-> now(r)]]
      /\ cause' = { x \in cause : x[1] # c \/ x[2] \notin rows } \cup { <<c, r>> : r \in bad }
  BY <1>0 DEF Apply, TypeOK
<1>7. \A r \in rows : r \in bad <=> Disordered(RowOf(batch, r)) \/ lost(r)
  OBVIOUS
<1>8. ASSUME NEW r \in Row
      PROVE  /\ r \notin rows => now(r) = local[c][r]
             /\ r \in rows /\ ~lost(r) => now(r) = Net(RowOf(batch, r)).v
             /\ local[c][r] # Absent => now(r) # Absent
  <2>1. r \in rows => Net(RowOf(batch, r)).v \in Version
    <3>1. RowOf(batch, r) \in SUBSET (DOMAIN history)
      BY <1>2 DEF RowOf
    <3> QED
      BY <1>0, <1>5, <3>1, NetIs, HistoryType
  <2> QED
    BY <1>0, <2>1, Types
<1> HIDE DEF now, rows, batch, bad, lost
<1>9. \A d \in Client, r \in Row : local'[d][r] = IF d = c THEN now(r) ELSE local[d][r]
  BY <1>0, <1>6 DEF TypeOK
<1>10. UNCHANGED <<server, history, changes, queue, sent, messages, answers, edits>>
  BY DEF serverVars, outVars
<1>11. \A d \in Client, r \in Row : local[d][r] # Absent => local'[d][r] # Absent
  BY <1>8, <1>9
<1>12. Versions' /\ HistoryInv'
  BY <1>0, <1>10 DEF Versions, HistoryInv, LastOf
<1>13. Known'
  <2>1. \A d \in Client : \A x \in changes[d] : x.row \in Row /\ local'[d][x.row] # Absent
    BY <1>0, <1>11, Types DEF Known, TypeOK
  <2>2. \A i \in DOMAIN messages : \A q \in messages[i].rows : local'[messages[i].from][q] # Absent
    BY <1>0, <1>11, Types DEF Known
  <2>3. \A d \in Client : \A k \in DOMAIN answers[d] : \A q \in answers[d][k] : local'[d][q] # Absent
    BY <1>0, <1>11 DEF Known, TypeOK
  <2> QED
    BY <1>10, <2>1, <2>2, <2>3 DEF Known
<1>14. InsertInv'
  <2> SUFFICES ASSUME NEW d \in Client, NEW q \in Row, server[q] = Absent, local'[d][q] # Absent
               PROVE  Fresh(d, q)' \/ InsertSent(d, q)'
    BY <1>10 DEF InsertInv
  <2>1. q \notin rows
    BY <1>0, <1>2, <1>4 DEF HistoryInv
  <2>2. local[d][q] # Absent
    BY <1>8, <1>9, <2>1
  <2>3. Fresh(d, q) \/ InsertSent(d, q)
    BY <1>0, <2>2 DEF InsertInv
  <2> QED
    BY <1>10, <2>3 DEF Fresh, InsertSent
<1>15. ASSUME NEW d \in Client, NEW q \in Row
       PROVE  (Unsent(d, q) => Unsent(d, q)') /\ (InProcess(d, q) => InProcess(d, q)')
  BY <1>10 DEF Unsent, InProcess
<1>16. \A d \in Client : received'[d] = IF d = c THEN n ELSE received[d]
  BY <1>0 DEF TypeOK
\* A row that is not in the batch, or a browser that does not get it.
<1>17. ASSUME NEW d \in Client, NEW q \in Row, d # c \/ q \notin rows
       PROVE  (ToReceive(d, q) => ToReceive(d, q)') /\ (Same(d, q) => Same(d, q)')
  <2>1. local'[d][q] = local[d][q]
    BY <1>8, <1>9, <1>17
  <2>2. <<d, q>> \in cause => <<d, q>> \in cause'
    BY <1>6, <1>17
  <2>3. ASSUME ToReceive(d, q) PROVE ToReceive(d, q)'
    <3>1. PICK j \in DOMAIN history : j > received[d] /\ history[j].row = q
      BY <2>3 DEF ToReceive
    <3>2. j > received'[d]
      BY <1>3, <1>4, <1>16, <1>17, <3>1
    <3> QED
      BY <1>10, <3>1, <3>2 DEF ToReceive
  <2> QED
    BY <1>10, <2>1, <2>2, <2>3 DEF Same
\* A row of the batch: more of it is to come, or the batch has its last entry.
<1>18. ASSUME NEW q \in Row, q \in rows, ~ToReceive(c, q)'
       PROVE  Same(c, q)'
  <2>1. PICK m \in RowOf(batch, q) : \A j \in RowOf(batch, q) : j <= m
    BY <1>0, <1>2, <1>5, <1>18, LastInBatch
  <2>2. m \in batch /\ m \in DOMAIN history /\ history[m].row = q
    BY <1>2, <2>1 DEF RowOf
  <2>3. LastOf(m)
    <3> SUFFICES ASSUME NEW k \in DOMAIN history, k > m, history[k].row = q
                 PROVE  FALSE
      BY <2>2 DEF LastOf
    <3>1. ~(k > n)
      BY <1>10, <1>16, <1>18 DEF ToReceive
    <3>2. k > received[c]
      <4>1. m > received[c] /\ m \in Int /\ k \in Int
        BY <1>1, <1>3, <2>2
      <4> QED
        BY <1>1, <4>1
    <3>3. k \in RowOf(batch, q)
      BY <1>3, <3>1, <3>2 DEF RowOf
    <3>4. k <= m /\ k \in Int /\ m \in Int
      BY <1>1, <2>1, <2>2, <3>3
    <3> QED
      BY <3>4
  <2>4. history[m].v = server[q]
    BY <1>0, <2>2, <2>3 DEF HistoryInv
  <2>5. CASE Disordered(RowOf(batch, q)) \/ lost(q)
    BY <1>6, <1>7, <1>18, <2>5 DEF Same
  <2>6. CASE ~(Disordered(RowOf(batch, q)) \/ lost(q))
    <3>1. RowOf(batch, q) \in SUBSET (DOMAIN history) /\ RowOf(batch, q) # {}
      BY <1>2, <1>5, <1>18 DEF RowOf
    <3>2. Net(RowOf(batch, q)).v = history[m].v
      BY <1>0, <2>1, <2>6, <3>1, NetIs
    <3>3. local'[c][q] = server[q]
      BY <1>8, <1>9, <1>18, <2>4, <2>6, <3>2
    <3> QED
      BY <1>10, <3>3 DEF Same
  <2> QED
    BY <2>5, <2>6
<1>19. NewsInv'
  <2> SUFFICES ASSUME NEW d \in Client, NEW q \in Row
               PROVE  (Unsent(d, q) \/ InProcess(d, q) \/ ToReceive(d, q) \/ Same(d, q))'
    BY DEF NewsInv
  <2>1. CASE d = c /\ q \in rows
    BY <1>18, <2>1
  <2>2. CASE ~(d = c /\ q \in rows)
    BY <1>0, <1>15, <1>17, <2>2 DEF NewsInv
  <2> QED
    BY <2>1, <2>2
<1> QED
  BY <1>12, <1>13, <1>14, <1>19 DEF Inv

LEMMA NextIInv == IInv /\ [Next]_vars => IInv'
<1> SUFFICES ASSUME IInv, [Next]_vars PROVE TypeOK' /\ Inv'
  BY DEF IInv, Inv
<1>0. TypeOK'
  BY NextTypeOK DEF IInv
<1>1. ASSUME NEW c \in Client, NEW r \in Row, Edit(c, r) PROVE Inv'
  BY <1>1, EditKeeps
<1>2. ASSUME NEW c \in Client, LoadUnprocessedChanges(c) PROVE Inv'
  BY <1>2, LoadKeeps
<1>3. ASSUME NEW c \in Client, ProcessChanges(c) PROVE Inv'
  BY <1>3, ProcessKeeps
<1>4. ASSUME NEW c \in Client, HandleChangesApplied(c) PROVE Inv'
  BY <1>4, HandleKeeps
<1>5. ASSUME NEW c \in Client, Deliver(c) PROVE Inv'
  BY <1>5, DeliverKeeps DEF Deliver
<1>6. ASSUME NEW i \in DOMAIN messages, Execute(i) PROVE Inv'
  BY <1>6, ExecuteKeeps
<1>7. ASSUME NEW i \in DOMAIN messages, SendChangesApplied(i) PROVE Inv'
  BY <1>7, AnswerKeeps
<1>8. ASSUME NEW r \in Row, ApiWrite(r) PROVE Inv'
  BY <1>8, ApiKeeps
<1>9. CASE UNCHANGED vars
  <2>1. UNCHANGED <<server, history, local, changes, queue, messages, answers, received, sent, cause, edits>>
    BY <1>9 DEF vars, serverVars, outVars
  <2>2. Versions' /\ Known' /\ HistoryInv'
    BY <2>1 DEF IInv, Versions, Known, HistoryInv, LastOf
  <2>3. InsertInv' /\ NewsInv'
    BY <2>1 DEF IInv, InsertInv, NewsInv, Fresh, InsertSent, Unsent, InProcess, ToReceive, Same
  <2> QED
    BY <1>0, <2>2, <2>3 DEF Inv
<1> QED
  BY <1>0, <1>1, <1>2, <1>3, <1>4, <1>5, <1>6, <1>7, <1>8, <1>9 DEF Next

\* Converged: a browser that has received everything and has no change of a row
\* left to send or in process shows what the server has, unless there is a cause.
THEOREM Convergence == Spec => []Converged
<1>1. Init => IInv
  BY InitIInv
<1>2. IInv /\ [Next]_vars => IInv'
  BY NextIInv
<1>3. IInv => Converged
  <2> SUFFICES ASSUME IInv, NEW c \in Client, NEW r \in Row, Settled(c, r)
               PROVE  Same(c, r)
    BY DEF Converged
  <2>1. ~Unsent(c, r) /\ ~InProcess(c, r)
    BY DEF Settled, Unsent, InProcess
  <2>2. ~ToReceive(c, r)
    <3>1. received[c] = Len(history)
      BY DEF Settled
    <3>2. \A j \in DOMAIN history : j \in Int /\ j <= Len(history) /\ Len(history) \in Int
      BY HistoryType DEF IInv
    <3> QED
      BY <3>1, <3>2 DEF ToReceive
  <2> QED
    BY <2>1, <2>2 DEF IInv, NewsInv
<1> QED
  BY <1>1, <1>2, <1>3, PTL DEF Spec
=============================================================================
