-------------------------- MODULE InitialSyncProofs --------------------------
(***************************************************************************)
(* Proofs about InitialSync for any tables, page size, bounds and number   *)
(* of syncs that run at the same time: the types, and that the tables      *)
(* recorded as completed were delivered as they were when the sync         *)
(* started, or newer.                                                      *)
(*                                                                         *)
(* The invariant follows the rows of a page from the read of the page,     *)
(* through the message and the browser's replica, to the ack and to the    *)
(* session that the ack wakes: an ack says that the browser has the rows   *)
(* at least as they were at the read, and the read is not before the start *)
(* of the session.                                                         *)
(***************************************************************************)
EXTENDS InitialSync, FiniteNumbers

-----------------------------------------------------------------------------
(* The invariant.                                                          *)

\* The rows of a page are the same whenever it is read.
PageRows(t, p) == { r \in Row : r[1] = t /\ (p - 1) * PageSize < r[2] /\ r[2] <= p * PageSize }

\* The browser has a row at least as it was at LSN l, or it fell back.
Delivered(r, l) == r \in lowered \/ replica[r] >= Version(r, l)

\* A page shows its rows as of the LSN of its read.
PageInv(m) ==
    m.kind = "page" =>
        /\ <<m.t, m.p>> \in Row /\ m.lsn <= Len(log)
        /\ m.rows = { <<r, Version(r, m.lsn)>> : r \in PageRows(m.t, m.p) }

PagesInv ==
    /\ \A i \in DOMAIN toClient : PageInv(toClient[i])
    /\ PageInv(applying)

\* What has been acked was applied.
AnswerInv(a) ==
    \A r \in PageRows(a.page[1], a.page[2]) : a.read <= Len(log) /\ Delivered(r, a.read)

AckedInv == \A i \in DOMAIN toServer : AnswerInv(toServer[i])

\* Where a session is in its table.
InTable == {"page", "await", "acked"}

PlaceInv(s) ==
    sess[s].pc \in InTable =>
        /\ sess[s].t \in Table /\ sess[s].p \in Nat \ {0}
        /\ sess[s].cursor = (sess[s].p - 1) * PageSize
        /\ sess[s].cursor < Size[sess[s].t]

\* How much of its table a session has had acked.
AckedUpTo(s) == (IF sess[s].pc = "acked" THEN sess[s].p ELSE sess[s].p - 1) * PageSize

SessionInv(s) ==
    \A r \in Row :
        \/ r[1] \in sess[s].done
        \/ sess[s].pc \in InTable /\ r[1] = sess[s].t /\ r[2] <= AckedUpTo(s)
        => Delivered(r, sess[s].start)

ProgressInv == \A r \in Row : r[1] \in progress.done => Delivered(r, progress.start)

IInv ==
    /\ TypeOK
    /\ progress.start <= Len(log)
    /\ \A s \in Session : sess[s].start <= Len(log) /\ PlaceInv(s)
    /\ PagesInv /\ AckedInv
    /\ "stale" \notin flaws => ProgressInv /\ \A s \in Session : SessionInv(s)

-----------------------------------------------------------------------------
(* The operators.                                                          *)

\* Tables and rows.
LEMMA Tables ==
    /\ Table = 1..Len(Size) /\ Len(Size) \in Nat \ {0} /\ IsFiniteSet(Table) /\ Table \in SUBSET Int
    /\ \A t \in Table : Size[t] \in Nat \ {0}
    /\ \A r \in Row : r[1] \in Table /\ r[2] \in 1..Size[r[1]] /\ r = <<r[1], r[2]>>
    /\ \A t \in Table : \A i \in 1..Size[t] : <<t, i>> \in Row
<1>1. Table = 1..Len(Size) /\ Len(Size) \in Nat \ {0}
  BY SizesPositive DEF Table
<1>2. \A t \in Table : Size[t] \in Nat \ {0}
  BY SizesPositive DEF Table
<1>3. IsFiniteSet(Table)
  BY <1>1, FS_Interval
<1>4. ASSUME NEW r \in Row PROVE r[1] \in Table /\ r[2] \in 1..Size[r[1]] /\ r = <<r[1], r[2]>>
  <2>1. PICK t \in Table : r \in {t} \X (1..Size[t])
    BY <1>4 DEF Row
  <2> QED
    BY <2>1
<1>5. ASSUME NEW t \in Table, NEW i \in 1..Size[t] PROVE <<t, i>> \in Row
  <2>1. <<t, i>> \in {t} \X (1..Size[t])
    OBVIOUS
  <2> QED
    BY <2>1 DEF Row
<1> QED
  BY <1>1, <1>2, <1>3, <1>4, <1>5

\* The version of a row is the last write of it.
LEMMA VersionIs ==
    ASSUME NEW r, NEW l \in Nat
    PROVE  /\ Version(r, l) \in 0..l
           /\ Version(r, l) # 0 => log[Version(r, l)] = r
           /\ \A i \in 1..l : log[i] = r => i <= Version(r, l)
<1> DEFINE at == { i \in 1..l : log[i] = r }
           last == CHOOSE i \in at : \A j \in at : j <= i
<1>1. Version(r, l) = IF at = {} THEN 0 ELSE last
  BY DEF Version
<1>2. CASE at = {}
  BY <1>1, <1>2
<1>3. CASE at # {}
  <2>1. at \in SUBSET (1..l)
    OBVIOUS
  <2>2. IsFiniteSet(1..l) /\ 1..l \in SUBSET Int
    BY FS_Interval
  <2> HIDE DEF at
  <2>3. IsFiniteSet(at) /\ at \in SUBSET Int
    BY <2>1, <2>2, FS_Subset
  <2>4. \E i \in at : \A j \in at : j <= i
    BY <1>3, <2>3, GreatestExists
  <2>5. last \in at /\ \A j \in at : j <= last
    BY <2>4
  <2> HIDE DEF last
  <2> QED
    BY <1>1, <1>3, <2>5 DEF at
<1> QED
  BY <1>2, <1>3

\* It grows with the log, and earlier versions stay.
LEMMA VersionMonotone ==
    ASSUME NEW r, NEW k \in Nat, NEW l \in Nat, k <= l
    PROVE  Version(r, k) <= Version(r, l)
<1>1. Version(r, k) \in 0..k /\ (Version(r, k) # 0 => log[Version(r, k)] = r)
  BY VersionIs
<1>2. Version(r, l) \in 0..l /\ \A i \in 1..l : log[i] = r => i <= Version(r, l)
  BY VersionIs
<1>3. CASE Version(r, k) = 0
  BY <1>2, <1>3
<1>4. CASE Version(r, k) # 0
  <2>1. Version(r, k) \in 1..l
    BY <1>1, <1>4
  <2> QED
    BY <1>1, <1>2, <1>4, <2>1
<1> QED
  BY <1>3, <1>4

\* Earlier entries of the log stay.
LogGrows == Len(log') \in Nat /\ Len(log) <= Len(log') /\ \A i \in 1..Len(log) : log'[i] = log[i]

LastIn(S) == IF S = {} THEN 0 ELSE CHOOSE i \in S : \A j \in S : j <= i

LEMMA VersionKept ==
    ASSUME LogGrows, Len(log) \in Nat, NEW r, NEW l \in Nat, l <= Len(log)
    PROVE  Version(r, l)' = Version(r, l)
<1>1. \A i \in 1..l : log'[i] = log[i]
  BY DEF LogGrows
<1>2. { i \in 1..l : log'[i] = r } = { i \in 1..l : log[i] = r }
  BY <1>1
<1>3. Version(r, l) = LastIn({ i \in 1..l : log[i] = r })
  BY DEF Version, LastIn
<1>4. Version(r, l)' = LastIn({ i \in 1..l : log'[i] = r })
  BY DEF Version, LastIn
<1> QED
  BY <1>2, <1>3, <1>4

\* The rows a session sends for page p are those of the page.
LEMMA PageRowsSent ==
    ASSUME NEW s \in Session, PlaceInv(s), sess[s].pc \in InTable
    PROVE  /\ <<sess[s].t, sess[s].p>> \in Row
           /\ {sess[s].t} \X ((sess[s].cursor + 1)..LastId(s)) = PageRows(sess[s].t, sess[s].p)
           /\ LastPage(s) => Size[sess[s].t] <= sess[s].p * PageSize
           /\ ~LastPage(s) => /\ LastId(s) = sess[s].p * PageSize
                              /\ sess[s].p * PageSize < Size[sess[s].t]
<1> DEFINE t == sess[s].t  p == sess[s].p  c == sess[s].cursor
<1>1. /\ t \in Table /\ p \in Nat \ {0} /\ c = (p - 1) * PageSize /\ c < Size[t]
      /\ Size[t] \in Nat /\ PageSize \in Nat \ {0}
  BY Tables, PageSizePositive DEF PlaceInv
<1> HIDE DEF t, p, c
<1>2. c \in Nat /\ p * PageSize = c + PageSize /\ p * PageSize \in Nat
  BY <1>1
<1>3. p - 1 <= c
  BY <1>1
<1>4. <<t, p>> \in Row
  BY <1>1, <1>3, Tables
<1>5. LastId(s) = IF c + PageSize >= Size[t] THEN Size[t] ELSE c + PageSize
  BY DEF LastId, LastPage, t, c
<1>6. ASSUME NEW r \in {t} \X ((c + 1)..LastId(s)) PROVE r \in PageRows(t, p)
  <2>1. r = <<t, r[2]>> /\ r[1] = t /\ r[2] \in (c + 1)..LastId(s)
    OBVIOUS
  <2>2. r[2] \in 1..Size[t] /\ r[2] > c /\ r[2] <= c + PageSize
    BY <1>1, <1>2, <1>5, <2>1
  <2> QED
    BY <1>1, <1>2, <2>1, <2>2, Tables DEF PageRows
<1>7. ASSUME NEW r \in PageRows(t, p) PROVE r \in {t} \X ((c + 1)..LastId(s))
  <2>1. r \in Row /\ r[1] = t /\ r[2] > c /\ r[2] <= c + PageSize
    BY <1>1, <1>2 DEF PageRows
  <2>2. r = <<t, r[2]>> /\ r[2] \in 1..Size[t]
    BY <2>1, Tables
  <2>3. r[2] \in (c + 1)..LastId(s)
    BY <1>1, <1>2, <1>5, <2>1, <2>2
  <2> QED
    BY <2>2, <2>3
<1>8. {t} \X ((c + 1)..LastId(s)) = PageRows(t, p)
  BY <1>6, <1>7
<1> QED
  BY <1>1, <1>2, <1>4, <1>5, <1>8 DEF LastPage, t, p, c

-----------------------------------------------------------------------------
(* Types.                                                                  *)

SessionType ==
    [pc : {"idle", "accepted", "begin", "tables", "page", "await", "acked",
           "final", "awaitProcessed", "processed"},
     lsn : Nat, done : SUBSET Table, start : Nat, t : Table \cup {0},
     p : Nat, cursor : Nat]

ProgressType ==
    [status : {"none", "in_progress", "complete"}, done : SUBSET Table, start : Nat]

\* The parts of TypeOK.
DbTypes == log \in Seq(Row) /\ stored \in 0..Len(log)
LinkTypes == link \in BOOLEAN /\ toClient \in Seq(Message) /\ toServer \in Seq(Answer)
LsnTypes == clientLsn \in Nat /\ urlLsn \in Nat /\ srvLsn \in Nat
ReplicaTypes ==
    /\ applying \in Message /\ replica \in [Row -> Nat \cup {Absent}]
    /\ flaws \subseteq {"skipped", "stale"} /\ lowered \subseteq Row
SyncTypes ==
    /\ progress \in ProgressType /\ acks \in [Ack -> Nat] /\ sess \in [Session -> SessionType]
BoundTypes == writes \in Nat /\ connects \in Nat /\ breaks \in Nat /\ faults \in Nat

LEMMA TypeGroups ==
    /\ TypeOK <=> DbTypes /\ LinkTypes /\ LsnTypes /\ ReplicaTypes /\ SyncTypes /\ BoundTypes
    /\ TypeOK' <=> DbTypes' /\ LinkTypes' /\ LsnTypes' /\ ReplicaTypes' /\ SyncTypes' /\ BoundTypes'
  BY DEF TypeOK, DbTypes, LinkTypes, LsnTypes, ReplicaTypes, SyncTypes, BoundTypes,
         SessionType, ProgressType

LEMMA Types ==
    ASSUME TypeOK
    PROVE  /\ log \in Seq(Row) /\ Len(log) \in Nat /\ DOMAIN log = 1..Len(log)
           /\ stored \in Nat /\ stored <= Len(log)
           /\ \A s \in Session : /\ sess[s] \in SessionType /\ sess[s].start \in Nat
                                 /\ sess[s].done \in SUBSET Table /\ sess[s].lsn \in Nat
                                 /\ sess[s].p \in Nat /\ sess[s].cursor \in Nat
           /\ progress.start \in Nat /\ progress.done \in SUBSET Table
           /\ \A r \in Row : replica[r] \in Int
  BY DEF TypeOK, SessionType, Absent

\* A message starts as nothing.
LEMMA MessageTypes ==
    /\ Nothing \in Message /\ \A m \in Message : m.lsn \in Nat /\ m.t \in Nat /\ m.p \in Nat
    /\ \A k \in {"start", "resume", "live", "complete"}, l \in Nat, w \in SUBSET (Row \X Nat) :
          /\ [Nothing EXCEPT !.kind = k, !.lsn = l] \in Message
          /\ [Nothing EXCEPT !.kind = k, !.lsn = l].kind # "page"
          /\ [Nothing EXCEPT !.kind = k, !.rows = w, !.lsn = l] \in Message
          /\ [Nothing EXCEPT !.kind = k, !.rows = w, !.lsn = l].kind # "page"
<1>1. Nothing \in Message
  BY DEF Nothing, Message
<1>2. \A m \in Message : m.lsn \in Nat /\ m.t \in Nat /\ m.p \in Nat
  BY DEF Message
<1>3. ASSUME NEW n \in Message, NEW l \in Nat,
             NEW k \in {"start", "resume", "live", "complete"}
      PROVE  [n EXCEPT !.kind = k, !.lsn = l] \in Message
  BY DEF Message
<1>4. ASSUME NEW n \in Message, NEW k, NEW l
      PROVE  [n EXCEPT !.kind = k, !.lsn = l].kind = k
  BY DEF Message
<1>5. ASSUME NEW n \in Message, NEW l \in Nat, NEW w \in SUBSET (Row \X Nat),
             NEW k \in {"start", "resume", "live", "complete"}
      PROVE  [n EXCEPT !.kind = k, !.rows = w, !.lsn = l] \in Message
  BY DEF Message
<1>6. ASSUME NEW n \in Message, NEW k, NEW l, NEW w
      PROVE  [n EXCEPT !.kind = k, !.rows = w, !.lsn = l].kind = k
  BY DEF Message
<1>7. \A k \in {"start", "resume", "live", "complete"} : k # "page"
  OBVIOUS
<1>8. ASSUME NEW k \in {"start", "resume", "live", "complete"}, NEW l \in Nat,
             NEW w \in SUBSET (Row \X Nat)
      PROVE  /\ [Nothing EXCEPT !.kind = k, !.lsn = l] \in Message
             /\ [Nothing EXCEPT !.kind = k, !.lsn = l].kind # "page"
             /\ [Nothing EXCEPT !.kind = k, !.rows = w, !.lsn = l] \in Message
             /\ [Nothing EXCEPT !.kind = k, !.rows = w, !.lsn = l].kind # "page"
  <2>1. [Nothing EXCEPT !.kind = k, !.lsn = l] \in Message
    BY <1>1, <1>3
  <2>2. [Nothing EXCEPT !.kind = k, !.lsn = l].kind = k
    BY <1>1, <1>4
  <2>3. [Nothing EXCEPT !.kind = k, !.rows = w, !.lsn = l] \in Message
    BY <1>1, <1>5
  <2>4. [Nothing EXCEPT !.kind = k, !.rows = w, !.lsn = l].kind = k
    BY <1>1, <1>6
  <2> QED
    BY <1>7, <2>1, <2>2, <2>3, <2>4
<1> QED
  BY <1>1, <1>2, <1>8

LEMMA InitTypeOK == Init => TypeOK
<1> SUFFICES ASSUME Init PROVE TypeOK
  OBVIOUS
<1>1. <<1, 1>> \in Row
  <2>1. 1 \in Table /\ 1 \in 1..Size[1]
    BY Tables
  <2> QED
    BY <2>1, Tables
<1>2. log \in Seq(Row) /\ Len(log) = 1 /\ stored \in 0..1
  BY <1>1 DEF Init
<1>3. DbTypes
  BY <1>2 DEF DbTypes
<1>4. LinkTypes
  <2>1. link \in BOOLEAN /\ toClient = << >> /\ toServer = << >>
    BY DEF Init
  <2>2. << >> \in Seq(Message) /\ << >> \in Seq(Answer)
    OBVIOUS
  <2> QED
    BY <2>1, <2>2 DEF LinkTypes
<1>8. LsnTypes /\ BoundTypes
  BY DEF Init, LsnTypes, BoundTypes
<1>5. ReplicaTypes
  BY MessageTypes DEF Init, ReplicaTypes
<1>6. IdleSession \in SessionType /\ NoProgress \in ProgressType
  BY DEF IdleSession, SessionType, NoProgress, ProgressType
<1>7. SyncTypes
  BY <1>6 DEF Init, SyncTypes
<1> QED
  BY <1>3, <1>4, <1>5, <1>7, <1>8, TypeGroups

\* A session that starts or ends has nothing.
LEMMA IdleSessionIs ==
    /\ IdleSession \in SessionType /\ IdleSession.pc = "idle"
    /\ IdleSession.done = {} /\ IdleSession.start = 0
  BY DEF IdleSession, SessionType

LEMMA SessionSet ==
    ASSUME sess \in [Session -> SessionType], NEW s \in Session, NEW x \in SessionType,
           sess' = [sess EXCEPT ![s] = x]
    PROVE  /\ sess' \in [Session -> SessionType] /\ sess'[s] = x
           /\ \A q \in Session : q # s => sess'[q] = sess[q]
  OBVIOUS

-----------------------------------------------------------------------------
(* What stays.                                                             *)

\* A replica only grows, but for the rows that fall back.
ReplicaGrows ==
    /\ lowered \subseteq lowered'
    /\ \A r \in Row : r \in lowered' \/ replica'[r] >= replica[r]

LEMMA OverwriteGrows ==
    ASSUME TypeOK, NEW new, \A r \in Row : new[r] \in Int, Overwrite(new)
    PROVE  ReplicaGrows
<1>1. ASSUME NEW r \in Row, r \notin lowered' PROVE new[r] >= replica[r]
  <2>1. ~(new[r] < replica[r])
    BY <1>1 DEF Overwrite
  <2> QED
    BY <2>1, Types
<1> QED
  BY <1>1 DEF Overwrite, ReplicaGrows

LEMMA DeliveredKept ==
    ASSUME TypeOK, LogGrows, ReplicaGrows, \A r \in Row : replica'[r] \in Int,
           NEW r \in Row, NEW l \in Nat, l <= Len(log), Delivered(r, l)
    PROVE  Delivered(r, l)'
<1>1. Version(r, l)' = Version(r, l)
  BY VersionKept, Types
<1>2. Version(r, l) \in Int
  BY VersionIs
<1>3. CASE r \in lowered'
  BY <1>3 DEF Delivered
<1>4. CASE r \notin lowered'
  <2>1. replica[r] >= Version(r, l)
    BY <1>4 DEF ReplicaGrows, Delivered
  <2>2. replica'[r] >= replica[r]
    BY <1>4 DEF ReplicaGrows
  <2>3. replica'[r] >= Version(r, l)
    BY <1>2, <2>1, <2>2, Types
  <2> QED
    BY <1>1, <2>3 DEF Delivered
<1> QED
  BY <1>3, <1>4

\* What the invariant says of a session, of the progress, of a message and of an
\* ack stays true of them.
LEMMA InvariantsKept ==
    ASSUME IInv, LogGrows, ReplicaGrows, \A r \in Row : replica'[r] \in Int
    PROVE  /\ \A s \in Session : sess'[s] = sess[s] =>
                 /\ PlaceInv(s)' /\ sess'[s].start <= Len(log')
                 /\ SessionInv(s) => SessionInv(s)'
           /\ progress' = progress =>
                 progress'.start <= Len(log') /\ (ProgressInv => ProgressInv')
           /\ \A m \in Message : PageInv(m) => PageInv(m)'
           /\ \A a \in Answer : AnswerInv(a) => AnswerInv(a)'
<1>0. TypeOK /\ Len(log) \in Nat /\ Len(log') \in Nat /\ Len(log) <= Len(log')
  BY Types DEF IInv, LogGrows
<1>1. ASSUME NEW s \in Session, sess'[s] = sess[s]
      PROVE  /\ PlaceInv(s)' /\ sess'[s].start <= Len(log')
             /\ SessionInv(s) => SessionInv(s)'
  <2>1. sess[s].start \in Nat /\ sess[s].start <= Len(log) /\ PlaceInv(s)
    BY <1>0, Types DEF IInv
  <2>2. PlaceInv(s)'
    BY <1>1, <2>1 DEF PlaceInv
  <2>3. sess'[s].start <= Len(log')
    BY <1>0, <1>1, <2>1
  <2>4. \A r \in Row : Delivered(r, sess[s].start) => Delivered(r, sess[s].start)'
    BY <1>0, <1>1, <2>1, DeliveredKept
  <2>5. SessionInv(s) => SessionInv(s)'
    BY <1>1, <2>4 DEF SessionInv, AckedUpTo
  <2> QED
    BY <2>2, <2>3, <2>5
<1>2. ASSUME progress' = progress
      PROVE  progress'.start <= Len(log') /\ (ProgressInv => ProgressInv')
  <2>1. progress.start \in Nat /\ progress.start <= Len(log)
    BY <1>0, Types DEF IInv
  <2>2. \A r \in Row : Delivered(r, progress.start) => Delivered(r, progress.start)'
    BY <1>0, <1>2, <2>1, DeliveredKept
  <2>3. ProgressInv => ProgressInv'
    BY <1>2, <2>2 DEF ProgressInv
  <2> QED
    BY <1>0, <1>2, <2>1, <2>3
<1>3. ASSUME NEW m \in Message, PageInv(m) PROVE PageInv(m)'
  <2>1. CASE m.kind = "page"
    <3>1. m.lsn \in Nat /\ m.lsn <= Len(log)
      BY <1>3, <2>1, MessageTypes DEF PageInv
    <3>2. \A r \in PageRows(m.t, m.p) : Version(r, m.lsn)' = Version(r, m.lsn)
      BY <1>0, <3>1, VersionKept
    <3>3. m.rows = { <<r, Version(r, m.lsn)'>> : r \in PageRows(m.t, m.p) }
      BY <1>3, <2>1, <3>2 DEF PageInv
    <3> QED
      BY <1>0, <1>3, <2>1, <3>1, <3>3 DEF PageInv
  <2> QED
    BY <2>1 DEF PageInv
<1>4. ASSUME NEW a \in Answer, AnswerInv(a) PROVE AnswerInv(a)'
  <2>1. a.read \in Nat
    BY DEF Answer
  <2>2. ASSUME NEW r \in PageRows(a.page[1], a.page[2])
        PROVE  a.read <= Len(log') /\ Delivered(r, a.read)'
    <3>1. r \in Row /\ a.read <= Len(log) /\ Delivered(r, a.read)
      BY <1>4, <2>2 DEF AnswerInv, PageRows
    <3> QED
      BY <1>0, <2>1, <3>1, DeliveredKept
  <2> QED
    BY <2>2 DEF AnswerInv
<1> QED
  BY <1>1, <1>2, <1>3, <1>4

-----------------------------------------------------------------------------
(* The steps of a session.                                                 *)

\* What a step of session s keeps.
StepKeeps(s) ==
    /\ SyncTypes' /\ LsnTypes' /\ BoundTypes' /\ link' \in BOOLEAN
    /\ \A q \in Session : q # s => sess'[q] = sess[q]
    /\ PlaceInv(s)' /\ sess'[s].start <= Len(log) /\ progress'.start <= Len(log)
    /\ "stale" \notin flaws' /\ ProgressInv /\ SessionInv(s) => ProgressInv' /\ SessionInv(s)'
    /\ UNCHANGED <<log, stored, replica, lowered, applying, toServer>>
    /\ flaws \subseteq flaws' /\ flaws' \subseteq {"skipped", "stale"}
    /\ toClient' = toClient \/ \E m \in Message : PageInv(m) /\ toClient' = Append(toClient, m)

LEMMA StepIInv ==
    ASSUME IInv, NEW s \in Session, StepKeeps(s)
    PROVE  IInv'
<1>0. DbTypes /\ LinkTypes /\ LsnTypes /\ ReplicaTypes /\ SyncTypes /\ BoundTypes /\ TypeOK
  BY TypeGroups DEF IInv
<1>1. LogGrows /\ ReplicaGrows /\ \A r \in Row : replica'[r] \in Int
  <2>1. Len(log) \in Nat /\ Len(log) <= Len(log)
    BY <1>0, Types
  <2>2. \A r \in Row : replica[r] \in Int /\ replica[r] >= replica[r]
    BY <1>0, Types
  <2> QED
    BY <2>1, <2>2 DEF StepKeeps, LogGrows, ReplicaGrows
<1>2. /\ \A q \in Session : sess'[q] = sess[q] =>
            /\ PlaceInv(q)' /\ sess'[q].start <= Len(log')
            /\ SessionInv(q) => SessionInv(q)'
      /\ \A m \in Message : PageInv(m) => PageInv(m)'
      /\ \A a \in Answer : AnswerInv(a) => AnswerInv(a)'
  BY <1>1, InvariantsKept
<1>3. toClient' \in Seq(Message) /\ \A i \in DOMAIN toClient' : PageInv(toClient[i])'
  <2>0. toClient \in Seq(Message) /\ \A i \in DOMAIN toClient : PageInv(toClient[i])
    BY <1>0 DEF LinkTypes, IInv, PagesInv
  <2>1. ASSUME NEW m \in Message, PageInv(m), toClient' = Append(toClient, m)
        PROVE  toClient' \in Seq(Message) /\ \A i \in DOMAIN toClient' : PageInv(toClient'[i])
    <3>1. toClient' \in Seq(Message)
      BY <2>0, <2>1
    <3>2. \A i \in DOMAIN toClient' : toClient'[i] = m \/ (i \in DOMAIN toClient /\ toClient'[i] = toClient[i])
      BY <2>0, <2>1
    <3> QED
      BY <2>0, <2>1, <3>1, <3>2
  <2>2. ASSUME toClient' = toClient
        PROVE  toClient' \in Seq(Message) /\ \A i \in DOMAIN toClient' : PageInv(toClient'[i])
    BY <2>0, <2>2
  <2>3. toClient' \in Seq(Message) /\ \A i \in DOMAIN toClient' : PageInv(toClient'[i])
    BY <2>1, <2>2 DEF StepKeeps
  <2>4. \A i \in DOMAIN toClient' : toClient'[i] \in Message
    BY <2>3
  <2> QED
    BY <1>2, <2>3, <2>4
<1>4. PagesInv'
  <2>1. PageInv(applying)'
    BY <1>0, <1>2 DEF IInv, PagesInv, ReplicaTypes, StepKeeps
  <2> QED
    BY <1>3, <2>1 DEF PagesInv
<1>5. AckedInv'
  <2>1. \A i \in DOMAIN toServer : toServer[i] \in Answer /\ AnswerInv(toServer[i])
    BY <1>0 DEF LinkTypes, IInv, AckedInv
  <2>2. toServer' = toServer
    BY DEF StepKeeps
  <2> QED
    BY <1>2, <2>1, <2>2 DEF AckedInv
<1>6. TypeOK'
  <2>1. DbTypes'
    BY <1>0 DEF StepKeeps, DbTypes
  <2>2. ReplicaTypes'
    BY <1>0 DEF StepKeeps, ReplicaTypes
  <2>3. LinkTypes'
    BY <1>0, <1>3 DEF StepKeeps, LinkTypes
  <2> QED
    BY <2>1, <2>2, <2>3, TypeGroups DEF StepKeeps
<1>7. /\ progress'.start <= Len(log')
      /\ \A q \in Session : sess'[q].start <= Len(log') /\ PlaceInv(q)'
  <2>1. log' = log
    BY DEF StepKeeps
  <2> QED
    BY <1>2, <2>1 DEF StepKeeps
<1>8. ASSUME "stale" \notin flaws' PROVE ProgressInv' /\ \A q \in Session : SessionInv(q)'
  <2>1. "stale" \notin flaws
    BY <1>8 DEF StepKeeps
  <2>2. ProgressInv /\ \A q \in Session : SessionInv(q)
    BY <2>1 DEF IInv
  <2>3. ProgressInv' /\ SessionInv(s)'
    BY <1>8, <2>2 DEF StepKeeps
  <2>4. \A q \in Session : q # s => SessionInv(q)'
    BY <1>2, <2>2 DEF StepKeeps
  <2> QED
    BY <2>3, <2>4
<1> QED
  BY <1>4, <1>5, <1>6, <1>7, <1>8 DEF IInv

\* As long as the log and the replica stay, so does what was delivered.
LEMMA DeliveredSame ==
    ASSUME UNCHANGED <<log, replica, lowered>>
    PROVE  \A r, l : Delivered(r, l)' <=> Delivered(r, l)
  BY DEF Delivered, Version

\* A session moves, with what it has had delivered.
LEMMA Moves ==
    ASSUME IInv, NEW s \in Session, NEW x \in SessionType, sess' = [sess EXCEPT ![s] = x],
           progress' \in ProgressType, acks' \in [Ack -> Nat]
    PROVE  /\ SyncTypes' /\ sess'[s] = x
           /\ \A q \in Session : q # s => sess'[q] = sess[q]
<1>1. sess \in [Session -> SessionType]
  BY TypeGroups DEF IInv, SyncTypes
<1> QED
  BY <1>1, SessionSet DEF SyncTypes

\* A session ends.
LEMMA Leaves ==
    ASSUME IInv, NEW s \in Session, sess' = [sess EXCEPT ![s] = IdleSession],
           UNCHANGED <<progress, acks, log, stored, link, toClient, toServer, applying,
                       replica, lowered, flaws>>,
           LsnTypes', BoundTypes'
    PROVE  StepKeeps(s)
<1>0. TypeOK /\ LinkTypes /\ ReplicaTypes /\ SyncTypes
  BY TypeGroups DEF IInv
<1>1. /\ SyncTypes' /\ sess'[s] = IdleSession
      /\ \A q \in Session : q # s => sess'[q] = sess[q]
  BY <1>0, IdleSessionIs, Moves DEF SyncTypes
<1>2. PlaceInv(s)' /\ sess'[s].start <= Len(log) /\ progress'.start <= Len(log)
  BY <1>0, <1>1, IdleSessionIs, Types DEF PlaceInv, InTable, IInv
<1>3. SessionInv(s)'
  BY <1>1, IdleSessionIs DEF SessionInv, InTable
<1>4. ProgressInv => ProgressInv'
  BY DeliveredSame DEF ProgressInv
<1> QED
  BY <1>0, <1>1, <1>2, <1>3, <1>4 DEF StepKeeps, LinkTypes, ReplicaTypes

\* A session goes on outside of its tables.
LEMMA GoesOn ==
    ASSUME IInv, NEW s \in Session, NEW x \in SessionType, sess' = [sess EXCEPT ![s] = x],
           x.pc \notin InTable, x.done = sess[s].done, x.start = sess[s].start,
           UNCHANGED <<log, replica, lowered, progress>>, acks' \in [Ack -> Nat]
    PROVE  /\ SyncTypes'
           /\ \A q \in Session : q # s => sess'[q] = sess[q]
           /\ PlaceInv(s)' /\ sess'[s].start <= Len(log) /\ progress'.start <= Len(log)
           /\ ProgressInv /\ SessionInv(s) => ProgressInv' /\ SessionInv(s)'
<1>0. SyncTypes /\ TypeOK
  BY TypeGroups DEF IInv
<1>1. /\ SyncTypes' /\ sess'[s] = x
      /\ \A q \in Session : q # s => sess'[q] = sess[q]
  BY <1>0, Moves DEF SyncTypes
<1>2. PlaceInv(s)' /\ sess'[s].start <= Len(log) /\ progress'.start <= Len(log)
  BY <1>1 DEF PlaceInv, IInv
<1>3. ProgressInv => ProgressInv'
  BY DeliveredSame DEF ProgressInv
<1>4. SessionInv(s) => SessionInv(s)'
  BY <1>1, DeliveredSame DEF SessionInv
<1> QED
  BY <1>1, <1>2, <1>3, <1>4

LEMMA ConnectKeeps ==
    ASSUME IInv, NEW s \in Session, Connect(s)
    PROVE  StepKeeps(s)
<1> DEFINE x == [sess[s] EXCEPT !.pc = "accepted", !.lsn = urlLsn]
<1>0. TypeOK /\ LinkTypes /\ LsnTypes /\ ReplicaTypes /\ SyncTypes /\ BoundTypes
  BY TypeGroups DEF IInv
<1>1. sess' = [sess EXCEPT ![s] = x]
  BY DEF Connect
<1>2. x \in SessionType /\ x.pc = "accepted" /\ x.done = sess[s].done /\ x.start = sess[s].start
  BY <1>0, Types DEF SessionType, LsnTypes
<1> HIDE DEF x
<1>3. UNCHANGED <<log, stored, toClient, toServer, applying, replica, lowered, flaws, clientLsn,
                  urlLsn, srvLsn, progress, acks, writes, breaks, faults>>
  BY DEF Connect, dbVars, clientVars
<1>4. link' = TRUE /\ connects' = connects + 1
  BY DEF Connect
<1>5. LsnTypes' /\ BoundTypes'
  BY <1>0, <1>3, <1>4 DEF LsnTypes, BoundTypes
<1>6. x.pc \notin InTable /\ acks' \in [Ack -> Nat]
  BY <1>0, <1>2, <1>3 DEF InTable, SyncTypes
<1> QED
  BY <1>0, <1>1, <1>2, <1>3, <1>4, <1>5, <1>6, GoesOn DEF StepKeeps, ReplicaTypes

LEMMA DetermineKeeps ==
    ASSUME IInv, NEW s \in Session, DetermineSyncStrategy(s)
    PROVE  StepKeeps(s)
<1> DEFINE x == [sess[s] EXCEPT !.pc = "begin"]
<1>0. TypeOK /\ LinkTypes /\ LsnTypes /\ ReplicaTypes /\ SyncTypes /\ BoundTypes
  BY TypeGroups DEF IInv
<1>1. UNCHANGED <<log, stored, link, toClient, toServer, applying, replica, lowered, flaws, clientLsn,
                  urlLsn, progress, acks, writes, connects, breaks, faults>>
  BY DEF DetermineSyncStrategy, dbVars, netVars, clientVars, bounds
<1>2. LsnTypes' /\ BoundTypes'
  BY <1>0, <1>1, Types DEF LsnTypes, BoundTypes, DetermineSyncStrategy
<1>3. CASE sess' = [sess EXCEPT ![s] = IdleSession]
  BY <1>1, <1>2, <1>3, Leaves
<1>4. CASE sess' = [sess EXCEPT ![s] = x]
  <2>1. x \in SessionType /\ x.pc = "begin" /\ x.done = sess[s].done /\ x.start = sess[s].start
    BY <1>0, Types DEF SessionType
  <2> HIDE DEF x
  <2>2. x.pc \notin InTable /\ acks' \in [Ack -> Nat] /\ link' \in BOOLEAN
    BY <1>0, <1>1, <2>1 DEF InTable, SyncTypes, LinkTypes
  <2> QED
    BY <1>0, <1>1, <1>2, <1>4, <2>1, <2>2, GoesOn DEF StepKeeps, ReplicaTypes
<1>5. sess' = [sess EXCEPT ![s] = IdleSession] \/ sess' = [sess EXCEPT ![s] = x]
  <2>1. sess' = [sess EXCEPT ![s] = IF sess[s].lsn = 0 THEN x ELSE IdleSession]
    BY DEF DetermineSyncStrategy
  <2> QED
    BY <2>1
<1> QED
  BY <1>3, <1>4, <1>5

\* A session that is not in a table, and the progress, of the tables that are done.
LEMMA HasRows ==
    ASSUME UNCHANGED <<log, replica, lowered>>, NEW s \in Session, NEW d, NEW l,
           \A r \in Row : r[1] \in d => Delivered(r, l)
    PROVE  /\ progress'.done = d /\ progress'.start = l => ProgressInv'
           /\ sess'[s].done = d /\ sess'[s].start = l /\ sess'[s].pc \notin InTable => SessionInv(s)'
<1>1. \A r \in Row : r[1] \in d => Delivered(r, l)'
  BY DeliveredSame
<1> QED
  BY <1>1 DEF ProgressInv, SessionInv

LEMMA BeginKeeps ==
    ASSUME IInv, NEW s \in Session, Begin(s)
    PROVE  StepKeeps(s)
<1> DEFINE fresh == progress.status # "in_progress"
           done == IF fresh THEN {} ELSE progress.done
           start == IF fresh THEN Len(log) ELSE progress.start
           x == [sess[s] EXCEPT !.pc = "tables", !.done = done, !.start = start]
           m == [Nothing EXCEPT !.kind = IF fresh THEN "start" ELSE "resume", !.lsn = start]
<1>0. TypeOK /\ LinkTypes /\ LsnTypes /\ ReplicaTypes /\ SyncTypes /\ BoundTypes
  BY TypeGroups DEF IInv
<1>1. /\ sess' = [sess EXCEPT ![s] = x]
      /\ toClient' = Append(toClient, m)
      /\ progress' = [status |-> "in_progress", done |-> done, start |-> start]
  BY DEF Begin, Say, Save
<1>2. done \in SUBSET Table /\ start \in Nat /\ start <= Len(log)
  BY <1>0, Types DEF IInv
<1>3. m \in Message /\ m.kind # "page"
  BY <1>2, MessageTypes
<1>4. ASSUME ProgressInv, NEW r \in Row, r[1] \in done PROVE Delivered(r, start)
  BY <1>4 DEF ProgressInv
<1> HIDE DEF done, start, m
<1>5. x \in SessionType /\ x.pc = "tables" /\ x.done = done /\ x.start = start
  BY <1>0, <1>2, Types DEF SessionType
<1> HIDE DEF x
<1>6. UNCHANGED <<log, stored, link, toServer, applying, replica, lowered, flaws, clientLsn,
                  urlLsn, srvLsn, acks, writes, connects, breaks, faults>>
  BY DEF Begin, dbVars, clientVars, bounds
<1>7. LsnTypes' /\ BoundTypes' /\ link' \in BOOLEAN
  BY <1>0, <1>6 DEF LsnTypes, BoundTypes, LinkTypes
<1>8. progress' \in ProgressType /\ acks' \in [Ack -> Nat]
  BY <1>0, <1>1, <1>2, <1>6 DEF ProgressType, SyncTypes
<1>9. /\ SyncTypes' /\ sess'[s] = x
      /\ \A q \in Session : q # s => sess'[q] = sess[q]
  BY <1>1, <1>5, <1>8, Moves
<1>10. PlaceInv(s)' /\ sess'[s].start <= Len(log) /\ progress'.start <= Len(log)
  BY <1>1, <1>2, <1>5, <1>9 DEF PlaceInv, InTable
<1>11. ASSUME ProgressInv PROVE ProgressInv' /\ SessionInv(s)'
  <2>1. \A r \in Row : r[1] \in done => Delivered(r, start)
    BY <1>4, <1>11
  <2>2. sess'[s].done = done /\ sess'[s].start = start /\ sess'[s].pc \notin InTable
    BY <1>5, <1>9 DEF InTable
  <2>3. progress'.done = done /\ progress'.start = start
    BY <1>1
  <2> QED
    BY <1>6, <2>1, <2>2, <2>3, HasRows
<1>12. PageInv(m)
  BY <1>3 DEF PageInv
<1> QED
  BY <1>0, <1>1, <1>3, <1>6, <1>7, <1>9, <1>10, <1>11, <1>12 DEF StepKeeps, ReplicaTypes


LEMMA NextTableKeeps ==
    ASSUME IInv, NEW s \in Session, NextTable(s)
    PROVE  StepKeeps(s)
<1> DEFINE left == Table \ sess[s].done
           next == CHOOSE t \in left : \A u \in left : t <= u
           x == IF left = {} THEN [sess[s] EXCEPT !.pc = "final"]
                ELSE [sess[s] EXCEPT !.pc = "page", !.t = next, !.p = 1, !.cursor = 0]
<1>0. TypeOK /\ LinkTypes /\ LsnTypes /\ ReplicaTypes /\ SyncTypes /\ BoundTypes
  BY TypeGroups DEF IInv
<1>1. /\ sess' = [sess EXCEPT ![s] = x]
      /\ progress' = [status |-> IF left = {} THEN "complete" ELSE "in_progress",
                      done |-> sess[s].done, start |-> sess[s].start]
  BY DEF NextTable, Save
<1>2. left = {} \/ next \in Table
  <2>1. left \in SUBSET Int /\ IsFiniteSet(left)
    <3>1. left \in SUBSET Table
      OBVIOUS
    <3> QED
      BY <3>1, Tables, FS_Subset
  <2> HIDE DEF left
  <2>2. ASSUME left # {} PROVE next \in left
    <3>1. \E t \in left : \A u \in left : t <= u
      BY <2>1, <2>2, LeastExists
    <3> QED
      BY <3>1
  <2> QED
    BY <2>2 DEF left
<1> HIDE DEF next, left
<1>3. x \in SessionType /\ x.done = sess[s].done /\ x.start = sess[s].start
  <2>1. sess[s] \in SessionType
    BY <1>0, Types
  <2> QED
    BY <1>2, <2>1 DEF SessionType
<1>4. \/ x.pc = "final"
      \/ x.pc = "page" /\ x.t = next /\ x.p = 1 /\ x.cursor = 0 /\ next \in Table
  <2>1. sess[s] \in SessionType
    BY <1>0, Types
  <2> QED
    BY <1>2, <2>1 DEF SessionType
<1> HIDE DEF x
<1>5. UNCHANGED <<log, stored, link, toClient, toServer, applying, replica, lowered, flaws,
                  clientLsn, urlLsn, srvLsn, acks, writes, connects, breaks, faults>>
  BY DEF NextTable, dbVars, netVars, clientVars, bounds
<1>6. LsnTypes' /\ BoundTypes' /\ link' \in BOOLEAN
  BY <1>0, <1>5 DEF LsnTypes, BoundTypes, LinkTypes
<1>7. progress' \in ProgressType /\ acks' \in [Ack -> Nat]
  <2>1. sess[s].done \in SUBSET Table /\ sess[s].start \in Nat
    BY <1>0, Types
  <2> QED
    BY <1>0, <1>1, <1>5, <2>1 DEF ProgressType, SyncTypes
<1>8. /\ SyncTypes' /\ sess'[s] = x
      /\ \A q \in Session : q # s => sess'[q] = sess[q]
  BY <1>1, <1>3, <1>7, Moves
<1>9. sess'[s].start <= Len(log) /\ progress'.start <= Len(log)
  BY <1>1, <1>3, <1>8 DEF IInv
<1>10. PlaceInv(s)'
  <2>1. CASE x.pc = "final"
    BY <1>8, <2>1 DEF PlaceInv, InTable
  <2>2. CASE x.pc = "page" /\ x.t = next /\ x.p = 1 /\ x.cursor = 0 /\ next \in Table
    <3>1. 0 = (1 - 1) * PageSize /\ 0 < Size[next]
      BY <2>2, PageSizePositive, Tables
    <3> QED
      BY <1>8, <2>2, <3>1 DEF PlaceInv
  <2> QED
    BY <1>4, <2>1, <2>2
<1>11. ASSUME SessionInv(s) PROVE ProgressInv' /\ SessionInv(s)'
  <2>1. \A r \in Row : r[1] \in sess[s].done => Delivered(r, sess[s].start)
    BY <1>11 DEF SessionInv
  <2>2. progress'.done = sess[s].done /\ progress'.start = sess[s].start
    BY <1>1
  <2>3. sess'[s].done = sess[s].done /\ sess'[s].start = sess[s].start
    BY <1>3, <1>8
  <2>4. ProgressInv'
    BY <1>5, <2>1, <2>2, HasRows
  <2>5. CASE x.pc = "final"
    <3>1. sess'[s].pc \notin InTable
      BY <1>8, <2>5 DEF InTable
    <3> QED
      BY <1>5, <2>1, <2>3, <2>4, <3>1, HasRows
  <2>6. CASE x.pc = "page" /\ x.t = next /\ x.p = 1 /\ x.cursor = 0 /\ next \in Table
    <3>1. AckedUpTo(s)' = 0
      <4>1. (1 - 1) * PageSize = 0
        BY PageSizePositive
      <4> QED
        BY <1>8, <2>6, <4>1 DEF AckedUpTo
    <3>2. \A r \in Row : ~(r[2] <= 0)
      BY Tables
    <3>3. \A r \in Row : r[1] \in sess[s].done => Delivered(r, sess[s].start)'
      BY <1>5, <2>1, <2>3, DeliveredSame
    <3> QED
      BY <2>3, <2>4, <3>1, <3>2, <3>3 DEF SessionInv
  <2> QED
    BY <1>4, <2>4, <2>5, <2>6
<1> QED
  BY <1>0, <1>5, <1>6, <1>8, <1>9, <1>10, <1>11 DEF StepKeeps, ReplicaTypes

\* A session whose wait ended with an old ack is no longer of interest.
LEMMA SendPageKeeps ==
    ASSUME IInv, NEW s \in Session, SendPage(s)
    PROVE  StepKeeps(s)
<1> DEFINE a == <<sess[s].t, sess[s].p>>
           m == [kind |-> "page", t |-> sess[s].t, p |-> sess[s].p, lsn |-> Len(log),
                 rows |-> { <<r, Version(r, Len(log))>> :
                         r \in {sess[s].t} \X ((sess[s].cursor + 1)..LastId(s)) }]
           x(pc) == [sess[s] EXCEPT !.pc = pc]
<1>0. TypeOK /\ LinkTypes /\ LsnTypes /\ ReplicaTypes /\ SyncTypes /\ BoundTypes
  BY TypeGroups DEF IInv
<1>1. sess[s].pc = "page" /\ toClient' = Append(toClient, m)
  BY DEF SendPage, Say
<1>2. \/ sess' = [sess EXCEPT ![s] = x("await")] /\ UNCHANGED <<acks, flaws>>
      \/ /\ sess' = [sess EXCEPT ![s] = x("acked")] /\ acks' = [acks EXCEPT ![a] = @ - 1]
         /\ acks[a] # 0 /\ flaws' = flaws \cup {"stale"}
  BY DEF SendPage, Wait
<1>3. PlaceInv(s) /\ sess[s].pc \in InTable
  BY <1>1 DEF IInv, InTable
<1>4. /\ a \in Row
      /\ {sess[s].t} \X ((sess[s].cursor + 1)..LastId(s)) = PageRows(sess[s].t, sess[s].p)
  BY <1>3, PageRowsSent
<1>5. m \in Message /\ PageInv(m)
  <2>1. m.rows = { <<r, Version(r, Len(log))>> : r \in PageRows(sess[s].t, sess[s].p) }
    BY <1>4
  <2>2. \A r \in PageRows(sess[s].t, sess[s].p) : r \in Row /\ Version(r, Len(log)) \in Nat
    BY <1>0, Types, VersionIs DEF PageRows
  <2>3. m.rows \in SUBSET (Row \X Nat)
    BY <2>1, <2>2
  <2>4. m.t = sess[s].t /\ m.p = sess[s].p /\ m.lsn = Len(log) /\ m.kind = "page"
    OBVIOUS
  <2>5. m.t \in Nat /\ m.p \in Nat /\ m.lsn \in Nat
    BY <1>0, <1>3, <2>4, Types, Tables DEF PlaceInv
  <2>6. m = [kind |-> m.kind, t |-> m.t, p |-> m.p, lsn |-> m.lsn, rows |-> m.rows]
    OBVIOUS
  <2> HIDE DEF m
  <2>7. m \in Message
    BY <2>3, <2>4, <2>5, <2>6 DEF Message
  <2>8. PageInv(m)
    BY <1>4, <2>1, <2>4, <2>5 DEF PageInv, a
  <2> QED
    BY <2>7, <2>8
<1> HIDE DEF m, a
<1>6. UNCHANGED <<log, stored, link, toServer, applying, replica, lowered, clientLsn,
                  urlLsn, srvLsn, progress, writes, connects, breaks, faults>>
  BY DEF SendPage, dbVars, bounds
<1>7. LsnTypes' /\ BoundTypes' /\ link' \in BOOLEAN
  BY <1>0, <1>6 DEF LsnTypes, BoundTypes, LinkTypes
<1>8. progress' \in ProgressType /\ acks' \in [Ack -> Nat] /\ flaws \subseteq flaws'
      /\ flaws' \subseteq {"skipped", "stale"}
  <2>1. acks \in [Ack -> Nat] /\ a \in Ack /\ progress \in ProgressType
    BY <1>0, <1>4 DEF SyncTypes, Ack
  <2>2. acks[a] # 0 => acks[a] - 1 \in Nat
    BY <2>1
  <2>3. acks' \in [Ack -> Nat]
    BY <1>2, <2>1, <2>2
  <2> QED
    BY <1>0, <1>2, <1>6, <2>1, <2>3 DEF ReplicaTypes
<1>9. ASSUME NEW pc \in {"await", "acked"}, sess' = [sess EXCEPT ![s] = x(pc)]
      PROVE  /\ SyncTypes' /\ sess'[s].pc = pc /\ PlaceInv(s)'
             /\ sess'[s].start = sess[s].start /\ sess'[s].done = sess[s].done
             /\ sess'[s].p = sess[s].p /\ sess'[s].t = sess[s].t
             /\ \A q \in Session : q # s => sess'[q] = sess[q]
  <2>1. /\ x(pc) \in SessionType /\ x(pc).pc = pc
        /\ x(pc).start = sess[s].start /\ x(pc).done = sess[s].done
        /\ x(pc).p = sess[s].p /\ x(pc).t = sess[s].t /\ x(pc).cursor = sess[s].cursor
    <3>1. sess[s] \in SessionType
      BY <1>0, Types
    <3> QED
      BY <3>1 DEF SessionType
  <2> HIDE DEF x
  <2>2. SyncTypes' /\ sess'[s] = x(pc) /\ \A q \in Session : q # s => sess'[q] = sess[q]
    BY <1>8, <1>9, <2>1, Moves
  <2>3. PlaceInv(s)'
    BY <1>3, <2>1, <2>2 DEF PlaceInv
  <2> QED
    BY <2>1, <2>2, <2>3
<1>10. sess' = [sess EXCEPT ![s] = x("await")] \/ sess' = [sess EXCEPT ![s] = x("acked")]
  BY <1>2
<1>11. SyncTypes' /\ PlaceInv(s)' /\ sess'[s].start <= Len(log) /\ progress'.start <= Len(log)
       /\ \A q \in Session : q # s => sess'[q] = sess[q]
  BY <1>6, <1>9, <1>10 DEF IInv
<1>12. ASSUME "stale" \notin flaws', ProgressInv, SessionInv(s) PROVE ProgressInv' /\ SessionInv(s)'
  <2>1. sess' = [sess EXCEPT ![s] = x("await")]
    BY <1>2, <1>12
  <2>2. /\ sess'[s].pc = "await" /\ sess'[s].start = sess[s].start /\ sess'[s].done = sess[s].done
        /\ sess'[s].p = sess[s].p /\ sess'[s].t = sess[s].t
    BY <1>9, <2>1
  <2>3. AckedUpTo(s)' = AckedUpTo(s)
    BY <1>1, <2>2 DEF AckedUpTo
  <2>4. \A r \in Row : Delivered(r, sess[s].start) => Delivered(r, sess[s].start)'
    BY <1>6, <2>2, DeliveredSame
  <2>5. SessionInv(s)'
    BY <1>3, <1>12, <2>2, <2>3, <2>4 DEF SessionInv
  <2>6. ProgressInv'
    BY <1>6, <1>12, DeliveredSame DEF ProgressInv
  <2> QED
    BY <2>5, <2>6
<1> QED
  BY <1>0, <1>1, <1>5, <1>6, <1>7, <1>8, <1>11, <1>12 DEF StepKeeps, ReplicaTypes

LEMMA PageAckedKeeps ==
    ASSUME IInv, NEW s \in Session, PageAcked(s)
    PROVE  StepKeeps(s)
<1> DEFINE t == sess[s].t  p == sess[s].p  end == sess[s].done \cup {sess[s].t}
           x == [sess[s] EXCEPT !.pc = "page", !.p = @ + 1, !.cursor = NextCursor(s)]
           y == [sess[s] EXCEPT !.pc = "tables", !.done = @ \cup {sess[s].t}]
<1>0. TypeOK /\ LinkTypes /\ LsnTypes /\ ReplicaTypes /\ SyncTypes /\ BoundTypes
  BY TypeGroups DEF IInv
<1>1. sess[s].pc = "acked" /\ PlaceInv(s) /\ sess[s].pc \in InTable
  BY DEF PageAcked, IInv, InTable
<1>2. /\ LastPage(s) => Size[t] <= p * PageSize
      /\ ~LastPage(s) => NextCursor(s) = p * PageSize /\ p * PageSize < Size[t]
  BY <1>1, PageRowsSent DEF NextCursor
<1>3. /\ t \in Table /\ p \in Nat \ {0} /\ p * PageSize \in Nat /\ sess[s] \in SessionType
      /\ sess[s].done \in SUBSET Table /\ sess[s].start \in Nat
  BY <1>0, <1>1, Types, PageSizePositive DEF PlaceInv
<1>4. AckedUpTo(s) = p * PageSize
  BY <1>1 DEF AckedUpTo
<1>5. UNCHANGED <<log, stored, link, toClient, toServer, applying, replica, lowered, flaws,
                  clientLsn, urlLsn, srvLsn, acks, writes, connects, breaks, faults>>
  BY DEF PageAcked, dbVars, netVars, clientVars, bounds
<1>6. LsnTypes' /\ BoundTypes' /\ link' \in BOOLEAN /\ acks' \in [Ack -> Nat]
  BY <1>0, <1>5 DEF LsnTypes, BoundTypes, LinkTypes, SyncTypes
<1>7. CASE ~LastPage(s)
  <2>1. sess' = [sess EXCEPT ![s] = x] /\ progress' = progress
    <3>1. sess' = [sess EXCEPT ![s].pc = "page", ![s].p = @ + 1, ![s].cursor = NextCursor(s)]
      BY <1>7 DEF PageAcked
    <3> QED
      BY <1>7, <3>1 DEF PageAcked
  <2>2. /\ x \in SessionType /\ x.pc = "page" /\ x.p = p + 1 /\ x.cursor = p * PageSize
        /\ x.t = t /\ x.done = sess[s].done /\ x.start = sess[s].start
    <3>1. PICK c \in Nat : c = p * PageSize /\ NextCursor(s) = c
      BY <1>2, <1>3, <1>7
    <3>2. PICK n \in Nat : n = p + 1
      BY <1>3
    <3>3. x = [sess[s] EXCEPT !.pc = "page", !.p = n, !.cursor = c]
      BY <3>1, <3>2
    <3>4. x \in SessionType /\ x.pc = "page" /\ x.p = n /\ x.cursor = c
          /\ x.t = t /\ x.done = sess[s].done /\ x.start = sess[s].start
      <4> HIDE DEF x
      <4> QED
        BY <1>3, <3>3 DEF SessionType
    <3> QED
      BY <3>1, <3>2, <3>4
  <2> HIDE DEF x
  <2>3. SyncTypes' /\ sess'[s] = x /\ \A q \in Session : q # s => sess'[q] = sess[q]
    BY <1>0, <1>6, <2>1, <2>2, Moves DEF SyncTypes
  <2>4. p * PageSize = ((p + 1) - 1) * PageSize
    BY <1>3
  <2>5. PlaceInv(s)'
    BY <1>2, <1>3, <1>7, <2>2, <2>3, <2>4 DEF PlaceInv
  <2>6. sess'[s].start <= Len(log) /\ progress'.start <= Len(log)
    BY <2>1, <2>2, <2>3 DEF IInv
  <2>7. ASSUME ProgressInv, SessionInv(s) PROVE ProgressInv' /\ SessionInv(s)'
    <3>1. AckedUpTo(s)' = AckedUpTo(s)
      BY <1>4, <2>2, <2>3, <2>4 DEF AckedUpTo
    <3>2. \A r \in Row : Delivered(r, sess[s].start) => Delivered(r, sess[s].start)'
      BY <1>5, <2>2, <2>3, DeliveredSame
    <3>3. SessionInv(s)'
      BY <1>1, <2>2, <2>3, <2>7, <3>1, <3>2 DEF SessionInv
    <3>4. ProgressInv'
      BY <1>5, <2>1, <2>7, DeliveredSame DEF ProgressInv
    <3> QED
      BY <3>3, <3>4
  <2> QED
    BY <1>0, <1>5, <1>6, <2>3, <2>5, <2>6, <2>7 DEF StepKeeps, ReplicaTypes
<1>8. CASE LastPage(s)
  <2>1. /\ sess' = [sess EXCEPT ![s] = y]
        /\ progress' = [status |-> "in_progress", done |-> end, start |-> sess[s].start]
    BY <1>8 DEF PageAcked, Save
  <2>2. /\ y \in SessionType /\ y.pc = "tables" /\ y.done = end /\ y.start = sess[s].start
    BY <1>3 DEF SessionType
  <2>3. progress' \in ProgressType
    BY <1>3, <2>1 DEF ProgressType
  <2> HIDE DEF y
  <2>4. SyncTypes' /\ sess'[s] = y /\ \A q \in Session : q # s => sess'[q] = sess[q]
    BY <1>6, <2>1, <2>2, <2>3, Moves
  <2>5. PlaceInv(s)' /\ sess'[s].start <= Len(log) /\ progress'.start <= Len(log)
    BY <2>1, <2>2, <2>4 DEF PlaceInv, InTable, IInv
  <2>6. ASSUME SessionInv(s) PROVE ProgressInv' /\ SessionInv(s)'
    <3>1. \A r \in Row : r[1] \in end => Delivered(r, sess[s].start)
      <4>1. ASSUME NEW r \in Row, r[1] = t PROVE r[2] <= AckedUpTo(s)
        <5>1. r[2] \in 1..Size[t] /\ Size[t] \in Nat
          BY <1>3, <4>1, Tables
        <5> QED
          BY <1>2, <1>3, <1>4, <1>8, <5>1
      <4>2. \A r \in Row : r[1] \in end => r[1] \in sess[s].done \/ r[1] = t
        OBVIOUS
      <4> QED
        BY <1>1, <2>6, <4>1, <4>2 DEF SessionInv
    <3> HIDE DEF end
    <3>2. progress'.done = end /\ progress'.start = sess[s].start
      BY <2>1
    <3>3. sess'[s].done = end /\ sess'[s].start = sess[s].start /\ sess'[s].pc \notin InTable
      BY <2>2, <2>4 DEF InTable
    <3> QED
      BY <1>5, <3>1, <3>2, <3>3, HasRows
  <2> QED
    BY <1>0, <1>5, <1>6, <2>4, <2>5, <2>6 DEF StepKeeps, ReplicaTypes
<1> QED
  BY <1>7, <1>8

LEMMA SendCompleteKeeps ==
    ASSUME IInv, NEW s \in Session, SendComplete(s)
    PROVE  StepKeeps(s)
<1> DEFINE m == [Nothing EXCEPT !.kind = "complete", !.lsn = Len(log)]
           x(pc) == [sess[s] EXCEPT !.lsn = Len(log), !.pc = pc]
<1>0. TypeOK /\ LinkTypes /\ LsnTypes /\ ReplicaTypes /\ SyncTypes /\ BoundTypes
  BY TypeGroups DEF IInv
<1>1. Len(log) \in Nat /\ sess[s] \in SessionType /\ sess \in [Session -> SessionType]
  BY <1>0, Types DEF SyncTypes
<1>2. m \in Message /\ PageInv(m)
  BY <1>1, MessageTypes DEF PageInv
<1>3. toClient' = Append(toClient, m)
  BY DEF SendComplete, Say
<1> HIDE DEF m
<1>4. \/ sess' = [sess EXCEPT ![s] = x("awaitProcessed")] /\ UNCHANGED <<acks, flaws>>
      \/ /\ sess' = [sess EXCEPT ![s] = x("processed")]
         /\ acks[<<0, 0>>] # 0 /\ acks' = [acks EXCEPT ![<<0, 0>>] = @ - 1]
         /\ flaws' = flaws \cup {"stale"}
  <2>1. \A pc : [[sess EXCEPT ![s].lsn = Len(log)] EXCEPT ![s].pc = pc] = [sess EXCEPT ![s] = x(pc)]
    BY <1>1
  <2> HIDE DEF x
  <2> QED
    BY <2>1 DEF SendComplete, Wait
<1>5. \A pc \in {"awaitProcessed", "processed"} :
         /\ x(pc) \in SessionType /\ x(pc).pc = pc
         /\ x(pc).done = sess[s].done /\ x(pc).start = sess[s].start
  BY <1>1 DEF SessionType
<1>6. PICK pc \in {"awaitProcessed", "processed"} : sess' = [sess EXCEPT ![s] = x(pc)]
  BY <1>4
<1> HIDE DEF x
<1>7. UNCHANGED <<log, stored, link, toServer, applying, replica, lowered, clientLsn,
                  urlLsn, srvLsn, progress, writes, connects, breaks, faults>>
  BY DEF SendComplete, dbVars, bounds
<1>8. LsnTypes' /\ BoundTypes' /\ link' \in BOOLEAN
  BY <1>0, <1>7 DEF LsnTypes, BoundTypes, LinkTypes
<1>9. acks' \in [Ack -> Nat] /\ flaws \subseteq flaws' /\ flaws' \subseteq {"skipped", "stale"}
  <2>1. acks \in [Ack -> Nat] /\ <<0, 0>> \in Ack
    BY <1>0 DEF SyncTypes, Ack
  <2>2. acks' \in [Ack -> Nat]
    BY <1>4, <2>1
  <2> QED
    BY <1>0, <1>4, <2>2 DEF ReplicaTypes
<1>10. x(pc).pc \notin InTable
  BY <1>5 DEF InTable
<1> QED
  BY <1>0, <1>2, <1>3, <1>5, <1>6, <1>7, <1>8, <1>9, <1>10, GoesOn DEF StepKeeps, ReplicaTypes

LEMMA EndKeeps ==
    ASSUME IInv, NEW s \in Session, UpdateClientLSN(s) \/ NoSocket(s) \/ AckTimeout(s)
    PROVE  StepKeeps(s)
<1>0. TypeOK /\ LsnTypes /\ BoundTypes
  BY TypeGroups DEF IInv
<1>1. UNCHANGED <<log, stored, link, toClient, toServer, applying, replica, lowered, flaws,
                  clientLsn, urlLsn, progress, acks, writes, connects, breaks>>
      /\ sess' = [sess EXCEPT ![s] = IdleSession]
  BY DEF UpdateClientLSN, NoSocket, AckTimeout, dbVars, netVars, clientVars, bounds
<1>2. srvLsn' \in Nat
  BY <1>0, Types DEF UpdateClientLSN, NoSocket, AckTimeout, LsnTypes
<1>3. faults' \in Nat
  BY <1>0 DEF UpdateClientLSN, NoSocket, AckTimeout, bounds, BoundTypes
<1> QED
  BY <1>0, <1>1, <1>2, <1>3, Leaves DEF LsnTypes, BoundTypes

LEMMA SessionStepIInv ==
    ASSUME IInv, NEW s \in Session, Connect(s) \/ SessionStep(s)
    PROVE  IInv'
<1>1. StepKeeps(s)
  BY ConnectKeeps, DetermineKeeps, BeginKeeps, NextTableKeeps, SendPageKeeps, PageAckedKeeps,
     SendCompleteKeeps, EndKeeps DEF SessionStep
<1> QED
  BY <1>1, StepIInv

-----------------------------------------------------------------------------
(* The other steps.                                                        *)

\* They leave a session alone or end it, and do not touch the progress.
OtherKeeps ==
    /\ TypeOK' /\ LogGrows /\ ReplicaGrows /\ progress' = progress /\ flaws \subseteq flaws'
    /\ \A s \in Session : sess'[s] = sess[s] \/ sess'[s] = IdleSession

LEMMA OtherIInv ==
    ASSUME IInv, OtherKeeps, PagesInv', AckedInv'
    PROVE  IInv'
<1>1. \A r \in Row : replica'[r] \in Int
  BY DEF OtherKeeps, TypeOK, Absent
<1>2. /\ \A s \in Session : sess'[s] = sess[s] =>
            /\ PlaceInv(s)' /\ sess'[s].start <= Len(log')
            /\ SessionInv(s) => SessionInv(s)'
      /\ progress'.start <= Len(log') /\ (ProgressInv => ProgressInv')
  BY <1>1, InvariantsKept DEF OtherKeeps
<1>3. ASSUME NEW s \in Session, sess'[s] = IdleSession
      PROVE  PlaceInv(s)' /\ sess'[s].start <= Len(log') /\ SessionInv(s)'
  <2>1. PlaceInv(s)'
    BY <1>3, IdleSessionIs DEF PlaceInv, InTable
  <2>2. 0 <= Len(log')
    BY DEF OtherKeeps, LogGrows
  <2>3. SessionInv(s)'
    BY <1>3, IdleSessionIs DEF SessionInv, InTable
  <2> QED
    BY <1>3, <2>1, <2>2, <2>3, IdleSessionIs
<1>4. \A s \in Session : PlaceInv(s)' /\ sess'[s].start <= Len(log') /\ (SessionInv(s) => SessionInv(s)')
  BY <1>2, <1>3 DEF OtherKeeps
<1>5. "stale" \notin flaws' => ProgressInv' /\ \A s \in Session : SessionInv(s)'
  <2>1. "stale" \notin flaws' => "stale" \notin flaws
    BY DEF OtherKeeps
  <2>2. "stale" \notin flaws => ProgressInv /\ \A s \in Session : SessionInv(s)
    BY DEF IInv
  <2> QED
    BY <1>2, <1>4, <2>1, <2>2
<1> QED
  BY <1>2, <1>4, <1>5 DEF IInv, OtherKeeps

\* Messages that were there, or are not pages, keep what the invariant says.
LEMMA OtherPages ==
    ASSUME IInv, OtherKeeps,
           \A i \in DOMAIN toClient' :
              \/ \E j \in DOMAIN toClient : toClient'[i] = toClient[j]
              \/ toClient'[i].kind # "page",
           \/ applying' \in {applying, Nothing}
           \/ \E j \in DOMAIN toClient : applying' = toClient[j]
    PROVE  PagesInv'
<1>1. \A r \in Row : replica'[r] \in Int
  BY DEF OtherKeeps, TypeOK, Absent
<1>2. \A m \in Message : PageInv(m) => PageInv(m)'
  BY <1>1, InvariantsKept DEF OtherKeeps
<1>3. /\ toClient \in Seq(Message) /\ applying \in Message
      /\ \A j \in DOMAIN toClient : PageInv(toClient[j])
      /\ PageInv(applying)
  BY DEF IInv, PagesInv, TypeOK
<1>4. \A j \in DOMAIN toClient : toClient[j] \in Message
  BY <1>3
<1>5. \A i \in DOMAIN toClient' : PageInv(toClient[i])'
  <2>1. ASSUME NEW i \in DOMAIN toClient', toClient'[i].kind # "page" PROVE PageInv(toClient[i])'
    BY <2>1 DEF PageInv
  <2>2. ASSUME NEW i \in DOMAIN toClient', NEW j \in DOMAIN toClient, toClient'[i] = toClient[j]
        PROVE  PageInv(toClient[i])'
    <3>1. PICK m \in Message : m = toClient[j] /\ PageInv(m)
      BY <1>3, <1>4
    <3>2. PageInv(m)' /\ toClient'[i] = m
      BY <1>2, <2>2, <3>1
    <3> QED
      BY <3>2 DEF PageInv
  <2> QED
    BY <2>1, <2>2
<1>6. PageInv(applying)'
  <2>1. applying' = Nothing => PageInv(applying)'
    BY DEF PageInv, Nothing
  <2>2. ASSUME NEW m \in Message, PageInv(m), applying' = m PROVE PageInv(applying)'
    <3>1. PageInv(m)'
      BY <1>2, <2>2
    <3> QED
      BY <2>2, <3>1 DEF PageInv
  <2>3. CASE applying' = applying
    BY <1>3, <2>2, <2>3
  <2>4. CASE \E j \in DOMAIN toClient : applying' = toClient[j]
    BY <1>3, <1>4, <2>2, <2>4
  <2> QED
    BY <2>1, <2>3, <2>4
<1> QED
  BY <1>5, <1>6 DEF PagesInv

\* Answers that were there keep what the invariant says.
LEMMA OtherAnswers ==
    ASSUME IInv, LogGrows, ReplicaGrows, TypeOK',
           \A i \in DOMAIN toServer' :
              \/ \E j \in DOMAIN toServer : toServer'[i] = toServer[j]
              \/ AnswerInv(toServer[i])'
    PROVE  AckedInv'
<1>1. \A r \in Row : replica'[r] \in Int
  BY DEF TypeOK, Absent
<1>2. \A a \in Answer : AnswerInv(a) => AnswerInv(a)'
  BY <1>1, InvariantsKept
<1>3. \A j \in DOMAIN toServer : toServer[j] \in Answer /\ AnswerInv(toServer[j])
  <2>1. toServer \in Seq(Answer) /\ \A j \in DOMAIN toServer : AnswerInv(toServer[j])
    BY DEF IInv, AckedInv, TypeOK
  <2> QED
    BY <2>1
<1>4. ASSUME NEW i \in DOMAIN toServer', NEW j \in DOMAIN toServer, toServer'[i] = toServer[j]
      PROVE  AnswerInv(toServer[i])'
  <2>1. PICK a \in Answer : a = toServer[j] /\ AnswerInv(a)
    BY <1>3
  <2>2. AnswerInv(a)' /\ toServer'[i] = a
    BY <1>2, <1>4, <2>1
  <2> QED
    BY <2>2 DEF AnswerInv
<1> QED
  BY <1>4 DEF AckedInv

\* When the log, the replica and the sessions stay.
LEMMA Stays ==
    ASSUME IInv, TypeOK',
           UNCHANGED <<log, replica, lowered, progress, sess>>, flaws \subseteq flaws'
    PROVE  OtherKeeps
<1>1. TypeOK
  BY DEF IInv
<1>2. Len(log) \in Nat /\ \A r \in Row : replica[r] \in Int
  BY <1>1, Types
<1>3. LogGrows
  <2>1. Len(log) <= Len(log)
    BY <1>2
  <2> QED
    BY <1>2, <2>1 DEF LogGrows
<1>4. ReplicaGrows
  <2>1. \A r \in Row : replica[r] >= replica[r]
    BY <1>2
  <2> QED
    BY <2>1 DEF ReplicaGrows
<1> QED
  BY <1>3, <1>4 DEF OtherKeeps

LEMMA WriteIInv == IInv /\ Write => IInv'
<1> SUFFICES ASSUME IInv, Write PROVE IInv'
  OBVIOUS
<1>0. TypeOK /\ DbTypes /\ LinkTypes /\ LsnTypes /\ ReplicaTypes /\ SyncTypes /\ BoundTypes
  BY TypeGroups DEF IInv
<1>1. UNCHANGED <<stored, link, toClient, toServer, clientLsn, urlLsn, srvLsn, applying, replica,
                  flaws, lowered, progress, acks, sess, connects, breaks, faults>>
      /\ writes' = writes + 1
  BY DEF Write, netVars, clientVars, doVars
<1>2. PICK r \in Row : log' = Append(log, r)
  BY DEF Write
<1>3. /\ log' \in Seq(Row) /\ Len(log') = Len(log) + 1
      /\ \A i \in 1..Len(log) : log'[i] = log[i]
  BY <1>0, <1>2 DEF DbTypes
<1>4. LogGrows
  BY <1>0, <1>3, Types DEF LogGrows
<1>5. TypeOK'
  <2>1. DbTypes'
    BY <1>0, <1>1, <1>3, Types DEF DbTypes
  <2>2. LinkTypes' /\ LsnTypes' /\ ReplicaTypes' /\ SyncTypes' /\ BoundTypes'
    BY <1>0, <1>1 DEF LinkTypes, LsnTypes, ReplicaTypes, SyncTypes, BoundTypes
  <2> QED
    BY <2>1, <2>2, TypeGroups
<1>6. ReplicaGrows
  <2>1. \A q \in Row : replica[q] >= replica[q]
    BY <1>0, Types
  <2> QED
    BY <1>1, <2>1 DEF ReplicaGrows
<1>7. OtherKeeps
  BY <1>1, <1>4, <1>5, <1>6 DEF OtherKeeps
<1>8. PagesInv'
  BY <1>1, <1>7, OtherPages
<1>9. AckedInv'
  BY <1>1, <1>4, <1>5, <1>6, OtherAnswers
<1> QED
  BY <1>7, <1>8, <1>9, OtherIInv

\* What a live update carries are rows, and its LSN is that of one of them.
LEMMA LiveRows ==
    ASSUME TypeOK, NEW from \in Nat, NEW upto \in Nat, upto <= Len(log)
    PROVE  /\ Rows(from, upto) \in SUBSET (Row \X Nat)
           /\ Rows(from, upto) # {} => LastOf(Rows(from, upto), from)[2] \in Nat
<1> DEFINE rows == Rows(from, upto)
           lastTable == { v \in rows : \A w \in rows : w[1][1] <= v[1][1] }
           At(r) == { l \in DOMAIN log : l > from /\ log[l] = r /\ \A k \in (from+1)..(l-1) : log[k] # r }
           First(r) == CHOOSE l \in DOMAIN log :
               l > from /\ log[l] = r /\ \A k \in (from+1)..(l-1) : log[k] # r
<1>1. log \in Seq(Row) /\ DOMAIN log = 1..Len(log) /\ Len(log) \in Nat
  BY Types
<1>2. ASSUME NEW v \in rows
      PROVE  /\ v \in Row \X Nat /\ v[1] \in Row /\ v[2] \in Nat
             /\ \E l \in (from+1)..upto : log[l] = v[1]
  <2>1. PICK l \in (from+1)..upto : v = <<log[l], l>>
    BY DEF Rows
  <2>2. log[l] \in Row /\ l \in Nat
    BY <1>1
  <2> QED
    BY <2>1, <2>2
<1>3. rows \in SUBSET (Row \X Nat)
  BY <1>2
<1>4. ASSUME NEW v \in rows PROVE First(v[1]) \in DOMAIN log
  <2> DEFINE S == { l \in DOMAIN log : l > from /\ log[l] = v[1] }
  <2>1. S # {} /\ S \in SUBSET (DOMAIN log)
    <3>1. PICK l \in (from+1)..upto : log[l] = v[1]
      BY <1>2
    <3>2. l \in S
      BY <1>1, <3>1
    <3> QED
      BY <3>2
  <2>2. IsFiniteSet(S) /\ S \in SUBSET Int
    BY <1>1, <2>1, PlacesFinite
  <2> HIDE DEF S
  <2>3. PICK l \in S : \A k \in S : l <= k
    BY <2>1, <2>2, LeastExists
  <2>4. l \in DOMAIN log /\ l > from /\ log[l] = v[1]
    BY <2>3 DEF S
  <2>5. ASSUME NEW k \in (from+1)..(l-1) PROVE log[k] # v[1]
    <3>1. k \in DOMAIN log /\ k > from /\ ~(l <= k)
      BY <1>1, <2>4
    <3> QED
      BY <2>3, <3>1 DEF S
  <2> QED
    BY <2>4, <2>5
<1> HIDE DEF rows, First
<1>5. ASSUME rows # {} PROVE lastTable # {}
  <2> DEFINE S == { v[1][1] : v \in rows }
  <2>1. S \in SUBSET Table /\ S # {}
    BY <1>2, <1>5, Tables
  <2>2. IsFiniteSet(S) /\ S \in SUBSET Int
    BY <2>1, Tables, FS_Subset
  <2>3. PICK m \in S : \A x \in S : x <= m
    <3> HIDE DEF S
    <3> QED
      BY <2>1, <2>2, GreatestExists
  <2>4. PICK v \in rows : m = v[1][1]
    BY <2>3
  <2>5. \A w \in rows : w[1][1] <= v[1][1]
    BY <2>3, <2>4
  <2> QED
    BY <2>4, <2>5
<1>6. lastTable \subseteq rows
  OBVIOUS
<1> HIDE DEF lastTable
<1>7. ASSUME lastTable # {} PROVE \E v \in lastTable : \A w \in lastTable : First(w[1]) <= First(v[1])
  <2> DEFINE S == { First(v[1]) : v \in lastTable }
  <2>1. S \in SUBSET (DOMAIN log) /\ S # {}
    BY <1>4, <1>6, <1>7
  <2>2. IsFiniteSet(S) /\ S \in SUBSET Int
    BY <1>1, <2>1, PlacesFinite
  <2>3. PICK m \in S : \A x \in S : x <= m
    <3> HIDE DEF S
    <3> QED
      BY <2>1, <2>2, GreatestExists
  <2>4. PICK v \in lastTable : m = First(v[1])
    BY <2>3
  <2>5. \A w \in lastTable : First(w[1]) <= First(v[1])
    BY <2>3, <2>4
  <2> QED
    BY <2>4, <2>5
<1>8. LastOf(rows, from) = CHOOSE v \in lastTable : \A w \in lastTable : First(w[1]) <= First(v[1])
  BY DEF LastOf, lastTable, First
<1>9. rows # {} => LastOf(rows, from) \in rows
  BY <1>5, <1>6, <1>7, <1>8
<1> QED
  BY <1>2, <1>3, <1>9 DEF rows

LEMMA StoreAndNotifyIInv == IInv /\ StoreAndNotify => IInv'
<1> SUFFICES ASSUME IInv, StoreAndNotify PROVE IInv'
  OBVIOUS
<1>0. TypeOK /\ DbTypes /\ LinkTypes /\ LsnTypes /\ ReplicaTypes /\ SyncTypes /\ BoundTypes
  BY TypeGroups DEF IInv
<1>1. UNCHANGED <<log, link, toServer, clientLsn, urlLsn, applying, replica,
                  flaws, lowered, progress, acks, sess, writes, connects, breaks, faults>>
      /\ stored' = stored + 1 /\ stored < Len(log)
  BY DEF StoreAndNotify, clientVars, bounds
<1>2. stored + 1 \in Nat /\ stored + 1 <= Len(log) /\ srvLsn \in Nat /\ Len(log) \in Nat
  BY <1>0, <1>1, Types DEF LsnTypes
<1> DEFINE rows == Rows(srvLsn, stored + 1)
           m == [Nothing EXCEPT !.kind = "live", !.rows = rows, !.lsn = LastOf(rows, srvLsn)[2]]
<1>3. rows \in SUBSET (Row \X Nat) /\ (rows # {} => LastOf(rows, srvLsn)[2] \in Nat)
  BY <1>0, <1>2, LiveRows
<1>4. \/ srvLsn' \in Nat /\ toClient' = toClient
      \/ /\ rows # {} /\ srvLsn' = LastOf(rows, srvLsn)[2] /\ toClient' = Append(toClient, m)
  <2> HIDE DEF rows
  <2>1. \/ srvLsn' = srvLsn /\ toClient' = toClient
        \/ srvLsn' = stored + 1 /\ toClient' = toClient
        \/ /\ rows # {} /\ srvLsn' = LastOf(rows, srvLsn)[2]
           /\ Say([Nothing EXCEPT !.kind = "live", !.rows = rows, !.lsn = srvLsn'])
    BY DEF StoreAndNotify, rows
  <2> QED
    BY <1>2, <2>1 DEF Say
<1>5. rows # {} => m \in Message /\ m.kind # "page"
  <2> HIDE DEF rows
  <2> QED
    BY <1>3, MessageTypes
<1> HIDE DEF rows, m
<1>6. srvLsn' \in Nat
  BY <1>3, <1>4
<1>7. toClient \in Seq(Message)
  BY <1>0 DEF LinkTypes
<1>8. toClient' \in Seq(Message) /\ \A i \in DOMAIN toClient' :
         \/ \E j \in DOMAIN toClient : toClient'[i] = toClient[j]
         \/ toClient'[i].kind # "page"
  <2>1. CASE toClient' = toClient
    BY <1>7, <2>1
  <2>2. CASE rows # {} /\ toClient' = Append(toClient, m)
    <3>1. \A i \in DOMAIN toClient' : toClient'[i] = m \/ (i \in DOMAIN toClient /\ toClient'[i] = toClient[i])
      BY <1>5, <1>7, <2>2
    <3>2. toClient' \in Seq(Message)
      BY <1>5, <1>7, <2>2
    <3> QED
      BY <1>5, <2>2, <3>1, <3>2
  <2> QED
    BY <1>4, <2>1, <2>2
<1>9. TypeOK'
  <2>1. DbTypes'
    BY <1>0, <1>1, <1>2 DEF DbTypes
  <2>2. LinkTypes' /\ LsnTypes' /\ ReplicaTypes' /\ SyncTypes' /\ BoundTypes'
    BY <1>0, <1>1, <1>6, <1>8 DEF LinkTypes, LsnTypes, ReplicaTypes, SyncTypes, BoundTypes
  <2> QED
    BY <2>1, <2>2, TypeGroups
<1>10. OtherKeeps
  BY <1>1, <1>9, Stays
<1>11. PagesInv'
  BY <1>1, <1>8, <1>10, OtherPages
<1>12. AckedInv'
  BY <1>1, <1>9, <1>10, OtherAnswers DEF OtherKeeps
<1> QED
  BY <1>10, <1>11, <1>12, OtherIInv

LEMMA DeliverIInv == IInv /\ Deliver => IInv'
<1> SUFFICES ASSUME IInv, Deliver PROVE IInv'
  OBVIOUS
<1> DEFINE new == [r \in Row |-> IF Version(r, stored) > srvLsn THEN Version(r, stored) ELSE replica[r]]
<1>0. TypeOK /\ DbTypes /\ LinkTypes /\ LsnTypes /\ ReplicaTypes /\ SyncTypes /\ BoundTypes
  BY TypeGroups DEF IInv
<1>1. UNCHANGED <<log, stored, link, toClient, toServer, urlLsn, applying,
                  flaws, progress, acks, sess, writes, connects, breaks, faults>>
      /\ srvLsn' = stored /\ clientLsn' = stored /\ Overwrite(new)
  BY DEF Deliver, dbVars, netVars, bounds
<1>2. stored \in Nat /\ Len(log) \in Nat /\ Len(log) <= Len(log)
  BY <1>0, Types
<1>3. new \in [Row -> Nat \cup {Absent}]
  <2>1. \A r \in Row : Version(r, stored) \in Nat
    BY <1>2, VersionIs
  <2> QED
    BY <1>0, <2>1 DEF ReplicaTypes
<1> HIDE DEF new
<1>4. \A r \in Row : new[r] \in Int
  BY <1>3 DEF Absent
<1>5. ReplicaGrows
  BY <1>0, <1>1, <1>4, OverwriteGrows
<1>6. LogGrows
  BY <1>1, <1>2 DEF LogGrows
<1>7. TypeOK'
  <2>1. ReplicaTypes'
    BY <1>0, <1>1, <1>3 DEF ReplicaTypes, Overwrite
  <2>2. DbTypes' /\ LinkTypes' /\ LsnTypes' /\ SyncTypes' /\ BoundTypes'
    BY <1>0, <1>1, <1>2 DEF DbTypes, LinkTypes, LsnTypes, SyncTypes, BoundTypes
  <2> QED
    BY <2>1, <2>2, TypeGroups
<1>8. OtherKeeps
  BY <1>1, <1>5, <1>6, <1>7 DEF OtherKeeps
<1>9. PagesInv'
  BY <1>1, <1>8, OtherPages
<1>10. AckedInv'
  BY <1>1, <1>5, <1>6, <1>7, OtherAnswers
<1> QED
  BY <1>8, <1>9, <1>10, OtherIInv

\* The socket closes: Disconnect, Evict and Reload; Hibernate.
LEMMA CloseIInv ==
    ASSUME IInv, UNCHANGED <<log, stored, clientLsn, replica, flaws, lowered, srvLsn, progress,
                             writes, connects, faults>>,
           CloseLink \/ UNCHANGED <<link, toClient, toServer>>,
           urlLsn' \in {urlLsn, clientLsn}, applying' \in {applying, Nothing},
           acks' = acks \/ acks' = [a \in Ack |-> 0],
           sess' = sess \/ sess' = [s \in Session |-> IdleSession],
           breaks' \in {breaks, breaks + 1}
    PROVE  IInv'
<1>0. TypeOK /\ DbTypes /\ LinkTypes /\ LsnTypes /\ ReplicaTypes /\ SyncTypes /\ BoundTypes
  BY TypeGroups DEF IInv
<1>1. Len(log) \in Nat /\ \A r \in Row : replica[r] \in Int
  BY <1>0, Types
<1>2. TypeOK'
  <2>1. DbTypes' /\ LsnTypes' /\ BoundTypes'
    BY <1>0 DEF DbTypes, LsnTypes, BoundTypes
  <2>2. LinkTypes'
    <3>1. << >> \in Seq(Message) /\ << >> \in Seq(Answer)
      OBVIOUS
    <3> QED
      BY <1>0, <3>1 DEF LinkTypes, CloseLink
  <2>3. ReplicaTypes'
    BY <1>0, MessageTypes DEF ReplicaTypes
  <2>4. SyncTypes'
    BY <1>0, IdleSessionIs DEF SyncTypes
  <2> QED
    BY <2>1, <2>2, <2>3, <2>4, TypeGroups
<1>3. LogGrows
  <2>1. Len(log) <= Len(log)
    BY <1>1
  <2> QED
    BY <1>1, <2>1 DEF LogGrows
<1>4. ReplicaGrows
  <2>1. \A q \in Row : replica[q] >= replica[q]
    BY <1>1
  <2> QED
    BY <2>1 DEF ReplicaGrows
<1>5. OtherKeeps
  BY <1>2, <1>3, <1>4 DEF OtherKeeps
<1>6. PagesInv'
  <2>1. \A i \in DOMAIN toClient' : \E j \in DOMAIN toClient : toClient'[i] = toClient[j]
    BY DEF CloseLink
  <2> QED
    BY <1>5, <2>1, OtherPages
<1>7. AckedInv'
  <2>1. \A i \in DOMAIN toServer' : \E j \in DOMAIN toServer : toServer'[i] = toServer[j]
    BY DEF CloseLink
  <2> QED
    BY <1>2, <1>3, <1>4, <2>1, OtherAnswers
<1> QED
  BY <1>5, <1>6, <1>7, OtherIInv

LEMMA BreakIInv == IInv /\ (Disconnect \/ Evict \/ Hibernate \/ Reload) => IInv'
<1> SUFFICES ASSUME IInv, Disconnect \/ Evict \/ Hibernate \/ Reload PROVE IInv'
  OBVIOUS
<1>1. CASE Disconnect
  BY <1>1, CloseIInv DEF Disconnect, dbVars, clientVars, doVars
<1>2. CASE Evict
  BY <1>2, CloseIInv DEF Evict, dbVars, clientVars
<1>3. CASE Hibernate
  BY <1>3, CloseIInv DEF Hibernate, dbVars, clientVars, netVars, bounds
<1>4. CASE Reload
  BY <1>4, CloseIInv DEF Reload, dbVars, doVars
<1> QED
  BY <1>1, <1>2, <1>3, <1>4

LEMMA ApplyErrorIInv == IInv /\ ApplyError => IInv'
<1> SUFFICES ASSUME IInv, ApplyError PROVE IInv'
  OBVIOUS
<1>0. TypeOK /\ DbTypes /\ LinkTypes /\ LsnTypes /\ ReplicaTypes /\ SyncTypes /\ BoundTypes
  BY TypeGroups DEF IInv
<1>1. /\ UNCHANGED <<log, stored, link, toClient, toServer, clientLsn, urlLsn, replica, lowered,
                     srvLsn, progress, acks, sess, writes, connects, breaks>>
      /\ applying' = Nothing /\ flaws' = flaws \cup {"skipped"} /\ faults' = faults + 1
  BY DEF ApplyError, dbVars, netVars, doVars
<1>2. TypeOK'
  <2>1. DbTypes' /\ LinkTypes' /\ LsnTypes' /\ SyncTypes' /\ BoundTypes'
    BY <1>0, <1>1 DEF DbTypes, LinkTypes, LsnTypes, SyncTypes, BoundTypes
  <2>2. ReplicaTypes'
    BY <1>0, <1>1, MessageTypes DEF ReplicaTypes
  <2> QED
    BY <2>1, <2>2, TypeGroups
<1>3. OtherKeeps
  BY <1>1, <1>2, Stays
<1>4. PagesInv'
  BY <1>1, <1>3, OtherPages
<1>5. AckedInv'
  BY <1>1, <1>2, <1>3, OtherAnswers DEF OtherKeeps
<1> QED
  BY <1>3, <1>4, <1>5, OtherIInv

LEMMA ReceiveIInv == IInv /\ Receive => IInv'
<1> SUFFICES ASSUME IInv, Receive PROVE IInv'
  OBVIOUS
<1> DEFINE m == Head(toClient)
           done == [page |-> <<0, 0>>, read |-> m.lsn]
<1>0. TypeOK /\ DbTypes /\ LinkTypes /\ LsnTypes /\ ReplicaTypes /\ SyncTypes /\ BoundTypes
  BY TypeGroups DEF IInv
<1>1. UNCHANGED <<log, stored, link, urlLsn, replica, lowered, srvLsn, progress, acks, sess,
                  writes, connects, breaks, faults>>
      /\ toClient # << >> /\ toClient' = Tail(toClient)
  BY DEF Receive, dbVars, doVars, bounds
<1>2. toClient \in Seq(Message) /\ toServer \in Seq(Answer)
  BY <1>0 DEF LinkTypes
<1>3. m \in Message /\ m = toClient[1] /\ 1 \in DOMAIN toClient /\ toClient' \in Seq(Message)
      /\ \A i \in DOMAIN toClient' : i + 1 \in DOMAIN toClient /\ toClient'[i] = toClient[i + 1]
  BY <1>1, <1>2
<1>4. \/ ReceiveRows(m)
      \/ ReceiveLSN(m)
  BY DEF Receive
<1> HIDE DEF m
<1>5. m.lsn \in Nat /\ done \in Answer
  BY <1>3, MessageTypes DEF Answer, Ack
<1> HIDE DEF done
<1>6. clientLsn' \in Nat
  BY <1>0, <1>4, <1>5 DEF ReceiveRows, ReceiveLSN, LsnTypes
<1>7. /\ applying' = applying \/ applying' = m
      /\ flaws' = flaws \/ flaws' = flaws \cup {"skipped"}
      /\ toServer' = toServer \/ toServer' = Append(toServer, done)
  BY <1>4 DEF ReceiveRows, ReceiveLSN, done
<1>8. TypeOK'
  <2>1. DbTypes' /\ LsnTypes' /\ SyncTypes' /\ BoundTypes'
    BY <1>0, <1>1, <1>6 DEF DbTypes, LsnTypes, SyncTypes, BoundTypes
  <2>2. ReplicaTypes'
    BY <1>0, <1>1, <1>3, <1>7 DEF ReplicaTypes
  <2>3. LinkTypes'
    <3>1. toServer' \in Seq(Answer)
      BY <1>2, <1>5, <1>7
    <3> QED
      BY <1>0, <1>1, <1>3, <3>1 DEF LinkTypes
  <2> QED
    BY <2>1, <2>2, <2>3, TypeGroups
<1>9. OtherKeeps
  BY <1>1, <1>7, <1>8, Stays
<1>10. PagesInv'
  <2>1. applying' \in {applying, Nothing} \/ \E j \in DOMAIN toClient : applying' = toClient[j]
    BY <1>3, <1>7
  <2>2. \A i \in DOMAIN toClient' : \E j \in DOMAIN toClient : toClient'[i] = toClient[j]
    BY <1>3
  <2> QED
    BY <1>9, <2>1, <2>2, OtherPages
<1>11. AckedInv'
  <2>1. ASSUME NEW i \in DOMAIN toServer', toServer'[i] = done PROVE AnswerInv(toServer[i])'
    <3>1. toServer'[i].page[1] = 0
      BY <2>1 DEF done
    <3>2. \A r \in Row : r[1] # 0
      BY Tables
    <3>3. \A r \in PageRows(toServer'[i].page[1], toServer'[i].page[2]) : FALSE
      BY <3>1, <3>2 DEF PageRows
    <3> QED
      BY <3>3 DEF AnswerInv
  <2>2. \A i \in DOMAIN toServer' : toServer'[i] = done \/ \E j \in DOMAIN toServer : toServer'[i] = toServer[j]
    BY <1>2, <1>5, <1>7
  <2> QED
    BY <1>8, <1>9, <2>1, <2>2, OtherAnswers DEF OtherKeeps
<1> QED
  BY <1>9, <1>10, <1>11, OtherIInv

\* The rows of a page are in the replica when it is acked.
LEMMA ApplyIInv == IInv /\ Apply => IInv'
<1> SUFFICES ASSUME IInv, Apply PROVE IInv'
  OBVIOUS
<1> DEFINE In(r) == \E v \in applying.rows : v[1] = r
           new == [r \in Row |-> IF In(r) THEN (CHOOSE v \in applying.rows : v[1] = r)[2] ELSE replica[r]]
           a == [page |-> <<applying.t, applying.p>>, read |-> applying.lsn]
<1>0. TypeOK /\ DbTypes /\ LinkTypes /\ LsnTypes /\ ReplicaTypes /\ SyncTypes /\ BoundTypes
  BY TypeGroups DEF IInv
<1>1. /\ UNCHANGED <<log, stored, link, toClient, clientLsn, urlLsn, flaws, srvLsn, progress, acks,
                     sess, writes, connects, breaks, faults>>
      /\ applying' = Nothing
      /\ \/ toServer' = toServer
         \/ toServer' = Append(toServer, a) /\ applying.kind = "page"
  BY DEF Apply, dbVars, doVars, bounds
<1>2. Overwrite(new)
  BY DEF Apply
<1>3. /\ applying \in Message /\ applying.rows \in SUBSET (Row \X Nat) /\ toServer \in Seq(Answer)
      /\ applying.lsn \in Nat /\ PageInv(applying) /\ Len(log) \in Nat /\ Len(log) <= Len(log)
  BY <1>0, Types DEF ReplicaTypes, Message, LinkTypes, IInv, PagesInv
<1>4. new \in [Row -> Nat \cup {Absent}]
  <2>1. ASSUME NEW r \in Row, In(r) PROVE (CHOOSE v \in applying.rows : v[1] = r)[2] \in Nat
    <3>1. (CHOOSE v \in applying.rows : v[1] = r) \in applying.rows
      BY <2>1
    <3> QED
      BY <1>3, <3>1
  <2>2. \A r \in Row : replica[r] \in Nat \cup {Absent}
    BY <1>0 DEF ReplicaTypes
  <2> HIDE DEF In
  <2> QED
    BY <2>1, <2>2
<1>5. ASSUME applying.kind = "page", NEW r \in PageRows(applying.t, applying.p)
      PROVE  r \in Row /\ new[r] = Version(r, applying.lsn)
  <2>1. applying.rows = { <<q, Version(q, applying.lsn)>> : q \in PageRows(applying.t, applying.p) }
    BY <1>3, <1>5 DEF PageInv
  <2>2. r \in Row
    BY <1>5 DEF PageRows
  <2>3. <<r, Version(r, applying.lsn)>> \in applying.rows
    BY <1>5, <2>1
  <2>4. \A v \in applying.rows : v[1] = r => v = <<r, Version(r, applying.lsn)>>
    BY <2>1
  <2> DEFINE c == CHOOSE v \in applying.rows : v[1] = r
  <2>5. c = <<r, Version(r, applying.lsn)>>
    BY <2>3, <2>4
  <2>6. In(r)
    BY <2>3
  <2>7. new[r] = c[2]
    <3> HIDE DEF In
    <3> QED
      BY <2>2, <2>6
  <2> HIDE DEF new, In, c
  <2> QED
    BY <2>2, <2>5, <2>7
<1> HIDE DEF new
<1>6. \A r \in Row : new[r] \in Int
  BY <1>4 DEF Absent
<1>7. ReplicaGrows
  BY <1>0, <1>2, <1>6, OverwriteGrows
<1>8. LogGrows
  BY <1>1, <1>3 DEF LogGrows
<1>9. applying.kind = "page" => a \in Answer
  BY <1>3 DEF PageInv, Answer, Ack
<1>10. TypeOK'
  <2>1. DbTypes' /\ LsnTypes' /\ SyncTypes' /\ BoundTypes'
    BY <1>0, <1>1 DEF DbTypes, LsnTypes, SyncTypes, BoundTypes
  <2>2. ReplicaTypes'
    BY <1>0, <1>1, <1>2, <1>4, MessageTypes DEF ReplicaTypes, Overwrite
  <2>3. LinkTypes'
    <3> HIDE DEF a
    <3>1. toServer' \in Seq(Answer)
      BY <1>1, <1>3, <1>9
    <3> QED
      BY <1>0, <1>1, <3>1 DEF LinkTypes
  <2> QED
    BY <2>1, <2>2, <2>3, TypeGroups
<1>11. OtherKeeps
  BY <1>1, <1>7, <1>8, <1>10 DEF OtherKeeps
<1>12. PagesInv'
  BY <1>1, <1>11, OtherPages
<1>13. ASSUME NEW i \in DOMAIN toServer', applying.kind = "page", toServer'[i] = a
       PROVE  AnswerInv(toServer[i])'
  <2>1. ASSUME NEW r \in PageRows(applying.t, applying.p)
        PROVE  applying.lsn <= Len(log') /\ Delivered(r, toServer[i].read)'
    <3>1. applying.lsn <= Len(log)
      BY <1>3, <1>13 DEF PageInv
    <3>2. r \in Row /\ replica'[r] = Version(r, applying.lsn)
      BY <1>2, <1>5, <1>13 DEF Overwrite
    <3>3. Version(r, applying.lsn) \in Int
      BY <1>3, VersionIs
    <3>4. replica'[r] >= Version(r, applying.lsn)
      BY <3>2, <3>3
    <3>5. Version(r, toServer[i].read)' = Version(r, applying.lsn)
      BY <1>1, <1>13 DEF Version
    <3> QED
      BY <1>1, <3>1, <3>4, <3>5 DEF Delivered
  <2>2. toServer'[i].page[1] = applying.t /\ toServer'[i].page[2] = applying.p
        /\ toServer'[i].read = applying.lsn
    BY <1>13
  <2> QED
    BY <2>1, <2>2 DEF AnswerInv, PageRows
<1>14. AckedInv'
  <2> HIDE DEF a
  <2>1. \A i \in DOMAIN toServer' :
           \/ applying.kind = "page" /\ toServer'[i] = a
           \/ \E j \in DOMAIN toServer : toServer'[i] = toServer[j]
    BY <1>1, <1>3, <1>9
  <2> QED
    BY <1>7, <1>8, <1>10, <1>13, <2>1, OtherAnswers
<1> QED
  BY <1>11, <1>12, <1>14, OtherIInv

\* A session that an ack wakes has the rows of its page delivered, unless the ack
\* is of a page read before the session started.
LEMMA WokenSession ==
    ASSUME TypeOK, NEW s \in Session, NEW a \in Answer, AnswerInv(a), PlaceInv(s),
           sess[s].pc = "await", Waits(s, a), a.read >= sess[s].start, SessionInv(s),
           NEW r \in Row, r[1] = sess[s].t, r[2] <= sess[s].p * PageSize
    PROVE  Delivered(r, sess[s].start)
<1>1. a.page = <<sess[s].t, sess[s].p>> /\ a.read \in Nat /\ sess[s].start \in Nat
  BY Types DEF Waits, Awaited, Answer
<1>2. sess[s].p \in Nat /\ (sess[s].p - 1) * PageSize \in Int /\ r[2] \in Int
  BY PageSizePositive, Types, Tables
<1>3. CASE r[2] <= (sess[s].p - 1) * PageSize
  <2>1. AckedUpTo(s) = (sess[s].p - 1) * PageSize
    BY DEF AckedUpTo
  <2> QED
    BY <1>3, <2>1 DEF SessionInv, InTable
<1>4. CASE r[2] > (sess[s].p - 1) * PageSize
  <2>1. r \in PageRows(sess[s].t, sess[s].p)
    BY <1>4 DEF PageRows
  <2>2. Delivered(r, a.read)
    BY <1>1, <2>1 DEF AnswerInv
  <2>3. CASE r \in lowered
    BY <2>3 DEF Delivered
  <2>4. CASE r \notin lowered
    <3>1. replica[r] >= Version(r, a.read) /\ replica[r] \in Int
      BY <2>2, <2>4, Types DEF Delivered
    <3>2. Version(r, sess[s].start) <= Version(r, a.read)
      BY <1>1, VersionMonotone
    <3>3. Version(r, a.read) \in Int /\ Version(r, sess[s].start) \in Int
      BY <1>1, VersionIs
    <3>4. replica[r] >= Version(r, sess[s].start)
      BY <3>1, <3>2, <3>3
    <3> QED
      BY <3>4 DEF Delivered
  <2> QED
    BY <2>3, <2>4
<1> QED
  BY <1>2, <1>3, <1>4

LEMMA WebSocketMessageIInv == IInv /\ WebSocketMessage => IInv'
<1> SUFFICES ASSUME IInv, WebSocketMessage PROVE IInv'
  OBVIOUS
<1> DEFINE a == Head(toServer)
           woken(s) == [sess[s] EXCEPT !.pc = IF @ = "await" THEN "acked" ELSE "processed"]
<1>0. TypeOK /\ DbTypes /\ LinkTypes /\ LsnTypes /\ ReplicaTypes /\ SyncTypes /\ BoundTypes
  BY TypeGroups DEF IInv
<1>1. /\ UNCHANGED <<log, stored, link, toClient, clientLsn, urlLsn, applying, replica,
                     lowered, srvLsn, progress, writes, connects, breaks, faults>>
      /\ toServer # << >> /\ toServer' = Tail(toServer)
      /\ acks' = [acks EXCEPT ![a.page] = @ + 1]
      /\ sess' = [s \in Session |-> IF Waits(s, a) THEN woken(s) ELSE sess[s]]
      /\ flaws' = flaws \cup Stale(a)
  BY DEF WebSocketMessage, dbVars, bounds
<1>2. toServer \in Seq(Answer) /\ \A i \in DOMAIN toServer : AnswerInv(toServer[i])
  BY <1>0 DEF LinkTypes, IInv, AckedInv
<1>3. /\ a \in Answer /\ a = toServer[1] /\ 1 \in DOMAIN toServer /\ toServer' \in Seq(Answer)
      /\ \A i \in DOMAIN toServer' : i + 1 \in DOMAIN toServer /\ toServer'[i] = toServer[i + 1]
  BY <1>1, <1>2
<1>4. AnswerInv(a)
  BY <1>2, <1>3
<1> HIDE DEF a
<1>5. Stale(a) \subseteq {"stale"}
  BY DEF Stale
<1>6. ASSUME NEW s \in Session, Waits(s, a)
      PROVE  /\ sess[s].pc \in {"await", "awaitProcessed"} /\ woken(s) \in SessionType
             /\ sess[s].pc = "await" => woken(s).pc = "acked"
             /\ sess[s].pc = "awaitProcessed" => woken(s).pc = "processed"
             /\ woken(s).start = sess[s].start /\ woken(s).done = sess[s].done
             /\ woken(s).t = sess[s].t /\ woken(s).p = sess[s].p /\ woken(s).cursor = sess[s].cursor
  <2>1. sess[s] \in SessionType /\ sess[s].pc \in {"await", "awaitProcessed"}
    BY <1>0, <1>6, Types DEF Waits
  <2> QED
    BY <2>1 DEF SessionType
<1> HIDE DEF woken
<1>7. \A s \in Session : sess'[s] = sess[s] \/ (Waits(s, a) /\ sess'[s] = woken(s))
  BY <1>1
<1>8. TypeOK'
  <2>1. DbTypes' /\ LsnTypes' /\ BoundTypes'
    BY <1>0, <1>1 DEF DbTypes, LsnTypes, BoundTypes
  <2>2. LinkTypes' /\ ReplicaTypes'
    BY <1>0, <1>1, <1>3, <1>5 DEF LinkTypes, ReplicaTypes
  <2>3. SyncTypes'
    <3>1. sess' \in [Session -> SessionType]
      <4>1. \A s \in Session : (IF Waits(s, a) THEN woken(s) ELSE sess[s]) \in SessionType
        BY <1>0, <1>6, Types
      <4> QED
        BY <1>1, <4>1
    <3>2. acks' \in [Ack -> Nat]
      <4>1. acks \in [Ack -> Nat] /\ a.page \in Ack
        BY <1>0, <1>3 DEF SyncTypes, Answer
      <4>2. acks[a.page] + 1 \in Nat
        BY <4>1
      <4> QED
        BY <1>1, <4>1, <4>2
    <3> QED
      BY <1>0, <1>1, <3>1, <3>2 DEF SyncTypes
  <2> QED
    BY <2>1, <2>2, <2>3, TypeGroups
<1>9. LogGrows /\ ReplicaGrows /\ \A r \in Row : replica'[r] \in Int
  <2>1. Len(log) \in Nat /\ Len(log) <= Len(log)
    BY <1>0, Types
  <2>2. \A r \in Row : replica[r] \in Int /\ replica[r] >= replica[r]
    BY <1>0, Types
  <2> QED
    BY <1>1, <2>1, <2>2 DEF LogGrows, ReplicaGrows
<1>10. /\ \A s \in Session : sess'[s] = sess[s] =>
            /\ PlaceInv(s)' /\ sess'[s].start <= Len(log')
            /\ SessionInv(s) => SessionInv(s)'
       /\ progress'.start <= Len(log') /\ (ProgressInv => ProgressInv')
       /\ \A m \in Message : PageInv(m) => PageInv(m)'
  BY <1>1, <1>9, InvariantsKept
<1>11. PagesInv'
  <2>1. /\ toClient \in Seq(Message) /\ applying \in Message
        /\ \A j \in DOMAIN toClient : PageInv(toClient[j])
        /\ PageInv(applying)
    BY <1>0 DEF IInv, PagesInv, LinkTypes, ReplicaTypes
  <2>2. PageInv(applying)'
    BY <1>1, <1>10, <2>1
  <2>3. \A i \in DOMAIN toClient' : PageInv(toClient[i])'
    <3>1. \A i \in DOMAIN toClient : toClient[i] \in Message
      BY <2>1
    <3> QED
      BY <1>1, <1>10, <2>1, <3>1
  <2> QED
    BY <2>2, <2>3 DEF PagesInv
<1>12. AckedInv'
  <2>1. \A i \in DOMAIN toServer' : \E j \in DOMAIN toServer : toServer'[i] = toServer[j]
    BY <1>3
  <2> QED
    BY <1>8, <1>9, <2>1, OtherAnswers
<1>13. ASSUME NEW s \in Session, Waits(s, a), sess'[s] = woken(s)
       PROVE  /\ PlaceInv(s)' /\ sess'[s].start <= Len(log')
              /\ "stale" \notin flaws' /\ SessionInv(s) => SessionInv(s)'
  <2>1. /\ sess[s].pc \in {"await", "awaitProcessed"}
        /\ sess[s].pc = "await" => sess'[s].pc = "acked"
        /\ sess[s].pc = "awaitProcessed" => sess'[s].pc = "processed"
        /\ sess'[s].start = sess[s].start /\ sess'[s].done = sess[s].done
        /\ sess'[s].t = sess[s].t /\ sess'[s].p = sess[s].p /\ sess'[s].cursor = sess[s].cursor
    BY <1>6, <1>13
  <2>2. PlaceInv(s) /\ sess[s].start <= Len(log)
    BY DEF IInv
  <2>3. PlaceInv(s)' /\ sess'[s].start <= Len(log')
    BY <1>1, <2>1, <2>2 DEF PlaceInv, InTable
  <2>4. ASSUME "stale" \notin flaws', SessionInv(s) PROVE SessionInv(s)'
    <3>1. \A r \in Row : Delivered(r, sess[s].start) => Delivered(r, sess[s].start)'
      BY <1>1, <2>1, DeliveredSame
    <3>2. \A r \in Row : r[1] \in sess[s].done => Delivered(r, sess[s].start)
      BY <2>4 DEF SessionInv
    <3>3. CASE sess[s].pc = "awaitProcessed"
      BY <2>1, <3>1, <3>2, <3>3 DEF SessionInv, InTable
    <3>4. CASE sess[s].pc = "await"
      <4>1. Stale(a) = {}
        BY <1>1, <2>4 DEF Stale
      <4>2. ~(a.read < sess[s].start)
        BY <1>13, <3>4, <4>1 DEF Stale
      <4>3. a.read >= sess[s].start
        BY <1>0, <1>3, <4>2, Types DEF Answer
      <4>4. AckedUpTo(s)' = sess[s].p * PageSize
        BY <2>1, <3>4 DEF AckedUpTo
      <4>5. \A r \in Row : r[1] = sess[s].t /\ r[2] <= sess[s].p * PageSize => Delivered(r, sess[s].start)
        BY <1>0, <1>3, <1>4, <1>13, <2>2, <2>4, <3>4, <4>3, WokenSession
      <4> QED
        BY <2>1, <3>1, <3>2, <4>4, <4>5 DEF SessionInv
    <3> QED
      BY <2>1, <3>3, <3>4
  <2> QED
    BY <2>3, <2>4
<1>14. \A s \in Session : /\ PlaceInv(s)' /\ sess'[s].start <= Len(log')
                          /\ "stale" \notin flaws' /\ SessionInv(s) => SessionInv(s)'
  BY <1>7, <1>10, <1>13
<1>15. "stale" \notin flaws' => ProgressInv' /\ \A s \in Session : SessionInv(s)'
  <2>1. "stale" \notin flaws' => ProgressInv /\ \A s \in Session : SessionInv(s)
    BY <1>1 DEF IInv
  <2> QED
    BY <1>10, <1>14, <2>1
<1> QED
  BY <1>8, <1>10, <1>11, <1>12, <1>14, <1>15 DEF IInv

-----------------------------------------------------------------------------
(* The theorems.                                                           *)

LEMMA InitIInv == Init => IInv
<1> SUFFICES ASSUME Init PROVE IInv
  OBVIOUS
<1>1. TypeOK
  BY InitTypeOK
<1>2. /\ progress = NoProgress /\ sess = [s \in Session |-> IdleSession]
      /\ toClient = << >> /\ toServer = << >> /\ applying = Nothing /\ Len(log) \in Nat
  BY <1>1, Types DEF Init
<1>3. progress.start <= Len(log) /\ ProgressInv
  BY <1>2 DEF NoProgress, ProgressInv
<1>4. \A s \in Session : sess[s].start <= Len(log) /\ PlaceInv(s) /\ SessionInv(s)
  BY <1>2, IdleSessionIs DEF PlaceInv, SessionInv, InTable
<1>5. PagesInv
  BY <1>2 DEF PagesInv, PageInv, Nothing
<1>6. AckedInv
  BY <1>2 DEF AckedInv
<1> QED
  BY <1>1, <1>3, <1>4, <1>5, <1>6 DEF IInv

LEMMA NextIInv == IInv /\ [Next]_vars => IInv'
<1> SUFFICES ASSUME IInv, [Next]_vars PROVE IInv'
  OBVIOUS
<1>1. CASE Next
  <2>1. CASE \E s \in Session : Connect(s) \/ SessionStep(s)
    BY <2>1, SessionStepIInv
  <2> QED
    BY <1>1, <2>1, WriteIInv, StoreAndNotifyIInv, DeliverIInv, WebSocketMessageIInv, BreakIInv,
       ReceiveIInv, ApplyIInv, ApplyErrorIInv DEF Next
<1>2. CASE UNCHANGED vars
  <2>1. UNCHANGED <<log, stored, clientLsn, replica, flaws, lowered, srvLsn, progress, writes,
                    connects, faults, link, toClient, toServer, urlLsn, applying, acks, sess, breaks>>
    BY <1>2 DEF vars, dbVars, netVars, clientVars, doVars, bounds
  <2> QED
    BY <2>1, CloseIInv
<1> QED
  BY <1>1, <1>2

LEMMA Invariant == Spec => []IInv
  BY InitIInv, NextIInv, PTL DEF Spec

\* The variables have their types: also what the messages, the acks and the sessions
\* carry, for any tables and any number of syncs at the same time.
THEOREM TypeCorrect == Spec => []TypeOK
<1>1. IInv => TypeOK
  BY DEF IInv
<1> QED
  BY <1>1, Invariant, PTL

\* Whatever breaks, is skipped, comes late or is resumed, the browser has the rows of
\* the tables that SyncDO recorded as completed at least as they were when the sync
\* started, as long as no old ack ended a wait (SyncDO.ts, waitForMessage) and but
\* for rows that fell back.
THEOREM CompletedTablesDelivered == Spec => []TablesDelivered
<1>1. IInv => TablesDelivered
  <2>1. ASSUME IInv, "stale" \notin flaws, NEW r \in Row \ lowered, r[1] \in progress.done
        PROVE  replica[r] >= Version(r, progress.start)
    BY <2>1 DEF IInv, ProgressInv, Delivered
  <2> QED
    BY <2>1 DEF TablesDelivered
<1> QED
  BY <1>1, Invariant, PTL
=============================================================================
