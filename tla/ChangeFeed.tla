----------------------------- MODULE ChangeFeed -----------------------------
(***************************************************************************)
(* What the replication side of VibeStack promises to every reader of the  *)
(* change_history table, whatever the poller does in between.              *)
(*                                                                         *)
(* The database commits transactions; each is the set of tracked rows it   *)
(* writes and its LSN is its place in the log.  The table (feed) only      *)
(* grows, holds only committed rows, and whenever a row is visible every   *)
(* earlier row that the replication slot delivers is visible too, unless   *)
(* storing its transaction was reported to fail (gaveUp).  A reader may    *)
(* therefore remember nothing but the highest LSN it has seen.             *)
(***************************************************************************)
EXTENDS Integers, Sequences

CONSTANT Row    \* the tracked rows a transaction can write

VARIABLES
    commits,    \* the committed transactions, in commit order
    origin,     \* LSN at which the slot starts, -1 before the slot exists
    feed,       \* the <<LSN, row>> pairs visible in change_history
    gaveUp      \* LSNs whose transactions met a failing store

vars == <<commits, origin, feed, gaveUp>>

Delivered == { e \in (1..Len(commits)) \X Row :
                  e[1] > origin /\ e[2] \in commits[e[1]] }

\* No visible row has an earlier delivered row that is neither visible nor
\* given up.
Closed == \A e \in feed : \A d \in Delivered :
              d[1] <= e[1] => d \in feed \/ d[1] \in gaveUp

Init ==
    /\ commits = << >>
    /\ origin = -1
    /\ feed = {}
    /\ gaveUp = {}

\* A transaction commits.
Commit ==
    /\ \E rows \in SUBSET Row : commits' = Append(commits, rows)
    /\ UNCHANGED <<origin, feed, gaveUp>>

\* The slot is created: it delivers what commits from now on.
OpenSlot ==
    /\ origin = -1
    /\ origin' = Len(commits)
    /\ UNCHANGED <<commits, feed, gaveUp>>

\* Some transactions may be missing from now on.
GiveUp ==
    /\ \E lsns \in SUBSET (1..Len(commits)) : gaveUp' = gaveUp \cup lsns
    /\ UNCHANGED <<commits, origin, feed>>

\* Rows become visible; the transaction that stores them is itself one of the
\* database, on an untracked table.
Publish ==
    /\ feed \subseteq feed'
    /\ feed' \subseteq Delivered
    /\ Closed'
    /\ commits' = Append(commits, {})
    /\ gaveUp \subseteq gaveUp'
    /\ UNCHANGED origin

Next == Commit \/ OpenSlot \/ GiveUp \/ Publish

Spec == Init /\ [][Next]_vars
=============================================================================
