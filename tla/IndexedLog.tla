------------------------------ MODULE IndexedLog ------------------------------
(***************************************************************************)
(* What the SPL token indexer promises, with no pages, caches, batches or  *)
(* runs: a log consumer over an append-only history.  The durable cursor  *)
(* (the SPLTokenTransaction checkpoint) only moves forward, and what has   *)
(* been indexed is always the stretch of history from where indexing       *)
(* began up to the cursor, no gap inside it.  A cold start (no cursor yet) *)
(* may begin anywhere; after that every commit extends the stretch right   *)
(* above the cursor, and the cursor eventually reaches the end of the log. *)
(***************************************************************************)
EXTENDS Naturals, Sequences

CONSTANTS
    InitLog,   \* the history when indexing is deployed, oldest first
    MaxLen     \* bound: length of the history

VARIABLES
    log,       \* the history: entries 1 .. Len(log), oldest first
    done,      \* entries that have been indexed
    cursor     \* the newest indexed entry, 0 before the first commit

vars == <<log, done, cursor>>

Init ==
    /\ log = InitLog
    /\ \/ done = {} /\ cursor = 0
       \/ done = 1 .. Len(InitLog) /\ cursor = Len(InitLog)

(* New entries are appended; the old ones never change.                    *)
Grow ==
    /\ Len(log) < Len(log') /\ Len(log') <= MaxLen
    /\ SubSeq(log', 1, Len(log)) = log
    /\ UNCHANGED <<done, cursor>>

(* A commit indexes every entry from just above the cursor (from anywhere *)
(* on a cold start) up to a newer one, which becomes the cursor.           *)
Commit ==
    \E t \in cursor + 1 .. Len(log) :
        \E b \in IF cursor = 0 THEN 1 .. t ELSE {cursor + 1} :
            /\ done' = done \cup (b .. t)
            /\ cursor' = t
            /\ UNCHANGED log

Next == Grow \/ Commit

Spec == Init /\ [][Next]_vars /\ WF_vars(Commit)
=============================================================================
