------------------------------ MODULE JobStore ------------------------------
(***************************************************************************)
(* The SQLite database of a job directory (job.rs): the table of accepted  *)
(* and not yet completed requests and the table of fingerprints.  Every    *)
(* operation is one transaction, so a process that dies leaves both tables *)
(* as the last committed operation left them.                              *)
(***************************************************************************)
EXTENDS RequestQueues

VARIABLES
    rows,  \* the requests table: the entries that a restart recovers
    fps    \* the fingerprints table

storeVars == <<rows, fps>>

Ids(entries) == {e.id : e \in entries}

\* The request row and the fingerprint are written by one transaction; a
\* request without payload writes only its fingerprint.
StoreSchedule(e) ==
    /\ rows' = IF e.persistent THEN rows \cup {e} ELSE rows
    /\ fps' = IF e.filter THEN fps \cup {e.fp} ELSE fps

StoreComplete(id) ==
    /\ rows' = {r \in rows : r.id # id}
    /\ UNCHANGED fps

NothingRestored == {}

\* What loading adds to the stored fingerprints: those of the recovered requests
\* that are not exempt from duplicate filtering.
RecoveredFps == {r.fp : r \in {s \in rows : s.filter}}
=============================================================================
