------------------------------ MODULE Throttle ------------------------------
(***************************************************************************)
(* What download slots promise, whichever engine they belong to: at most   *)
(* Limit[k] transfers of slot k at a time, and Spacing[k] units of time    *)
(* between the starts of two of them.                                      *)
(***************************************************************************)
EXTENDS Naturals, FiniteSets

CONSTANTS
    Keys,       \* slot keys: host names, or the download_slot of a request
    Transfers,
    Limit,      \* per key: the concurrency of the slot
    Spacing     \* per key: the least delay its settings allow

VARIABLES
    running,    \* per key: the transfers under way
    since       \* per key: time since the last start, at most Spacing

vars == <<running, since>>

Init ==
    /\ running = [k \in Keys |-> {}]
    /\ since = Spacing

Start(k, t) ==
    /\ t \notin running[k]
    /\ Cardinality(running[k]) < Limit[k]
    /\ since[k] = Spacing[k]
    /\ running' = [running EXCEPT ![k] = @ \cup {t}]
    /\ since' = [since EXCEPT ![k] = 0]

End(k, t) ==
    /\ t \in running[k]
    /\ running' = [running EXCEPT ![k] = @ \ {t}]
    /\ UNCHANGED since

Tick ==
    /\ since' = [k \in Keys |-> IF since[k] < Spacing[k] THEN since[k] + 1 ELSE since[k]]
    /\ UNCHANGED running

Next ==
    \/ \E k \in Keys, t \in Transfers : Start(k, t) \/ End(k, t)
    \/ Tick

Spec == Init /\ [][Next]_vars
=============================================================================
