------------------------------ MODULE CrawlJob ------------------------------
(***************************************************************************)
(* What a crawl with a job directory promises, with no queue, worker or    *)
(* process in sight: a page becomes known once, is owed from then on, and  *)
(* stops being owed only when the spider is through with it; it is owed    *)
(* again only if some of its requests are exempt from duplicate filtering. *)
(* A page that was expanded has all its links known.  Crashes and restarts *)
(* are invisible: they change nothing here.                                *)
(***************************************************************************)
CONSTANTS
    Pages,
    Follows,      \* [Pages -> SUBSET Pages], the links a callback yields requests for
    Forgettable,  \* pages whose requests live in memory only
    Repeatable    \* pages some requests of which are exempt from duplicate filtering

VARIABLES known, owed, expanded

jobVars == <<known, owed, expanded>>

Init ==
    /\ known \in SUBSET Pages
    /\ owed = known
    /\ expanded = {}

Discover(p) ==
    /\ p \notin known
    /\ known' = known \cup {p}
    /\ owed' = IF p \in Forgettable THEN owed ELSE owed \cup {p}
    /\ UNCHANGED expanded

\* An exempt request asks for a page that is known, or a filtered one for a page that only
\* exempt ones asked for so far.
AskAgain(p) ==
    /\ p \in known /\ p \in Repeatable \ Forgettable
    /\ owed' = owed \cup {p}
    /\ UNCHANGED <<known, expanded>>

\* The callback ran and every link it yielded is known.  A second copy of the request
\* (a retry that was stored before a crash) may keep the page owed.
Expand(p) ==
    /\ p \in known
    /\ Follows[p] \subseteq known
    /\ expanded' = expanded \cup {p}
    /\ owed' \in {owed, owed \ {p}}
    /\ UNCHANGED known

\* The download failed for good: the page is dropped without being expanded.
GiveUp(p) ==
    /\ p \in owed
    /\ owed' = owed \ {p}
    /\ UNCHANGED <<known, expanded>>

Next == \E p \in Pages : Discover(p) \/ AskAgain(p) \/ Expand(p) \/ GiveUp(p)

Spec == Init /\ [][Next]_jobVars
=============================================================================
