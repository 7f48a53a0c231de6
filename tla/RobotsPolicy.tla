---------------------------- MODULE RobotsPolicy ----------------------------
(***************************************************************************)
(* Obeying robots.txt (robots.rs, robots.py), and the gate for downloads   *)
(* made outside the crawl loop (engine.py, download_async).                *)
(*                                                                         *)
(* Every download passes RobotsTxtMiddleware.process_request.  The first   *)
(* one for an origin fetches its robots.txt, by an internal download of    *)
(* its own; the others wait for the outcome.  Downloads asked for by       *)
(* extensions and pipelines need one of Concurrency permits, which they    *)
(* keep while they wait for a policy; the fetch of a policy needs none.    *)
(***************************************************************************)
EXTENDS Naturals, FiniteSets, SequencesExt

CONSTANTS
    Workers,        \* tasks of the engine's workers
    Callers,        \* tasks of extensions and pipelines
    Origins,
    Pages,
    OriginOf,       \* per page: its scheme, host and port
    Exempt,         \* pages asked for with dont_obey_robotstxt
    Concurrency,    \* CONCURRENT_REQUESTS, the permits of the gate
    MaxHops         \* redirects and retries of an internal download (100)

ASSUME RobotsAssumption ==
    /\ Workers \cap Callers = {}
    /\ IsFiniteSet(Callers)
    /\ Pages # {}
    /\ OriginOf \in [Pages -> Origins]
    /\ Exempt \subseteq Pages
    /\ Concurrency \in Nat \ {0}
    /\ MaxHops \in Nat

VARIABLES
    policy,     \* per origin: what the runtime holds
    allows,     \* per origin: the pages its robots.txt, once there, allows
    closed,
    task,       \* per task: where its download is
    page,       \* per task: the page it asks for
    hops,       \* per task: redirects and retries so far
    gate        \* tasks that wait for a permit, in order

robotsVars == <<policy, allows, closed>>

vars == <<policy, allows, closed, task, page, hops, gate>>

Tasks == Workers \cup Callers

\* "polling": the wait future is about to look at the policy; "asleep": it looked.
States == {"idle", "gate", "checking", "polling", "asleep", "fetching", "downloading"}

Init ==
    /\ policy = [o \in Origins |-> "unknown"]
    /\ allows = [o \in Origins |-> {}]
    /\ closed = FALSE
    /\ task = [t \in Tasks |-> "idle"]
    /\ page = [t \in Tasks |-> CHOOSE p \in Pages : TRUE]
    /\ hops = [t \in Tasks |-> 0]
    /\ gate = <<>>

Origin(t) == OriginOf[page[t]]

InGate == {t \in Callers : task[t] \notin {"idle", "gate"}}

\* The tasks after t left, a permit going to the first that waits for one.
Left(t) ==
    LET gone == [task EXCEPT ![t] = "idle"]
    IN  IF t \in InGate /\ gate # <<>> THEN [gone EXCEPT ![Head(gate)] = "checking"] ELSE gone

GateAfter(t) ==
    IF t \in InGate /\ gate # <<>> THEN Tail(gate) ELSE RemoveFirst(gate, t)

Leaves(t) ==
    /\ task' = Left(t)
    /\ gate' = GateAfter(t)
    /\ UNCHANGED <<page, hops>>

NotifyNobody(o, tasks) == tasks

\* The origin's Notify wakes those that sleep on it.
Notified(o, tasks) ==
    [t \in Tasks |-> IF tasks[t] = "asleep" /\ Origin(t) = o THEN "polling" ELSE tasks[t]]

-----------------------------------------------------------------------------

Ask(t, p) ==
    /\ task[t] = "idle"
    /\ page' = [page EXCEPT ![t] = p]
    /\ hops' = [hops EXCEPT ![t] = 0]
    /\ IF t \in Callers /\ Cardinality(InGate) >= Concurrency
       THEN /\ task' = [task EXCEPT ![t] = "gate"]
            /\ gate' = Append(gate, t)
       ELSE /\ task' = [task EXCEPT ![t] = "checking"]
            /\ UNCHANGED gate
    /\ UNCHANGED robotsVars

Goes(t, state) ==
    /\ task' = [task EXCEPT ![t] = state]
    /\ UNCHANGED <<page, hops, gate>>

CheckAllows(t) ==
    /\ task[t] = "checking"
    /\ \/ page[t] \in Exempt
       \/ ~closed /\ policy[Origin(t)] = "unavailable"
       \/ ~closed /\ policy[Origin(t)] = "ready" /\ page[t] \in allows[Origin(t)]
    /\ Goes(t, "downloading")
    /\ UNCHANGED robotsVars

\* IgnoreRequest, or the error that the runtime is closed.
CheckRaises(t) ==
    /\ task[t] = "checking"
    /\ page[t] \notin Exempt
    /\ closed \/ (policy[Origin(t)] = "ready" /\ page[t] \notin allows[Origin(t)])
    /\ Leaves(t)
    /\ UNCHANGED robotsVars

CheckProceeds(t) ==
    /\ task[t] = "checking"
    /\ page[t] \notin Exempt
    /\ ~closed
    /\ policy[Origin(t)] = "fetching"
    /\ Goes(t, "downloading")
    /\ UNCHANGED robotsVars

CheckWaits(t) ==
    /\ task[t] = "checking"
    /\ page[t] \notin Exempt
    /\ ~closed
    /\ policy[Origin(t)] = "fetching"
    /\ Goes(t, "polling")
    /\ UNCHANGED robotsVars

CheckFetches(t) ==
    /\ task[t] = "checking"
    /\ page[t] \notin Exempt
    /\ ~closed
    /\ policy[Origin(t)] = "unknown"
    /\ policy' = [policy EXCEPT ![Origin(t)] = "fetching"]
    /\ Goes(t, "fetching")
    /\ UNCHANGED <<allows, closed>>

WaitLooks(t) ==
    /\ task[t] = "polling"
    /\ IF closed THEN Leaves(t)
       ELSE Goes(t, IF policy[Origin(t)] = "fetching" THEN "asleep" ELSE "checking")
    /\ UNCHANGED robotsVars

-----------------------------------------------------------------------------

\* complete and fail, for the origin whose robots.txt t fetches.
Settle(t, outcome, tasks) ==
    /\ ~closed
    /\ policy' = [policy EXCEPT ![Origin(t)] = outcome]
    /\ task' = Notified(Origin(t), tasks)
    /\ UNCHANGED closed

FetchAnswered(t) ==
    /\ task[t] = "fetching"
    /\ Settle(t, "ready", [task EXCEPT ![t] = "checking"])
    /\ \E allowed \in SUBSET {p \in Pages : OriginOf[p] = Origin(t)} :
          allows' = [allows EXCEPT ![Origin(t)] = allowed]
    /\ UNCHANGED <<page, hops, gate>>

\* The download, or a receiver of robots_parsed, raises.
FetchFails(t) ==
    /\ task[t] = "fetching"
    /\ Settle(t, "unavailable", [task EXCEPT ![t] = "checking"])
    /\ UNCHANGED <<allows, page, hops, gate>>

\* After close neither complete nor fail knows the origin: the middleware raises.
FetchTooLate(t) ==
    /\ task[t] = "fetching"
    /\ closed
    /\ Leaves(t)
    /\ UNCHANGED robotsVars

\* The task is cancelled in its fetch: the origin counts as unavailable for all others.
FetchCancelled(t) ==
    /\ task[t] = "fetching"
    /\ Settle(t, "unavailable", Left(t))
    /\ gate' = GateAfter(t)
    /\ UNCHANGED <<allows, page, hops>>

Cancelled(t) ==
    /\ task[t] \in {"gate", "polling", "asleep", "downloading"}
    /\ Leaves(t)
    /\ UNCHANGED robotsVars

DownloadEnds(t) ==
    /\ task[t] = "downloading"
    /\ Leaves(t)
    /\ UNCHANGED robotsVars

\* An internal download follows a redirect or a retry itself, through all middleware; a
\* worker's goes back to the scheduler.
DownloadHops(t, p) ==
    /\ task[t] = "downloading"
    /\ t \in Callers
    /\ hops[t] < MaxHops
    /\ task' = [task EXCEPT ![t] = "checking"]
    /\ page' = [page EXCEPT ![t] = p]
    /\ hops' = [hops EXCEPT ![t] = @ + 1]
    /\ UNCHANGED <<robotsVars, gate>>

Close ==
    /\ ~closed
    /\ closed' = TRUE
    /\ policy' = [o \in Origins |-> "unknown"]
    /\ task' = [t \in Tasks |-> IF task[t] = "asleep" THEN "polling" ELSE task[t]]
    /\ UNCHANGED <<allows, page, hops, gate>>

Check(t) == CheckAllows(t) \/ CheckRaises(t) \/ CheckWaits(t) \/ CheckFetches(t)

FetchEnds(t) == FetchAnswered(t) \/ FetchFails(t) \/ FetchTooLate(t)

Next ==
    \/ \E t \in Tasks :
          \/ Check(t) \/ WaitLooks(t) \/ FetchEnds(t) \/ DownloadEnds(t)
          \/ FetchCancelled(t) \/ Cancelled(t)
          \/ \E p \in Pages : Ask(t, p) \/ DownloadHops(t, p)
    \/ Close

\* What is ready runs, and transfers end, by their timeouts if need be.
Fairness ==
    \A t \in Tasks :
        /\ WF_vars(Check(t) \/ WaitLooks(t))
        /\ WF_vars(FetchEnds(t))
        /\ WF_vars(DownloadEnds(t))

Spec == Init /\ [][Next]_vars /\ Fairness

-----------------------------------------------------------------------------

\* The shape of the policies, the downloads and the gate.
RobotsTypeOK ==
    /\ policy \in [Origins -> {"unknown", "fetching", "ready", "unavailable"}]
    /\ allows \in [Origins -> SUBSET Pages]
    /\ closed \in BOOLEAN
    /\ task \in [Tasks -> States]
    /\ page \in [Tasks -> Pages]
    /\ hops \in [Tasks -> 0 .. MaxHops]
    /\ gate \in Seq(Callers)

\* While an origin's policy is being fetched exactly one download fetches it, whichever
\* way downloads end: nobody waits for a fetch that is gone, and none is repeated.
OneFetcher ==
    ~closed => \A o \in Origins :
        Cardinality({t \in Tasks : task[t] = "fetching" /\ Origin(t) = o})
            = (IF policy[o] = "fetching" THEN 1 ELSE 0)

\* A page under download is one the policy of its origin lets through, as it stands now:
\* a policy does not appear, or change its mind, behind a download's back.
DownloadsAreAllowed ==
    ~closed => \A t \in Tasks :
        task[t] = "downloading" /\ page[t] \notin Exempt =>
            \/ policy[Origin(t)] = "unavailable"
            \/ policy[Origin(t)] = "ready" /\ page[t] \in allows[Origin(t)]

\* Nobody sleeps on a policy that is there, or on one that nobody fetches any more.
SleepersAreWoken ==
    \A t \in Tasks : task[t] = "asleep" => ~closed /\ policy[Origin(t)] = "fetching"

\* The policy of an origin is fetched once, asked always and slept on only while it is fetched.
PolicyIsRespected == OneFetcher /\ DownloadsAreAllowed /\ SleepersAreWoken

\* At most Concurrency downloads of extensions and pipelines are under way, they queue only
\* when the permits are out, and everybody who queues stands in line once.
GateIsKept ==
    /\ IsInjective(gate)
    /\ ToSet(gate) = {t \in Tasks : task[t] = "gate"}
    /\ Cardinality(InGate) <= Concurrency
    /\ gate # <<>> => Cardinality(InGate) = Concurrency

\* Every download gets an answer from the policy and the gate sooner or later: fetchers,
\* waiters and those that hold permits never wait for each other.
ChecksEnd ==
    \A t \in Tasks :
        task[t] \notin {"idle", "downloading"} ~> task[t] \in {"idle", "downloading"}
=============================================================================
