---------------------------- MODULE PythonCrawl ----------------------------
(***************************************************************************)
(* The Python crawl engine (CrawlEngine in engine.py) with its scheduler   *)
(* (_scheduler.py, api.py).                                                *)
(*                                                                         *)
(* One loop, crawl(), starts a task per request, waits until any of them,  *)
(* the next start output or the close event is there, and processes the    *)
(* outputs of the completed ones itself, one after the other.  The start   *)
(* producer hands its outputs over through a bounded queue.  All of it     *)
(* runs on the event loop: other tasks move only while crawl() awaits      *)
(* something, that is in every phase but "dispatch".                       *)
(*                                                                         *)
(* A page stands for a request's url and its fingerprint.  The spider is a *)
(* CrawlSpider with a start() of its own, whose requests name _parse as    *)
(* their callback and pass through the duplicate filter.  A request holds  *)
(* the rule it comes from, 0 for start().                                  *)
(***************************************************************************)
EXTENDS RequestQueues, OutputFilters, FiniteSets

CONSTANTS
    Fingerprints,
    StartUrls,       \* the sequence of URLs that start() yields requests for
    Extras,          \* pages an extension schedules on its own while the engine runs
    Rejected,        \* pages a request_scheduled receiver refuses with IgnoreRequest
    Concurrency,     \* CONCURRENT_REQUESTS
    MaxKeepAlive,    \* bound on the DontCloseSpider answers
    Faults,          \* the failures that can happen: a subset of FaultKinds
    MaxFaults        \* bound on how many do

FaultKinds == {"close", "cancel", "retry", "give_up", "raise"}

ASSUME CrawlAssumption ==
    /\ \A url \in DOMAIN Web : Web[url].page \in Fingerprints
    /\ Html \subseteq Fingerprints
    /\ StartUrls \in Seq(DOMAIN Web)
    /\ Extras \subseteq Fingerprints
    /\ Rejected \subseteq Fingerprints
    /\ Concurrency \in Nat \ {0}
    /\ Faults \subseteq FaultKinds
    /\ {MaxKeepAlive, MaxFaults} \subseteq Nat
    /\ {"none", "getting", "done", "failed"} \cap Fingerprints = {}
    /\ DepthLimit = 0 => IsFiniteSet(Fingerprints)

VARIABLES
    phase,       \* where crawl() is
    reason,      \* why the crawl ended
    close,       \* the close event and its waiter: "open", "asked" or "raised"
    wakeup,      \* the _scheduler_wakeup event
    queued,      \* the scheduler's two heaps
    seen,        \* the fingerprints of its duplicate filter
    nextId,      \* its sequence counter
    tasks,       \* the requests whose tasks crawl() has not collected
    results,     \* what completed tasks returned, until it is processed
    current,     \* the completed request whose outputs are being processed
    startLeft,   \* what the producer has still to put: outputs, then how start() ended
    startQueue,  \* the queue between producer and loop
    nextStart    \* the task that gets from it, and what it got

VARIABLES
    faults, extrasLeft, keepAlive,   \* what bounds the environment
    handled,                         \* pages whose callback ran and whose outputs were processed
    gaveUp                           \* pages whose request ended without a callback

schedulerVars == <<queued, seen, nextId, wakeup>>
loopVars == <<phase, reason, close>>
taskVars == <<tasks, results, current>>
startVars == <<startLeft, startQueue, nextStart>>
historyVars == <<extrasLeft, keepAlive, handled, gaveUp>>
vars == <<schedulerVars, loopVars, taskVars, startVars, faults, historyVars>>

Phases == {"dispatch", "select", "batch", "idle", "waiting", "stopping", "ended"}

Signals == {"done", "failed"}

NoEntry == [id |-> 0]

\* A request has no number until it is queued.
RequestsNumbered(ids) ==
    [id : ids, fp : Fingerprints, rule : 0 .. Len(Rules), filter : BOOLEAN, priority : Int,
     start : BOOLEAN, persistent : {FALSE}, depth : Int]

Requests == RequestsNumbered({0})

Entries == RequestsNumbered(Nat \ {0})

Verdicts == {"ok", "retry", "give_up", "raise"}

RequestOf(page, rule) ==
    [id |-> 0, fp |-> page, rule |-> rule, filter |-> TRUE, priority |-> 0, start |-> FALSE,
     persistent |-> FALSE, depth |-> NoDepth]

StartRequestOf(page) == [RequestOf(page, 0) EXCEPT !.start = TRUE]

\* The pages of the requests that the spider middlewares leave of start()'s.
StartPages ==
    LET urls == ProcessStart(StartUrls) IN [i \in DOMAIN urls |-> PageOf(urls[i])]

RetryOf(e) == [e EXCEPT !.id = 0, !.filter = FALSE, !.priority = @ - 1]

IsSeen(r) == r.filter /\ r.fp \in seen

SeenWith(r) == IF r.filter THEN seen \cup {r.fp} ELSE seen

Numbered(r) == [r EXCEPT !.id = nextId]

Pops(e) == e \in queued /\ IsNext(e, queued) /\ queued' = queued \ {e}

\* The requests whose tasks are collected and whose outputs are not processed.
Collected == DOMAIN results \ tasks

Running == tasks \ DOMAIN results

Awaiting == phase \notin {"dispatch", "ended"}

Strikes(kind) == kind \in Faults /\ faults > 0 /\ faults' = faults - 1

Init ==
    /\ phase = "dispatch" /\ reason = "none" /\ close = "open" /\ wakeup = FALSE
    /\ queued = {} /\ seen = {} /\ nextId = 1
    /\ tasks = {} /\ results = <<>> /\ current = NoEntry
    /\ startLeft = StartPages \o <<"done">>
    /\ startQueue = <<>> /\ nextStart = "getting"
    /\ faults = MaxFaults /\ extrasLeft = Extras /\ keepAlive = MaxKeepAlive
    /\ handled = {} /\ gaveUp = {}

-----------------------------------------------------------------------------

PushQuietly(r) ==
    IF r.fp \in Rejected \/ IsSeen(r)
    THEN UNCHANGED schedulerVars
    ELSE /\ queued' = queued \cup {Numbered(r)}
         /\ seen' = SeenWith(r)
         /\ nextId' = nextId + 1
         /\ UNCHANGED wakeup

\* _schedule: a receiver may refuse, the duplicate filter may drop, and a request that
\* is queued sets the wakeup.
Schedule(r) ==
    IF r.fp \in Rejected \/ IsSeen(r)
    THEN UNCHANGED schedulerVars
    ELSE /\ queued' = queued \cup {Numbered(r)}
         /\ seen' = SeenWith(r)
         /\ nextId' = nextId + 1
         /\ wakeup' = TRUE

ExtraSchedules ==
    /\ Awaiting
    /\ \E x \in extrasLeft :
          /\ Schedule(RequestOf(x, 0))
          /\ extrasLeft' = extrasLeft \ {x}
    /\ UNCHANGED <<loopVars, taskVars, startVars, faults, keepAlive, handled, gaveUp>>

-----------------------------------------------------------------------------
(***************************************************************************)
(* The request tasks.                                                      *)
(***************************************************************************)
Returns(e, verdict, outputs) ==
    /\ phase \in {"select", "batch"}
    /\ e \in Running
    /\ results' = [f \in DOMAIN results \cup {e} |->
                      IF f = e THEN [verdict |-> verdict, outputs |-> outputs]
                      ELSE results[f]]
    /\ UNCHANGED <<schedulerVars, loopVars, tasks, current, startVars, historyVars>>

CallbackReturns(e) ==
    /\ LET links == ShortLinks(ParseWithRules(e.fp, e.rule))
           yielded == [i \in DOMAIN links |-> RequestOf(PageOf(links[i].url), links[i].rule)]
       IN  Returns(e, "ok", ProcessSpiderOutput(yielded, e))
    /\ UNCHANGED faults

DownloadFails(e) == Strikes("give_up") /\ Returns(e, "give_up", <<>>)

\* The retry middleware answers the failure with the request's next attempt.
DownloadRetried(e) ==
    /\ e.filter
    /\ Strikes("retry")
    /\ Returns(e, "retry", <<RetryOf(e)>>)

\* CloseSpider from a callback or errback, or a middleware that breaks its contract.
HandlerRaises(e) == Strikes("raise") /\ Returns(e, "raise", <<>>)

-----------------------------------------------------------------------------
(***************************************************************************)
(* The start producer and the task that gets from its queue.               *)
(***************************************************************************)
ProducerPuts ==
    /\ Awaiting /\ phase # "stopping"
    /\ startLeft # <<>>
    /\ Len(startQueue) < 2 * Concurrency
    /\ startQueue' = Append(startQueue, Head(startLeft))
    /\ startLeft' = Tail(startLeft)
    /\ UNCHANGED <<schedulerVars, loopVars, taskVars, nextStart, faults, historyVars>>

\* start() raises: the failure takes its place in the queue.
StartRaises ==
    /\ Awaiting /\ phase # "stopping"
    /\ Strikes("raise")
    /\ startLeft # <<>>
    /\ startLeft' = <<"failed">>
    /\ UNCHANGED <<schedulerVars, loopVars, taskVars, startQueue, nextStart, historyVars>>

GetsStart ==
    /\ Awaiting /\ phase # "stopping"
    /\ nextStart = "getting"
    /\ startQueue # <<>>
    /\ nextStart' = Head(startQueue)
    /\ startQueue' = Tail(startQueue)
    /\ UNCHANGED <<schedulerVars, loopVars, taskVars, startLeft, faults, historyVars>>

-----------------------------------------------------------------------------
(***************************************************************************)
(* close_spider sets the event; its waiter raises when the loop gets to it.*)
(***************************************************************************)
CloseSpider ==
    /\ Awaiting /\ phase # "stopping"
    /\ close = "open"
    /\ Strikes("close")
    /\ close' = "asked"
    /\ UNCHANGED <<schedulerVars, phase, reason, taskVars, startVars, historyVars>>

CloseWaiterRaises ==
    /\ Awaiting /\ phase # "stopping"
    /\ close = "asked"
    /\ close' = "raised"
    /\ UNCHANGED <<schedulerVars, phase, reason, taskVars, startVars, faults, historyVars>>

\* The finally block: crawl() cancels the tasks, which is all it still looks at.
Stops(why) ==
    /\ phase' = "stopping"
    /\ reason' = why
    /\ UNCHANGED close

ReactsToClose ==
    /\ phase \in {"select", "waiting"}
    /\ close = "raised"
    /\ Stops("shutdown")
    /\ UNCHANGED <<schedulerVars, taskVars, startVars, faults, historyVars>>

CrawlCancelled ==
    /\ Awaiting /\ phase # "stopping"
    /\ Strikes("cancel")
    /\ Stops("cancelled")
    /\ UNCHANGED <<schedulerVars, taskVars, startVars, historyVars>>

RunEnds ==
    /\ phase = "stopping"
    /\ phase' = "ended"
    /\ UNCHANGED <<schedulerVars, reason, close, taskVars, startVars, faults, historyVars>>

-----------------------------------------------------------------------------
(***************************************************************************)
(* crawl().  Between its awaits it tops up the tasks from the scheduler.   *)
(***************************************************************************)
HasRoom == Cardinality(tasks) < Concurrency

WorkLeft == queued # {} \/ tasks # {} \/ nextStart # "none"

Dispatch ==
    /\ phase = "dispatch"
    /\ HasRoom
    /\ \E e \in queued : Pops(e) /\ tasks' = tasks \cup {e}
    /\ UNCHANGED <<seen, nextId, wakeup, loopVars, results, current, startVars, faults,
                   historyVars>>

\* Nothing more to start: asyncio.wait until any of what is under way completes.
Select ==
    /\ phase = "dispatch"
    /\ WorkLeft
    /\ HasRoom => queued = {}
    /\ phase' = "select"
    /\ UNCHANGED <<schedulerVars, reason, close, taskVars, startVars, faults, historyVars>>

\* The task that brought a start output is replaced, until there is no more.
DoneKept == IF nextStart \in Fingerprints THEN "getting" ELSE nextStart

Replaced ==
    IF nextStart \in Fingerprints THEN "getting"
    ELSE IF nextStart = "done" THEN "none"
    ELSE nextStart

\* The wait is over: the next start output comes first, then all tasks that have
\* completed by now are collected.
Resume ==
    /\ phase = "select" /\ close # "raised"
    /\ nextStart \in Fingerprints \cup {"done"} \/ DOMAIN results # {}
    /\ nextStart # "failed"
    /\ IF nextStart \in Fingerprints THEN Schedule(StartRequestOf(nextStart))
       ELSE UNCHANGED schedulerVars
    /\ nextStart' = Replaced
    /\ tasks' = Running
    /\ phase' = "batch"
    /\ UNCHANGED <<reason, close, results, current, startLeft, startQueue, faults, historyVars>>

\* What start() raised is raised by crawl(), before any completed task is looked at.
ResumeFails ==
    /\ phase = "select" /\ close # "raised"
    /\ nextStart = "failed"
    /\ \E why \in {"shutdown", "error"} : Stops(why)
    /\ UNCHANGED <<schedulerVars, taskVars, startVars, faults, historyVars>>

TakeResult ==
    /\ phase = "batch" /\ current = NoEntry
    /\ \E e \in Collected : results[e].verdict # "raise" /\ current' = e
    /\ UNCHANGED <<schedulerVars, loopVars, tasks, results, startVars, faults, historyVars>>

\* The exception of a task leaves crawl(): what the batch still holds is not processed.
ResultRaises ==
    /\ phase = "batch" /\ current = NoEntry
    /\ \E e \in Collected : results[e].verdict = "raise"
    /\ \E why \in {"shutdown", "error"} : Stops(why)
    /\ UNCHANGED <<schedulerVars, taskVars, startVars, faults, historyVars>>

ProcessOutput ==
    /\ phase = "batch" /\ current # NoEntry
    /\ results[current].outputs # <<>>
    /\ Schedule(Head(results[current].outputs))
    /\ results' = [results EXCEPT ![current].outputs = Tail(@)]
    /\ UNCHANGED <<loopVars, tasks, current, startVars, faults, historyVars>>

Settled(e) ==
    LET verdict == results[e].verdict
    IN  /\ results' = [f \in DOMAIN results \ {e} |-> results[f]]
        /\ current' = NoEntry
        /\ handled' = IF verdict = "ok" THEN handled \cup {e.fp} ELSE handled
        /\ gaveUp' = IF verdict = "give_up" THEN gaveUp \cup {e.fp} ELSE gaveUp
        /\ UNCHANGED <<schedulerVars, loopVars, tasks, startVars, faults, extrasLeft, keepAlive>>

OutputsForgotten ==
    /\ phase = "batch" /\ current # NoEntry
    /\ Settled(current)

OutputsDone ==
    /\ phase = "batch" /\ current # NoEntry
    /\ results[current].outputs = <<>>
    /\ Settled(current)

BatchDone ==
    /\ phase = "batch" /\ current = NoEntry
    /\ Collected = {}
    /\ phase' = "dispatch"
    /\ UNCHANGED <<schedulerVars, reason, close, taskVars, startVars, faults, historyVars>>

\* Nothing is left: the wakeup is cleared, and spider_idle is sent.
GoesIdle ==
    /\ phase = "dispatch"
    /\ ~WorkLeft
    /\ wakeup' = FALSE
    /\ phase' = "idle"
    /\ UNCHANGED <<queued, seen, nextId, reason, close, taskVars, startVars, faults, historyVars>>

\* A receiver raised DontCloseSpider.
IdleKeepsAlive ==
    /\ phase = "idle"
    /\ keepAlive > 0
    /\ keepAlive' = keepAlive - 1
    /\ phase' = IF queued # {} THEN "dispatch" ELSE "waiting"
    /\ UNCHANGED <<schedulerVars, reason, close, taskVars, startVars, faults, extrasLeft,
                   handled, gaveUp>>

IdleEnds ==
    /\ phase = "idle"
    /\ Stops(IF close = "open" THEN "finished" ELSE "shutdown")
    /\ UNCHANGED <<schedulerVars, taskVars, startVars, faults, historyVars>>

Woke ==
    /\ phase = "waiting" /\ close # "raised"
    /\ wakeup
    /\ phase' = "dispatch"
    /\ UNCHANGED <<schedulerVars, reason, close, taskVars, startVars, faults, historyVars>>

\* The crawl is over, or kept alive for work that never comes.
NothingToDo ==
    /\ phase = "ended" \/ (phase = "waiting" /\ ~wakeup /\ close = "open")
    /\ UNCHANGED vars

-----------------------------------------------------------------------------

LoopStep ==
    \/ Dispatch \/ Select \/ Resume \/ ResumeFails
    \/ TakeResult \/ ResultRaises \/ ProcessOutput \/ OutputsDone \/ BatchDone
    \/ GoesIdle \/ IdleKeepsAlive \/ IdleEnds \/ Woke \/ ReactsToClose \/ RunEnds

TaskReturns(e) ==
    CallbackReturns(e) \/ DownloadFails(e) \/ DownloadRetried(e) \/ HandlerRaises(e)

Next ==
    \/ LoopStep
    \/ \E e \in tasks : TaskReturns(e)
    \/ ProducerPuts \/ StartRaises \/ GetsStart
    \/ ExtraSchedules \/ CloseSpider \/ CloseWaiterRaises \/ CrawlCancelled
    \/ NothingToDo

Spec == Init /\ [][Next]_vars

\* The event loop runs what is ready; downloads end, by their timeout if need be, and
\* start() yields or ends sooner or later.
Fairness ==
    /\ WF_vars(LoopStep)
    /\ WF_vars(\E e \in tasks : TaskReturns(e))
    /\ WF_vars(ProducerPuts)
    /\ WF_vars(GetsStart)
    /\ WF_vars(CloseWaiterRaises)

FairSpec == Spec /\ Fairness

-----------------------------------------------------------------------------

PagesOf(entries) == {e.fp : e \in entries}

\* The shape of the loop's state.
PythonTypeOK ==
    /\ phase \in Phases
    /\ reason \in {"none", "finished", "shutdown", "cancelled", "error"}
    /\ close \in {"open", "asked", "raised"} /\ wakeup \in BOOLEAN
    /\ queued \subseteq Entries /\ tasks \subseteq Entries
    /\ seen \subseteq Fingerprints /\ nextId \in Nat
    /\ DOMAIN results \subseteq Entries
    /\ \A e \in DOMAIN results :
          results[e] \in [verdict : Verdicts, outputs : Seq(Requests)]
    /\ current \in {NoEntry} \cup Collected
    /\ startLeft \in Seq(Fingerprints \cup Signals)
    /\ startQueue \in Seq(Fingerprints \cup Signals)
    /\ nextStart \in Fingerprints \cup Signals \cup {"none", "getting"}

StartsWanted == {PageOf(url) : url \in ToSet(StartUrls) \ LongUrls}

\* A crawl that ends as "finished" asked for everything start() yields and processed the
\* outputs of every task; only what an extension added at the end may be queued.
FinishedIsExhausted ==
    phase = "ended" /\ reason = "finished" =>
        /\ StartsWanted \subseteq seen \cup Rejected
        /\ tasks = {} /\ results = <<>>
        /\ PagesOf(queued) \subseteq Extras

\* The engine does not sleep on its wakeup event while requests are queued.
NoSleepOverPendingWork == phase = "waiting" /\ ~wakeup => queued = {}

\* While fewer requests are in flight than CONCURRENT_REQUESTS allows, crawl() waits over
\* queued requests only if an extension queued them behind its back.
NoIdleCapacity == phase = "select" /\ HasRoom => PagesOf(queued) \subseteq Extras

PagesWanted == [p \in Html |-> {PageOf(w.url) : w \in {v \in Wanted[p] : v.url \notin LongUrls}}]

\* The requests by which a page may come to be asked for, by their depths.
Within == IF DepthLimit = 0 THEN Cardinality(Fingerprints) ELSE DepthLimit
Walks == Walk(StartsWanted \cup Extras, Within)

\* Pages whose every request is one whose links are followed.
Hubs == {p \in Html : \A n \in 0 .. Within : \A r \in Walks[n] :
            r.page = p => (DepthLimit = 0 \/ n < DepthLimit) /\ Parses(p, r.rule)}

LinksToKnow == [p \in Fingerprints |-> IF p \in Hubs THEN PagesWanted[p] \ Rejected ELSE {}]

PagesWithin == {r.page : r \in UNION Range(Walks)}

\* A page gets into the crawl by start(), by an extension, or by links that lead from those
\* to it and that the first rule that takes them does not refuse: no more of them than the
\* depth limit, counted through retries, and the last is one of a page that was parsed.
OnlyWantedIsSeen ==
    /\ seen \subseteq PagesWithin
    /\ seen \subseteq StartsWanted \cup Extras
         \cup UNION {PagesWanted[p] : p \in Html \cap (handled \cup {e.fp : e \in DOMAIN results})}

\* The work of a crawl is what its spider wants.  Work that is there is started: the crawl
\* neither ends over it, nor sleeps over it, nor waits for other work while it has room for it.
WantedWorkIsStarted ==
    OnlyWantedIsSeen /\ FinishedIsExhausted /\ NoSleepOverPendingWork /\ NoIdleCapacity

\* Every crawl ends, or is kept alive and waits for work: crawl() and the producer never
\* wait for each other, and no completed task or start output is waited for again.
CrawlEnds == []<>(phase \in {"waiting", "ended"})

\* The job as the spider's author sees it, without a job directory: what is owed when
\* the crawl ends is lost with the process.
Job == INSTANCE CrawlJob WITH
    Pages <- Fingerprints,
    Follows <- LinksToKnow,
    Forgettable <- {},
    Repeatable <- {},
    known <- seen,
    owed <- PagesOf(queued \cup tasks \cup DOMAIN results),
    expanded <- handled

\* Every step of the Python engine is a step of the job the native engine implements too.
ImplementsJob == Job!Spec
=============================================================================
