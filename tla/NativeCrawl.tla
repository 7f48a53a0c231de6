---------------------------- MODULE NativeCrawl ----------------------------
(***************************************************************************)
(* The native crawl engine (NativeCrawlEngine in engine.py) driving the    *)
(* coordinator, through any number of crashes, cancellations and resumes   *)
(* of one job.                                                             *)
(*                                                                         *)
(* Everything but next_request and wait_for_pending_slot runs on the       *)
(* event loop, so a step of this module is what one task does between two  *)
(* awaits; only inside _schedule, between schedule and activate, can the   *)
(* Tokio threads look at the coordinator, and there the loop is busy: no   *)
(* other task moves until the request is activated.                        *)
(*                                                                         *)
(* A page stands for a request's url and its fingerprint.                  *)
(***************************************************************************)
EXTENDS CrawlCoordinator, Sequences

CONSTANTS
    Links,           \* [Fingerprints -> Seq(Fingerprints)]: what a page's callback yields
    StartPages,      \* the sequence of pages that start() yields
    ExemptStarts,    \* start pages yielded with dont_filter, as the default start() does
    ExemptLinks,     \* pages that callbacks and extensions ask for with dont_filter
    Extras,          \* pages an extension schedules on its own while the engine runs
    Callbacks,       \* [Fingerprints -> names]: the function that a page's requests call
    SpiderMethods,   \* the names that are bound methods of the running spider
    Unpicklable,     \* pages whose requests carry something that pickle refuses
    Rejected,        \* pages a request_scheduled receiver refuses with IgnoreRequest
    MaxRuns,         \* bound on the processes that work on the job
    MaxKeepAlive,    \* bound on the DontCloseSpider answers of a run
    Faults,          \* the failures that can happen: a subset of FaultKinds
    MaxFaults        \* bound on how many do

FaultKinds == {"crash", "close", "retry", "give_up", "raise", "store", "unreadable"}

ASSUME CrawlAssumption ==
    /\ IsFiniteSet(Callers) /\ Cardinality(Callers) = Concurrency
    /\ {0, -1} \subseteq Priorities
    /\ Links \in [Fingerprints -> Seq(Fingerprints)]
    /\ StartPages \in Seq(Fingerprints)
    /\ {ExemptStarts, ExemptLinks, Extras} \subseteq SUBSET Fingerprints
    /\ DOMAIN Callbacks = Fingerprints
    /\ Unpicklable \subseteq Fingerprints
    /\ Rejected \subseteq Fingerprints
    /\ Faults \subseteq FaultKinds
    /\ {MaxRuns, MaxKeepAlive, MaxFaults} \subseteq Nat

VARIABLES
    phase,        \* where crawl() is
    reason,       \* why the crawl ended
    closing,      \* close_spider was called
    wakeup,       \* the _scheduler_wakeup event
    registered,   \* _requests: the requests behind the ids
    pc,           \* per worker task: where it is
    work,         \* per worker: the request it took
    todo,         \* per worker: outputs still to be processed
    verdict,      \* per worker: what the outputs are: "ok", "retry" or "give_up"
    producer,     \* the start producer task: where it is
    startLeft     \* what start() has still to yield

VARIABLES
    faults,                        \* how many more failures happen
    extrasLeft, runs, keepAlive,   \* what else bounds the environment
    asked,        \* pages a request of which was accepted, filtered or not
    handled,      \* pages whose callback ran and whose outputs were processed
    gaveUp        \* pages whose request ended without a callback

loopVars ==
    <<phase, reason, closing, wakeup, registered, pc, work, todo, verdict,
      producer, startLeft>>

historyVars == <<extrasLeft, runs, keepAlive, asked, handled, gaveUp>>

envVars == <<faults, historyVars>>

taskVars == <<pc, work, todo, verdict>>

producerVars == <<producer, startLeft>>

crawlVars == <<phase, reason, closing, wakeup, registered>>

allVars == <<vars, loopVars, envVars>>

Phases == {"down", "crawl", "idle", "waiting", "stopping", "ended"}

WorkerStates == {"none", "asking", "handling", "output", "failing", "exited", "failed"}

ProducerStates == {"none", "iterating", "granted", "failing", "done", "failed"}

Verdicts == {"ok", "retry", "give_up"}

NoEntry == [id |-> NoRequest]

\* A callback is written down as the name it has on the spider.
HasName(page) == Callbacks[page] \in SpiderMethods

\* serialize_request refuses them: these requests live in memory only.
Unserializable == {page \in Fingerprints : ~HasName(page)} \cup Unpicklable

\* A request that is exempt from duplicate filtering goes through each time it is yielded,
\* start requests again in each run, and leaves no fingerprint.
Exempt(page, isStart) == page \in (IF isStart THEN ExemptStarts ELSE ExemptLinks)

RequestOf(page, isStart) ==
    [fp |-> page, filter |-> ~Exempt(page, isStart), priority |-> 0, start |-> isStart,
     persistent |-> Persistent /\ page \notin Unserializable]

\* Of the requests here only a retry has another priority than the default one.
FirstAttempt(r) == r.priority = 0

\* get_retry_request: the same request, exempt from filtering and of lower priority.
RetryOf(e) ==
    [fp |-> e.fp, filter |-> FALSE, priority |-> e.priority - 1, start |-> e.start,
     persistent |-> Persistent /\ e.fp \notin Unserializable]

PagesOf(entries) == {e.fp : e \in entries}

RequestsTo(pages) == [i \in DOMAIN pages |-> RequestOf(pages[i], FALSE)]

\* A failure of this kind happens; orderly steps leave what failures remain alone.
Strikes(kind) == kind \in Faults /\ faults > 0 /\ faults' = faults - 1

Orderly == UNCHANGED faults

\* The loop runs tasks only when no _schedule is between its two halves.
LoopFree == up /\ staged = {}
-----------------------------------------------------------------------------

\* Every task and every bit of memory is gone; the store is not.
Forget ==
    /\ registered' = {}
    /\ pc' = [w \in Callers |-> "none"]
    /\ work' = [w \in Callers |-> NoEntry]
    /\ todo' = [w \in Callers |-> <<>>]
    /\ verdict' = [w \in Callers |-> "ok"]
    /\ producer' = "none"
    /\ startLeft' = <<>>
    /\ wakeup' = FALSE
    /\ closing' = FALSE

CrawlInit ==
    /\ Init
    /\ rows = {}
    /\ phase = "down" /\ reason = "none"
    /\ closing = FALSE /\ wakeup = FALSE
    /\ registered = {}
    /\ pc = [w \in Callers |-> "none"]
    /\ work = [w \in Callers |-> NoEntry]
    /\ todo = [w \in Callers |-> <<>>]
    /\ verdict = [w \in Callers |-> "ok"]
    /\ producer = "none" /\ startLeft = <<>>
    /\ faults = MaxFaults
    /\ extrasLeft = Extras /\ runs = 0 /\ keepAlive = MaxKeepAlive
    /\ asked = {} /\ handled = {} /\ gaveUp = {}

(***************************************************************************)
(* A process opens the job: the recovered requests are registered under    *)
(* their ids and start() is asked from its beginning.                      *)
(***************************************************************************)
StartRun ==
    /\ phase \in {"down", "ended"}
    /\ runs < MaxRuns
    /\ Open
    /\ runs' = runs + 1
    /\ phase' = "crawl" /\ reason' = "none"
    /\ closing' = FALSE /\ wakeup' = FALSE
    /\ registered' = rows
    /\ pc' = [w \in Callers |-> "asking"]
    /\ producer' = "iterating" /\ startLeft' = StartPages
    /\ UNCHANGED <<work, todo, verdict, faults, extrasLeft, keepAlive, asked, handled,
                   gaveUp>>

Unresolved(method) == {e \in rows : Callbacks[e.fp] = method}

\* The spider of this process lacks a method that a stored request names: the engine is not
\* built.  The fingerprints of the requests before that one have been restored by then.
StartFails ==
    /\ phase \in {"down", "ended"}
    /\ runs < MaxRuns
    /\ Strikes("unreadable")
    /\ \E missing \in {Callbacks[e.fp] : e \in rows} :
         fps' = fps \cup PagesOf({e \in rows :
                    e.filter /\ \A u \in Unresolved(missing) : e.id < u.id})
    /\ phase' = "down"
    /\ UNCHANGED <<coordinatorVars, callVars, rows, reason, closing, wakeup, registered,
                   taskVars, producerVars, historyVars>>

Crash ==
    /\ Strikes("crash")
    /\ Leave
    /\ Forget
    /\ phase' = "down"
    /\ UNCHANGED <<reason, historyVars>>

-----------------------------------------------------------------------------
(***************************************************************************)
(* _schedule.  A receiver may refuse the request, the duplicate filter may *)
(* drop it; an accepted one is registered, and the scheduler wakeup set,   *)
(* before it is activated.                                                 *)
(***************************************************************************)
Refused(r) == r.fp \in Rejected \/ (r.filter /\ r.fp \in seen)

TrySchedule(r) ==
    IF Refused(r)
    THEN UNCHANGED <<vars, asked>>
    ELSE Schedule(Numbered(r, nextId)) /\ asked' = asked \cup {r.fp}

ScheduleRaises(r) ==
    /\ Strikes("store")
    /\ ~Refused(r)
    /\ ScheduleFails(Numbered(r, nextId))

FinishSchedule ==
    \E e \in staged :
        /\ Activate(e)
        /\ registered' = registered \cup {e}
        /\ wakeup' = TRUE
        /\ UNCHANGED <<phase, reason, closing, taskVars, producerVars, envVars>>

\* Another task of the process schedules a request of its own: a background task of an
\* extension, or a receiver of spider_idle while that signal is being sent.
ExtraSchedules ==
    /\ LoopFree
    /\ phase \in {"crawl", "idle", "waiting"}
    /\ \E x \in extrasLeft :
          /\ TrySchedule(RequestOf(x, FALSE))
          /\ extrasLeft' = extrasLeft \ {x}
    /\ UNCHANGED <<loopVars, faults, runs, keepAlive, handled, gaveUp>>

-----------------------------------------------------------------------------

\* An id arrives and its request is taken out of the registry.
WorkerTakes(w) ==
    /\ LoopFree /\ phase = "crawl"
    /\ pc[w] = "asking"
    /\ TakeAnswer(w)
    /\ \E e \in registered :
          /\ e.id = got[w]
          /\ registered' = registered \ {e}
          /\ work' = [work EXCEPT ![w] = e]
    /\ pc' = [pc EXCEPT ![w] = "handling"]
    /\ UNCHANGED <<phase, reason, closing, wakeup, todo, verdict, producerVars, envVars>>

WorkerLeavesOnNone(w) ==
    /\ LoopFree /\ phase = "crawl"
    /\ pc[w] = "asking"
    /\ got[w] = NoRequest
    /\ TakeAnswer(w)
    /\ pc' = [pc EXCEPT ![w] = "exited"]
    /\ UNCHANGED <<crawlVars, work, todo, verdict, producerVars, envVars>>

\* None arrives: scheduler_empty is sent, and the worker leaves when all is done by now.
WorkerToldNone(w) ==
    /\ LoopFree /\ phase = "crawl"
    /\ pc[w] = "asking"
    /\ got[w] = NoRequest
    /\ TakeAnswer(w)
    /\ pc' = IF Drained THEN [pc EXCEPT ![w] = "exited"] ELSE pc
    /\ UNCHANGED <<crawlVars, work, todo, verdict, producerVars, envVars>>

Handled(w, v, outputs) ==
    /\ LoopFree /\ phase = "crawl"
    /\ pc[w] = "handling"
    /\ pc' = [pc EXCEPT ![w] = "output"]
    /\ verdict' = [verdict EXCEPT ![w] = v]
    /\ todo' = [todo EXCEPT ![w] = outputs]
    /\ UNCHANGED <<vars, crawlVars, work, producerVars, historyVars>>

CallbackReturns(w) == Orderly /\ Handled(w, "ok", RequestsTo(Links[work[w].fp]))

\* The download fails and no errback recovers, or a middleware ignores the request.
DownloadFails(w) == Strikes("give_up") /\ Handled(w, "give_up", <<>>)

\* The retry middleware answers the failure with the next attempt; max_retry_times is one.
DownloadRetried(w) ==
    /\ Strikes("retry")
    /\ pc[w] = "handling" /\ FirstAttempt(work[w])
    /\ Handled(w, "retry", <<RetryOf(work[w])>>)

WorkerSchedules(w) ==
    /\ LoopFree /\ phase = "crawl"
    /\ pc[w] = "output"
    /\ todo[w] # <<>>
    /\ TrySchedule(Head(todo[w]))
    /\ todo' = [todo EXCEPT ![w] = Tail(@)]
    /\ UNCHANGED <<crawlVars, pc, work, verdict, producerVars, faults, extrasLeft, runs,
                   keepAlive, handled, gaveUp>>

\* Only when all outputs went through does the request leave the store.
WorkerCompletes(w) ==
    /\ LoopFree /\ phase = "crawl"
    /\ pc[w] = "output"
    /\ todo[w] = <<>>
    /\ Complete(work[w].id)
    /\ pc' = [pc EXCEPT ![w] = "asking"]
    /\ work' = [work EXCEPT ![w] = NoEntry]
    /\ verdict' = [verdict EXCEPT ![w] = "ok"]
    /\ handled' = IF verdict[w] = "ok" THEN handled \cup {work[w].fp} ELSE handled
    /\ gaveUp' = IF verdict[w] = "give_up" THEN gaveUp \cup {work[w].fp} ELSE gaveUp
    /\ UNCHANGED <<crawlVars, todo, producerVars, faults, extrasLeft, runs, keepAlive, asked>>

Fails(w, state) ==
    /\ pc' = [pc EXCEPT ![w] = state]
    /\ UNCHANGED <<crawlVars, work, todo, verdict, producerVars, historyVars>>

\* A callback or errback raises CloseSpider, a middleware breaks its contract.
HandlerRaises(w) ==
    /\ Strikes("raise")
    /\ LoopFree /\ phase = "crawl"
    /\ pc[w] = "handling"
    /\ Fails(w, "failing")
    /\ UNCHANGED vars

WorkerScheduleRaises(w) ==
    /\ LoopFree /\ phase = "crawl"
    /\ pc[w] = "output"
    /\ todo[w] # <<>>
    /\ ScheduleRaises(Head(todo[w]))
    /\ Fails(w, "failing")

\* complete cannot delete the row: it raises outside of the handler that releases.
CompleteRaises(w) ==
    /\ Strikes("store")
    /\ LoopFree /\ phase = "crawl"
    /\ pc[w] = "output"
    /\ todo[w] = <<>>
    /\ Fails(w, "failed")
    /\ UNCHANGED vars

\* The except clauses of the worker: the request is released, its row stays.
WorkerReleases(w) ==
    /\ LoopFree
    /\ pc[w] = "failing"
    /\ Release(work[w].id)
    /\ pc' = [pc EXCEPT ![w] = "failed"]
    /\ work' = [work EXCEPT ![w] = NoEntry]
    /\ todo' = [todo EXCEPT ![w] = <<>>]
    /\ verdict' = [verdict EXCEPT ![w] = "ok"]
    /\ UNCHANGED <<crawlVars, producerVars, envVars>>
-----------------------------------------------------------------------------
(***************************************************************************)
(* The start producer waits for a slot before each start request.  When it *)
(* is told that there is one, other tasks may have filled it meanwhile.    *)
(***************************************************************************)
ProducerTold ==
    /\ LoopFree /\ phase = "crawl"
    /\ producer = "iterating"
    /\ slotCall = "granted"
    /\ TakeSlot
    /\ producer' = "granted"
    /\ UNCHANGED <<crawlVars, taskVars, startLeft, envVars>>

ProducerSchedules ==
    /\ LoopFree /\ phase = "crawl"
    /\ producer = "granted"
    /\ TrySchedule(RequestOf(Head(startLeft), TRUE))
    /\ producer' = "iterating"
    /\ startLeft' = Tail(startLeft)
    /\ UNCHANGED <<crawlVars, taskVars, faults, extrasLeft, runs, keepAlive, handled, gaveUp>>

\* start() itself raises, or scheduling what it yielded does.
ProducerRaises ==
    /\ LoopFree /\ phase = "crawl"
    /\ \/ producer = "iterating" /\ Strikes("raise") /\ UNCHANGED vars
       \/ /\ producer = "granted"
          /\ ScheduleRaises(RequestOf(Head(startLeft), TRUE))
    /\ producer' = "failing"
    /\ UNCHANGED <<crawlVars, taskVars, startLeft, historyVars>>

\* However the producer ends, it closes the input.
ProducerEnds ==
    /\ LoopFree
    /\ \/ producer = "iterating" /\ phase = "crawl" /\ startLeft = <<>> /\ producer' = "done"
       \/ producer = "failing" /\ producer' = "failed"
    /\ CloseInput
    /\ UNCHANGED <<crawlVars, taskVars, startLeft, envVars>>

-----------------------------------------------------------------------------
(***************************************************************************)
(* crawl().  A pass is over when every worker and the producer returned.   *)
(* Between the return of the last one and the resumption of crawl(), which *)
(* clears the wakeup and sends spider_idle, the loop runs other tasks.     *)
(***************************************************************************)
PassEnds ==
    /\ LoopFree /\ phase = "crawl"
    /\ \A w \in Callers : pc[w] = "exited"
    /\ producer = "done"
    /\ wakeup' = FALSE
    /\ phase' = "idle"
    /\ UNCHANGED <<vars, reason, closing, registered, taskVars, producerVars, envVars>>

NewPass ==
    /\ phase' = "crawl"
    /\ pc' = [w \in Callers |-> "asking"]

\* A receiver of spider_idle raised DontCloseSpider.
IdleKeepsAlive ==
    /\ LoopFree /\ phase = "idle"
    /\ keepAlive > 0
    /\ keepAlive' = keepAlive - 1
    /\ IF wakeup THEN NewPass ELSE phase' = "waiting" /\ UNCHANGED pc
    /\ UNCHANGED <<vars, reason, closing, wakeup, registered, work, todo, verdict,
                   producerVars, faults, extrasLeft, runs, asked, handled, gaveUp>>

Woke ==
    /\ LoopFree /\ phase = "waiting"
    /\ wakeup
    /\ NewPass
    /\ UNCHANGED <<vars, reason, closing, wakeup, registered, work, todo, verdict,
                   producerVars, envVars>>

\* close_spider is called while spider_idle is being sent: nobody looks before its
\* receivers are done.
CloseWhileIdle ==
    /\ Strikes("close")
    /\ LoopFree /\ phase = "idle" /\ ~closing
    /\ closing' = TRUE
    /\ UNCHANGED <<vars, phase, reason, wakeup, registered, taskVars, producerVars,
                   historyVars>>

\* The finally block of crawl(): abort, then cancel every task.
Teardown(why) ==
    /\ LoopFree
    /\ Abort
    /\ phase' = "stopping"
    /\ reason' = why
    /\ UNCHANGED <<closing, wakeup, registered, taskVars, producerVars, historyVars>>

\* Nobody kept the spider open.
IdleEnds ==
    /\ Orderly
    /\ phase = "idle"
    /\ Teardown(IF closing THEN "shutdown" ELSE "finished")

\* In a pass, or asleep on the wakeup, crawl() reacts to close_spider when the loop
\* resumes it; what other tasks do in between they might as well have done before.
CloseWhileBusy ==
    /\ Strikes("close")
    /\ phase \in {"crawl", "waiting"}
    /\ Teardown("shutdown")

ClosedEarlier ==
    /\ Orderly
    /\ phase \in {"crawl", "waiting"}
    /\ closing
    /\ Teardown("shutdown")

TaskFailed ==
    /\ Orderly
    /\ phase = "crawl"
    /\ (\E w \in Callers : pc[w] = "failed") \/ producer = "failed"
    /\ Teardown("error")

\* The cancellation reaches a worker that waits for next_request ...
WaitingWorkerCancelled(w) ==
    /\ Orderly
    /\ phase = "stopping"
    /\ pc[w] = "asking"
    /\ IF call[w] = "free" THEN UNCHANGED vars ELSE CancelCall(w)
    /\ Fails(w, "failed")

\* ... or one that works on a request.
BusyWorkerCancelled(w) ==
    /\ Orderly
    /\ phase = "stopping"
    /\ pc[w] \in {"handling", "output"}
    /\ Fails(w, "failing")
    /\ UNCHANGED vars

ProducerCancelled ==
    /\ phase = "stopping"
    /\ producer \in {"iterating", "granted"}
    /\ producer' = "failing"
    /\ UNCHANGED <<vars, crawlVars, taskVars, startLeft, envVars>>

\* Every task is gone; the engine closes the coordinator and the run is over.
RunEnds ==
    /\ phase = "stopping"
    /\ \A w \in Callers : pc[w] \in {"exited", "failed"}
    /\ producer \in {"done", "failed"}
    /\ Leave
    /\ Forget
    /\ phase' = "ended"
    /\ UNCHANGED <<reason, envVars>>

\* Nobody starts the job again, or the kept-alive engine waits for work that never comes.
NothingToDo ==
    /\ \/ phase \in {"down", "ended"} /\ runs = MaxRuns
       \/ phase = "waiting" /\ ~wakeup
    /\ UNCHANGED <<vars, loopVars, envVars>>

-----------------------------------------------------------------------------

WorkerStep(w) ==
    \/ WorkerTakes(w) \/ WorkerToldNone(w)
    \/ CallbackReturns(w) \/ WorkerSchedules(w) \/ WorkerCompletes(w)
    \/ WorkerReleases(w)
    \/ WaitingWorkerCancelled(w) \/ BusyWorkerCancelled(w)

ProducerStep ==
    \/ ProducerTold \/ ProducerSchedules \/ ProducerEnds \/ ProducerCancelled

EngineStep ==
    \/ PassEnds \/ IdleKeepsAlive \/ Woke \/ IdleEnds
    \/ ClosedEarlier \/ TaskFailed \/ RunEnds

\* A worker that asks, and the producer that has a start request, look at the coordinator.
WorkerLooks(w) ==
    /\ pc[w] = "asking"
    /\ PopRequest(w) \/ AnswerNone(w) \/ Sleep(w)
    /\ UNCHANGED <<loopVars, envVars>>

ProducerLooks ==
    /\ producer = "iterating" /\ startLeft # <<>>
    /\ AnswerSlot \/ SleepForSlot
    /\ UNCHANGED <<loopVars, envVars>>

FaultStep ==
    \/ StartFails \/ Crash \/ CloseWhileIdle \/ CloseWhileBusy \/ ProducerRaises
    \/ \E w \in Callers :
          \/ DownloadFails(w) \/ DownloadRetried(w) \/ HandlerRaises(w)
          \/ WorkerScheduleRaises(w) \/ CompleteRaises(w)

OrderlyStep ==
    \/ StartRun \/ ExtraSchedules \/ NothingToDo
    \/ \E w \in Callers : WorkerStep(w) \/ WorkerLooks(w)
    \/ ProducerStep \/ ProducerLooks
    \/ EngineStep \/ FinishSchedule

CrawlNext == OrderlyStep \/ FaultStep

CrawlSpec == CrawlInit /\ [][CrawlNext]_allVars

(***************************************************************************)
(* The event loop runs every ready task and resumes crawl(); the Tokio     *)
(* runtime polls every woken future; an owner whose job did not finish     *)
(* starts it again.  Failures are never owed.                              *)
(***************************************************************************)
Fairness ==
    /\ \A w \in Callers : WF_allVars(WorkerStep(w))
                         /\ WF_allVars(WorkerLooks(w))
    /\ WF_allVars(ProducerStep) /\ WF_allVars(ProducerLooks)
    /\ WF_allVars(EngineStep)
    /\ WF_allVars(FinishSchedule)
    /\ WF_allVars(StartRun)

FairCrawlSpec == CrawlSpec /\ Fairness

-----------------------------------------------------------------------------

RequestShapes ==
    [fp : Fingerprints, filter : BOOLEAN, priority : Priorities,
     start : BOOLEAN, persistent : BOOLEAN]

CrawlVarsOK ==
    /\ phase \in Phases
    /\ reason \in {"none", "finished", "shutdown", "error"}
    /\ {closing, wakeup} \subseteq BOOLEAN
    /\ registered \subseteq Entries

TaskVarsOK ==
    /\ pc \in [Callers -> WorkerStates]
    /\ work \in [Callers -> Entries \cup {NoEntry}]
    /\ todo \in [Callers -> Seq(RequestShapes)]
    /\ verdict \in [Callers -> Verdicts]

ProducerVarsOK == producer \in ProducerStates /\ startLeft \in Seq(Fingerprints)

EnvVarsOK ==
    /\ {faults, runs, keepAlive} \subseteq Nat
    /\ extrasLeft \subseteq Extras
    /\ {asked, handled, gaveUp} \subseteq SUBSET Fingerprints

\* The shape of the event loop's state.
CrawlTypeOK == TypeOK /\ CrawlVarsOK /\ TaskVarsOK /\ ProducerVarsOK /\ EnvVarsOK

\* No accepted request is ever lost, whether or not it is filtered: through crashes,
\* cancellations, failing tasks and failing transactions, a page that was asked for was
\* handled, was given up, or still has its row.  The exception is documented: requests
\* that live in memory only.
NothingAskedIsLost ==
    asked \subseteq handled \cup gaveUp \cup PagesOf(rows) \cup Unserializable

\* When a page counts as handled all it links to has been asked for, so that a crash after
\* the page's own row is gone cannot lose its links.
HandledLinksAreAsked ==
    \A p \in handled : \A i \in DOMAIN Links[p] : Links[p][i] \in asked \cup Rejected

\* No page drops out of a job: not one that was asked for, not a link of one that was
\* handled.
NothingIsLost == NothingAskedIsLost /\ HandledLinksAreAsked

\* A crawl that ends as "finished" is exhausted: every start page, exempt from filtering or
\* not, has been asked for, and the only rows left are of requests an extension added while
\* it was idle.
FinishedIsExhausted ==
    phase = "ended" /\ reason = "finished" =>
        /\ \A i \in DOMAIN StartPages : StartPages[i] \in asked \cup Rejected
        /\ PagesOf(rows) \subseteq Extras

\* ENGINE_MAX_PENDING bounds the start requests that are queued for their first attempt,
\* although each run yields the exempt ones again on top of those it recovers; a resumed
\* run may begin with those of the interrupted one, which had as many queued and up to
\* CONCURRENT_REQUESTS in work.
StartBacklogBounded ==
    Cardinality({e \in Pending : e.start /\ FirstAttempt(e)})
        <= PendingLimit + (IF runs <= 1 THEN 0 ELSE Concurrency)

\* The engine does not sleep on its wakeup event while requests are queued.
NoSleepOverPendingWork == phase = "waiting" /\ ~wakeup => queued = {}

\* Every pass comes to its end: no worker and no producer waits for an event that has
\* already happened or that only another waiting task could bring about.
PassesEnd == phase = "crawl" ~> phase # "crawl"

\* A job that is started again after each interruption gets through: every page that was
\* asked for is handled or given up at last.  Not so the requests that live in memory only,
\* nor those that came out of the blue: one added when the workers have left may have to
\* wait for the next run.
AskedIsSettled ==
    \A p \in Fingerprints \ (Extras \cup Unserializable) :
        p \in asked ~> p \in handled \cup gaveUp

\* Passes end, and with them jobs, over all their runs.
JobsEnd == PassesEnd /\ AskedIsSettled

-----------------------------------------------------------------------------

\* The job as its owner sees it.
Job == INSTANCE CrawlJob WITH
    Pages <- Fingerprints,
    Follows <- [p \in Fingerprints |->
                   {Links[p][i] : i \in DOMAIN Links[p]} \ Rejected],
    Forgettable <- Unserializable,
    Repeatable <- ExemptStarts \cup ExemptLinks,
    known <- asked,
    owed <- PagesOf(rows),
    expanded <- handled

\* Every step of the engine, every crash and every restart is a step of the job or none.
ImplementsJob == Job!Spec
=============================================================================
