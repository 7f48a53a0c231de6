---------------------------- MODULE CrawlerLife ----------------------------
(***************************************************************************)
(* The life of a Crawler (crawler.py): crawl_async builds the components,  *)
(* starts the services, runs the engine with its teardown and stops the    *)
(* services.  Each action is what the crawl's task does between two awaits *)
(* ("pc" names the await it is in); a failure or a cancellation may strike *)
(* at each of them.                                                        *)
(***************************************************************************)
EXTENDS CrawlExtensions, DownloadHandlers, FiniteSets

CONSTANTS
    Crawlers,
    Configured,    \* for each crawler the services of SERVICES, by priority
    Requirements,  \* what the services may require of each other: functions to sets of services
    Given,         \* the crawlers that were given a downloader
    Persistent,    \* the crawlers with a JOBDIR, the same for all of them
    Nobody,        \* owner of a job directory that is free
    Elsewhere,     \* and of one that another process has
    MaxFaults      \* bound on the failures and on what the owner of a crawl does to it

ASSUME LifeAssumption ==
    /\ Configured \in [Crawlers -> Seq(STRING)]
    /\ \A c \in Crawlers : IsInjective(Configured[c])
    /\ \A c \in Crawlers : \A r \in Requirements : Range(Configured[c]) \subseteq DOMAIN r
    /\ Given \subseteq Crawlers /\ Persistent \subseteq Crawlers /\ Crawlers \cap {Nobody, Elsewhere} = {}
    /\ MaxFaults \in Nat

VARIABLES
    life,      \* for each crawler its fields and those of its managers and its engine
    owner,     \* the crawler whose coordinator holds the lock of the job directory
    faults
lifeVars == <<life, owner, faults>>

Crawl0 == [
    pc |-> "new",
    requires |-> <<>>,         \* of the services of the crawl
    engine |-> FALSE,          \* crawler.engine is set
    downloader |-> "none",
    handlers |-> <<>>,         \* the download handlers that are open
    started |-> <<>>,          \* _started of the ServiceManager
    stopAsked |-> FALSE,       \* _stop_requested
    closing |-> FALSE,         \* _close_event of the engine is set
    opened |-> FALSE,          \* spider_opened in crawl()
    held |-> {},               \* the extensions that have a task, a handler or a server
    counts |-> Counts0,        \* what CloseSpider has counted
    cancelled |-> FALSE,       \* CancelledError is about to be thrown into the task
    error |-> "none",          \* what the try block of crawl_async raises
    stopError |-> "none",
    up |-> <<>>, down |-> <<>>,    \* history: services started, and stopped
    told |-> <<>>,                 \* history: the signals sent about the engine and the spider
    cutShort |-> FALSE]            \* history: a cancellation came before the first step
                               \* or hit the teardown of the engine or its handlers

LifeInit ==
    /\ \E r \in Requirements :
         life = [c \in Crawlers |->
            [Crawl0 EXCEPT !.requires = r, !.downloader = IF c \in Given THEN "open" ELSE "none"]]
    /\ owner \in {Nobody, Elsewhere} /\ faults = MaxFaults

Strikes == faults > 0 /\ faults' = faults - 1
Orderly == UNCHANGED faults

\* The task resumes after the await it was in.
At(c, pc) == life[c].pc = pc /\ ~life[c].cancelled

\* The except and finally clauses of crawl_async, when the engine was not entered.
Abandoned(c) == IF life[c].downloader = "open" THEN "abandoning" ELSE "stopping"

-----------------------------------------------------------------------------
(* The order of the services. *)

\* Those of the services left that require none of them, by priority.
Ready(requires, pending) ==
    SelectSeq(pending, LAMBDA s : requires[s] \cap Range(pending) = {})

\* _ordered_services works in rounds: those that are ready come next.
Orders == [c \in Crawlers, requires \in Requirements |->
    LET services == Configured[c]
        order[n \in 0 .. Len(services)] ==
            IF n = 0 THEN <<>>
            ELSE order[n - 1] \o Ready(requires,
                    SelectSeq(services, LAMBDA s : s \notin Range(order[n - 1])))
    IN  order[Len(services)]]

Ordered(c) == Orders[c, life[c].requires]

\* A round without a service is a cycle, and a service may require one that is not configured.
CannotBeOrdered(c) ==
    \/ Len(Ordered(c)) < Len(Configured[c])
    \/ \E s \in Range(Configured[c]) : ~ life[c].requires[s] \subseteq Range(Configured[c])

-----------------------------------------------------------------------------
(* From the start of the task to the await of the first service there is no other await. *)

\* A crawler that was given no downloader has download handlers.
OwnHandlers(c) == IF c \in Given THEN <<>> ELSE Eager

\* A component cannot be built; the downloader may be there by then.
BuildFails(c) ==
    /\ At(c, "scheduled") /\ Strikes
    /\ \E built \in {life[c], [life[c] EXCEPT !.downloader = "open", !.handlers = OwnHandlers(c)]} :
         life' = [life EXCEPT ![c] = [built EXCEPT
            !.pc = IF built.downloader = "open" THEN "abandoning" ELSE "stopping",
            !.error = "failed"]]
    /\ UNCHANGED owner

\* A handler of HTTP cannot be built: those before it stay open.
HandlersFail(c) ==
    /\ At(c, "scheduled") /\ c \notin Given /\ Strikes
    /\ \E handlers \in BuiltBeforeFailing :
         life' = [life EXCEPT ![c].pc = "stopping", ![c].error = "failed", ![c].handlers = handlers]
    /\ UNCHANGED owner

\* NativeCrawlCoordinator raises when the job directory is locked.
BuildRefused(c) ==
    /\ At(c, "scheduled") /\ ~CannotBeOrdered(c) /\ c \in Persistent /\ owner # Nobody
    /\ life' = [life EXCEPT ![c].pc = "abandoning", ![c].downloader = "open",
                            ![c].handlers = OwnHandlers(c), ![c].error = "failed"]
    /\ UNCHANGED owner /\ Orderly

\* The services of a crawl cannot be ordered.
BuildUnordered(c) ==
    /\ At(c, "scheduled") /\ CannotBeOrdered(c)
    /\ life' = [life EXCEPT ![c].pc = Abandoned(c), ![c].error = "failed"]
    /\ UNCHANGED owner /\ Orderly

Build(c) ==
    /\ At(c, "scheduled") /\ ~CannotBeOrdered(c) /\ (c \in Persistent => owner = Nobody)
    /\ life' = [life EXCEPT ![c].pc = "starting", ![c].engine = TRUE,
                            ![c].downloader = "open", ![c].handlers = OwnHandlers(c)]
    /\ owner' = IF c \in Persistent THEN c ELSE owner
    /\ Orderly

-----------------------------------------------------------------------------
(* ServiceManager.start, stop and _stop_started. *)

NextService(c) == Ordered(c)[Len(life[c].started) + 1]

AllStarted(c) == life[c].started = Ordered(c)

StartService(c) ==
    /\ At(c, "starting") /\ ~AllStarted(c)
    /\ life' = [life EXCEPT ![c].started = Append(@, NextService(c)),
                            ![c].up = Append(@, NextService(c))]
    /\ UNCHANGED owner /\ Orderly

StartFails(c) ==
    /\ At(c, "starting") /\ ~AllStarted(c) /\ Strikes
    /\ life' = [life EXCEPT ![c].pc = "rollback", ![c].error = "failed"]
    /\ UNCHANGED owner

\* One turn of _stop_started: the service is popped before its stop is awaited.
Stopped(c) == [life EXCEPT ![c].started = Front(@),
                           ![c].down = Append(@, Last(life[c].started))]

RollBack(c) ==
    /\ At(c, "rollback") /\ life[c].started # <<>>
    /\ life' = Stopped(c)
    /\ UNCHANGED owner /\ Orderly

RolledBack(c) ==
    /\ life[c].pc = "rollback" /\ life[c].started = <<>>
    /\ life' = [life EXCEPT ![c].pc = Abandoned(c)]
    /\ UNCHANGED owner /\ Orderly

\* DownloadHandlers.close closes one handler after the other.
CloseHandler(c) ==
    /\ life[c].pc \in {"abandoning", "closing"} /\ ~life[c].cancelled
    /\ life[c].handlers # <<>>
    /\ life' = [life EXCEPT ![c].handlers = Tail(@)]
    /\ UNCHANGED owner /\ Orderly

\* The downloader of an engine that never ran.
Abandon(c) ==
    /\ At(c, "abandoning") /\ life[c].handlers = <<>>
    /\ life' = [life EXCEPT ![c].downloader = "closed", ![c].pc = "stopping"]
    /\ UNCHANGED owner /\ Orderly

StopService(c) ==
    /\ At(c, "stopping") /\ life[c].started # <<>>
    /\ life' = Stopped(c)
    /\ UNCHANGED owner /\ Orderly

\* The first error of a stop is raised when all the services are stopped.
StopFails(c) ==
    /\ At(c, "stopping") /\ life[c].started # <<>> /\ Strikes
    /\ life' = [Stopped(c) EXCEPT ![c].stopError = IF @ = "none" THEN "failed" ELSE @]
    /\ UNCHANGED owner

CrawlReturns(c) ==
    /\ life[c].pc = "stopping" /\ life[c].started = <<>>
    /\ life' = [life EXCEPT ![c].pc = "over"]
    /\ UNCHANGED owner /\ Orderly

\* What the task of the crawl ends with.
Outcome(c) == IF life[c].error # "none" THEN life[c].error ELSE life[c].stopError

-----------------------------------------------------------------------------
(* CrawlEngine.crawl. *)

EnterEngineUnaware(c) ==
    /\ life[c].pc = "starting" /\ AllStarted(c)
    /\ life' = [life EXCEPT
        ![c].pc = "engine_started",
        ![c].told = Append(@, "engine_started")]
    /\ UNCHANGED owner /\ Orderly

\* The services are up: a stop that came before there was an engine is passed on to it.
EnterEngine(c) ==
    /\ life[c].pc = "starting" /\ AllStarted(c)
    /\ life' = [life EXCEPT
        ![c].pc = "engine_started", ![c].closing = @ \/ life[c].stopAsked,
        ![c].told = Append(@, "engine_started")]
    /\ UNCHANGED owner /\ Orderly

\* The signal that is being sent has been to all its receivers.
AllHeard(c) ==
    LET signal == life[c].pc
        held == life[c].held IN
    [life EXCEPT ![c].held =
        IF signal \in {"engine_started", "spider_opened"} THEN AllTook(held, signal)
        ELSE AllReturned(held, signal)]

\* One of them raises while it starts: the others are called all the same.
ReceiverFails(c) ==
    /\ life[c].pc \in {"engine_started", "spider_opened"} /\ ~life[c].cancelled
    /\ Strikes
    /\ \E e \in Range(Receivers(life[c].pc)) :
         LET held == AllTookBut(life[c].held, life[c].pc, e) IN
         life' = [life EXCEPT
            ![c].held = held,
            ![c].pc = IF life[c].pc = "engine_started" THEN "spider_opened" ELSE "crawling",
            ![c].opened = TRUE,
            ![c].told = IF life[c].pc = "engine_started" THEN Append(@, "spider_opened") ELSE @]
    /\ UNCHANGED owner

OpenSpiderLate(c) ==
    /\ At(c, "engine_started")
    /\ life' = [AllHeard(c) EXCEPT ![c].pc = "spider_opened", ![c].told = Append(@, "spider_opened")]
    /\ UNCHANGED owner /\ Orderly

OpenSpider(c) ==
    /\ At(c, "engine_started")
    /\ life' = [AllHeard(c) EXCEPT ![c].pc = "spider_opened", ![c].opened = TRUE,
                                   ![c].told = Append(@, "spider_opened")]
    /\ UNCHANGED owner /\ Orderly

SpiderOpened(c) ==
    /\ At(c, "spider_opened")
    /\ life' = [AllHeard(c) EXCEPT ![c].pc = "crawling"]
    /\ UNCHANGED owner /\ Orderly

\* close_spider
Closed(c) == [life EXCEPT ![c].closing = TRUE, ![c].counts = Counts0]

\* close_waiter raises CloseSpider in the loop of crawl().
CloseHeard(c) ==
    /\ At(c, "crawling") /\ life[c].closing
    /\ life' = [life EXCEPT ![c].pc = "draining"]
    /\ UNCHANGED owner /\ Orderly

\* The crawl is exhausted, or a callback or a receiver of spider_idle raised CloseSpider.
SpiderEnds(c) ==
    /\ At(c, "crawling")
    /\ life' = [life EXCEPT ![c].pc = "draining"]
    /\ UNCHANGED owner /\ Orderly

CrawlFails(c) ==
    /\ At(c, "crawling") /\ Strikes
    /\ life' = [life EXCEPT ![c].pc = "draining", ![c].error = "failed"]
    /\ UNCHANGED owner

\* The task of an extension closes the spider, while it lives: MemoryUsage above its limit,
\* CloseSpider when its time is over, or when a period went by without an item (the periods,
\* and the items in them, are left to chance).
TickerCloses(c) ==
    /\ life[c].engine /\ ~life[c].closing
    /\ {MemoryUsage, CloseSpider} \cap life[c].held # {}
    /\ life' = Closed(c)
    /\ UNCHANGED owner /\ Orderly

\* response_received, item_scraped and spider_error are sent while the spider crawls.  The
\* counts are left out once the spider closes: close_spider keeps its first reason.
Counted(c, n, closes) ==
    /\ At(c, "crawling") /\ CloseSpider \in Range(Connected) /\ ~life[c].closing
    /\ life' = IF closes THEN Closed(c) ELSE [life EXCEPT ![c].counts = n]
    /\ UNCHANGED owner /\ Orderly

ResponseReceived(c) == LET n == Page(life[c].counts) IN Counted(c, n, PageCloses(n))
ItemScraped(c) == LET n == Item(life[c].counts) IN Counted(c, n, ItemCloses(n))
SpiderError(c) == LET n == Error(life[c].counts) IN Counted(c, n, ErrorCloses(n))

\* The first request for a scheme builds its handler, if it is lazy.
FirstRequest(c) ==
    /\ At(c, "crawling") /\ c \notin Given
    /\ \E scheme \in Loadable(life[c].handlers) :
         life' = [life EXCEPT ![c].handlers = Append(@, scheme)]
    /\ UNCHANGED owner /\ Orderly

\* The finally clause of crawl() gathers the tasks it cancelled, then _finish begins.
Drained(c) ==
    /\ At(c, "draining")
    /\ life' = [life EXCEPT ![c].pc = "closing"]
    /\ UNCHANGED owner /\ Orderly

\* The await that follows is the one of spider.closed(reason) and of the receivers.
DownloaderClosed(c) ==
    /\ At(c, "closing") /\ life[c].handlers = <<>>
    /\ life' = [life EXCEPT
        ![c].downloader = "closed",
        ![c].pc = IF life[c].opened THEN "spider_closed" ELSE "engine_stopped",
        ![c].told = Append(@, IF life[c].opened THEN "spider_closed" ELSE "engine_stopped")]
    /\ UNCHANGED owner /\ Orderly

TellStopped(c) ==
    /\ At(c, "spider_closed")
    /\ life' = [AllHeard(c) EXCEPT ![c].pc = "engine_stopped", ![c].told = Append(@, "engine_stopped")]
    /\ UNCHANGED owner /\ Orderly

\* The rest is synchronous: the native engine saves spider.state and closes its job.
EngineDone(c) ==
    /\ At(c, "engine_stopped")
    /\ life' = [AllHeard(c) EXCEPT ![c].pc = "stopping"]
    /\ owner' = IF owner = c THEN Nobody ELSE owner
    /\ Orderly

-----------------------------------------------------------------------------
(* Cancellation.  CancelledError is a BaseException: _safe_teardown lets it pass, _stop_started *)
(* keeps it like any error, _cancel_task takes it for the end of the ticker it waits for. *)

CancelBody(c, r) == life' = [life EXCEPT ![c] = [r EXCEPT !.cancelled = FALSE]]

CutShort(c) == [life[c] EXCEPT !.cutShort = TRUE, !.error = "cancelled", !.pc = "stopping"]

\* The handlers behind the one whose close is awaited stay open.
HandlersCut(l) ==
    [l EXCEPT !.downloader = "closed", !.cutShort = @ \/ Len(l.handlers) > 1,
              !.handlers = IF @ = <<>> THEN @ ELSE Tail(@)]

Interrupted(c) ==
    /\ life[c].cancelled
    /\ UNCHANGED owner /\ Orderly
    /\ LET l == life[c] IN
       \/ /\ l.pc = "scheduled"
          /\ CancelBody(c, [CutShort(c) EXCEPT !.pc = "over"])
       \/ /\ l.pc = "starting" /\ ~AllStarted(c)
          /\ CancelBody(c, [l EXCEPT !.pc = "rollback", !.error = "cancelled"])
       \/ /\ l.pc = "rollback" /\ l.started # <<>>
          /\ CancelBody(c, Stopped(c)[c])
       \/ /\ l.pc = "abandoning"
          /\ CancelBody(c, [HandlersCut(l) EXCEPT !.error = "cancelled", !.pc = "stopping"])
       \/ /\ l.pc \in {"engine_started", "spider_opened", "crawling"}
          /\ \E held \in IF l.pc = "crawling" THEN {l.held} ELSE SomeTook(l.held, l.pc) :
               CancelBody(c, [l EXCEPT !.held = held, !.pc = "draining", !.error = "cancelled"])
       \/ /\ l.pc = "draining"
          /\ CancelBody(c, CutShort(c))
       \/ /\ l.pc \in {"spider_closed", "engine_stopped"}
          /\ \E held \in SomeReturned(l.held, l.pc) :
               CancelBody(c, [CutShort(c) EXCEPT !.held = held])
       \/ /\ l.pc = "closing"
          /\ CancelBody(c, [HandlersCut(l) EXCEPT
                                !.cutShort = TRUE, !.error = "cancelled", !.pc = "stopping"])
       \/ /\ l.pc \in {"spider_closed", "engine_stopped"}
          /\ NextReturn(l.held, l.pc) # <<>>
          /\ CancelBody(c, [l EXCEPT !.held = @ \ {Head(NextReturn(l.held, l.pc))}])
       \/ /\ l.pc = "stopping" /\ l.started # <<>>
          /\ CancelBody(c, [Stopped(c)[c] EXCEPT
                !.stopError = IF l.stopError = "none" THEN "cancelled" ELSE l.stopError])

\* The owner of the task cancels it.
Cancel(c) ==
    /\ Strikes
    /\ life[c].pc \notin {"new", "over"} /\ ~life[c].cancelled
    /\ life' = [life EXCEPT ![c].cancelled = TRUE]
    /\ UNCHANGED owner

\* The collector drops the coordinator of an engine that was not closed, and with it the lock.
Collect(c) ==
    /\ owner = c /\ life[c].pc = "over"
    /\ owner' = Nobody
    /\ UNCHANGED <<life, faults>>

-----------------------------------------------------------------------------

\* stop_async up to its await: the flag, and close_spider when there is an engine.
Asked(c) == [life EXCEPT
    ![c].stopAsked = TRUE,
    ![c].closing = @ \/ life[c].engine, ![c].counts = Counts0]

\* stop_async called on the crawler itself, at any time.
Stop(c) ==
    /\ Strikes
    /\ life' = Asked(c)
    /\ UNCHANGED owner

\* The steps that the event loop owes to the task of a crawl.
Proceed(c) ==
    \/ Build(c) \/ BuildRefused(c) \/ BuildUnordered(c)
    \/ StartService(c) \/ EnterEngine(c) \/ OpenSpider(c) \/ SpiderOpened(c) \/ CloseHeard(c)
    \/ Drained(c) \/ CloseHandler(c) \/ DownloaderClosed(c) \/ TellStopped(c) \/ EngineDone(c)
    \/ RollBack(c) \/ RolledBack(c) \/ Abandon(c) \/ StopService(c) \/ CrawlReturns(c)
    \/ Interrupted(c)

LifeStep(c) ==
    \/ Proceed(c)
    \/ BuildFails(c) \/ HandlersFail(c) \/ FirstRequest(c) \/ StartFails(c) \/ StopFails(c) \/ CrawlFails(c)
    \/ SpiderEnds(c) \/ ReceiverFails(c) \/ Collect(c)
    \/ TickerCloses(c) \/ ResponseReceived(c) \/ ItemScraped(c) \/ SpiderError(c)
    \/ Cancel(c) \/ Stop(c)

-----------------------------------------------------------------------------

\* Services start after those they require; they stop in the reverse order of their starts, each
\* once, whatever failed or was cancelled, and none while the engine could still use it: only in
\* the rollback of a start, or when the engine has sent engine_stopped or was cut short.
ServicesUnwound ==
    \A c \in Crawlers :
        LET l == life[c] IN
        /\ l.up = l.started \o Reverse(l.down)
        /\ \A i \in DOMAIN l.up : l.requires[l.up[i]] \subseteq Range(SubSeq(l.up, 1, i - 1))
        /\ l.down # <<>> =>
              \/ l.told = <<>> /\ l.error # "none"
              \/ l.pc \in {"stopping", "over"} /\ ("engine_stopped" \in Range(l.told) \/ l.cutShort)
        /\ l.pc = "over" => l.started = <<>>

\* A spider whose receivers were told that it opened is told, once, that it closed, before
\* the engine stops: also when a crawl fails, is closed while it opens, or is cancelled.
\* Only a second cancellation, one that meets the teardown, can cut this short.
OpenedIsClosed ==
    \A c \in Crawlers :
        LET l == life[c] IN
        l.pc \in {"stopping", "over"} /\ l.told # <<>> /\ ~l.cutShort =>
            l.told \in {<<"engine_started", "engine_stopped">>,
                        <<"engine_started", "spider_opened", "spider_closed", "engine_stopped">>}

\* A crawl that is over leaves nothing behind: no open downloader, no download handler but those
\* built before one of HTTP failed, no task, log handler or server of an extension and no lock on
\* the job directory (the lock of an engine that never ran is kept until the collector finds it).
NothingLeaks ==
    \A c \in Crawlers :
        LET l == life[c] IN
        l.pc = "over" /\ ~l.cutShort =>
            /\ l.downloader # "open"
            /\ l.handlers # <<>> => l.downloader = "none"
            /\ l.held = {}
            /\ l.told # <<>> => owner # c

\* A crawl takes down what it built, whatever failed or was cancelled: its services in reverse
\* order, the spider that was told that it opened, and its downloader, tasks and lock.
TeardownIsWhole == ServicesUnwound /\ OpenedIsClosed /\ NothingLeaks
=============================================================================
