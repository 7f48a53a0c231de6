---------------------------- MODULE CrawlProcess ---------------------------
(***************************************************************************)
(* AsyncCrawlerRunner and AsyncCrawlerProcess (crawler.py): several        *)
(* crawlers on one event loop, stop() and join(), the signals of the       *)
(* operating system and the end of the loop.                               *)
(***************************************************************************)
EXTENDS CrawlerLife, FiniteSets

CONSTANT MaxRepeats     \* bound on the calls of crawl() with a crawler it was called with before

ASSUME RepeatsAssumption == MaxRepeats \in Nat

VARIABLES
    tracked,      \* _crawlers
    repeats,
    afterCrawl,   \* _stop_after_crawl: the main task is join(), not a future
    main,         \* _main_task
    interrupts,   \* signals so far: the first asks, the second kills
    grace,        \* where the task _graceful_shutdown is
    toAsk,        \* crawlers whose stop_async stop() has yet to start
    asked,        \* crawlers that stop() waits for
    loop          \* "created", "running", "closing", "closed"
runnerVars == <<tracked, repeats>>
signalVars == <<interrupts, grace, toAsk, asked>>
loopVars == <<afterCrawl, main, loop>>
vars == <<lifeVars, runnerVars, signalVars, loopVars>>

Init ==
    /\ LifeInit
    /\ tracked = {} /\ repeats = MaxRepeats
    /\ afterCrawl \in BOOLEAN /\ main = "waiting" /\ loop = "created"
    /\ interrupts = 0 /\ grace = "none" /\ toAsk = {} /\ asked = {}

\* The crawlers whose crawl has a task that is not done.
Underway == {c \in Crawlers : life[c].pc \notin {"new", "over"}}

\* join() waits for the set _active.
Idle == Underway = {}

Done(c) == life[c].pc # "over" /\ life'[c].pc = "over"

-----------------------------------------------------------------------------
(* AsyncCrawlerRunner *)

TakesCrawls == loop \in {"created", "running"}

Schedule(c) ==
    /\ TakesCrawls /\ life[c].pc = "new"
    /\ life' = [life EXCEPT ![c].pc = "scheduled"]
    /\ tracked' = tracked \cup {c}
    /\ UNCHANGED <<owner, faults, repeats, signalVars, loopVars>>

\* A crawler is single-use: the task of a second crawl() raises RuntimeError in its first
\* step, and _done then forgets the crawler, which may be running.
Repeat(c) ==
    /\ loop = "running" /\ life[c].pc \notin {"new", "scheduled"}
    /\ repeats > 0 /\ repeats' = repeats - 1
    /\ tracked' = tracked \ {c}
    /\ UNCHANGED <<lifeVars, signalVars, loopVars>>

\* A step of one crawl; _done forgets the crawler when its task ends.
Keeps(c) ==
    /\ loop \in {"running", "closing"}
    /\ tracked' = IF Done(c) THEN tracked \ {c} ELSE tracked
    /\ UNCHANGED <<repeats, signalVars, loopVars>>

CrawlStep(c) == LifeStep(c) /\ Keeps(c)

-----------------------------------------------------------------------------
(* AsyncCrawlerProcess *)

Start ==
    /\ loop = "created" /\ loop' = "running"
    /\ UNCHANGED <<lifeVars, runnerVars, signalVars, afterCrawl, main>>

\* _signal_shutdown schedules a task for _graceful_shutdown, whose stop() takes the crawlers.
Interrupt ==
    /\ loop = "running" /\ interrupts = 0
    /\ interrupts' = 1
    /\ grace' = "asking" /\ toAsk' = tracked /\ asked' = tracked
    /\ UNCHANGED <<lifeVars, runnerVars, loopVars>>

\* gather runs the stop_async of each after the first step of the crawls before it.
AskToStop(c) ==
    /\ loop \in {"running", "closing"} /\ grace = "asking"
    /\ c \in toAsk /\ life[c].pc # "scheduled"
    /\ toAsk' = toAsk \ {c}
    /\ asked' = IF life[c].pc = "over" THEN asked \ {c} ELSE asked
    /\ life' = Asked(c)
    /\ UNCHANGED <<owner, faults, runnerVars, interrupts, grace, loopVars>>

\* stop() returns when all are over; the first that ends with an error ends it at once.
StopReturns ==
    /\ loop = "running" /\ grace = "asking" /\ toAsk = {}
    /\ \A c \in asked : life[c].pc = "over" /\ Outcome(c) = "none"
    /\ grace' = "joining"
    /\ UNCHANGED <<lifeVars, runnerVars, interrupts, toAsk, asked, loopVars>>

StopRaises ==
    /\ loop = "running" /\ grace = "asking"
    /\ \E c \in asked \ toAsk : life[c].pc = "over" /\ Outcome(c) # "none"
    /\ grace' = "failed"
    /\ UNCHANGED <<lifeVars, runnerVars, interrupts, toAsk, asked, loopVars>>

\* After join(), the future that start(stop_after_crawl=False) waits for is cancelled.
GraceEnds ==
    /\ loop = "running" /\ grace = "joining" /\ Idle
    /\ grace' = "done"
    /\ main' = IF afterCrawl THEN main ELSE "cancelled"
    /\ UNCHANGED <<lifeVars, runnerVars, interrupts, toAsk, asked, afterCrawl, loop>>

\* _signal_kill
Kill ==
    /\ loop = "running" /\ interrupts = 1
    /\ interrupts' = 2
    /\ main' = IF main = "waiting" THEN "cancelled" ELSE main
    /\ UNCHANGED <<lifeVars, runnerVars, grace, toAsk, asked, afterCrawl, loop>>

MainJoins ==
    /\ loop = "running" /\ afterCrawl /\ main = "waiting" /\ Idle
    /\ main' = "done"
    /\ UNCHANGED <<lifeVars, runnerVars, signalVars, afterCrawl, loop>>

CloseLoopWaiting ==
    /\ loop = "running" /\ main # "waiting"
    /\ loop' = "closing"
    /\ grace' = IF grace \in {"asking", "joining"} THEN "cancelled" ELSE grace
    /\ toAsk' = {}
    /\ UNCHANGED <<lifeVars, runnerVars, interrupts, asked, afterCrawl, main>>

\* _close_loop cancels every task there is, once, and waits for all of them; the tickers
\* end where they sleep.
CloseLoop ==
    /\ loop = "running" /\ main # "waiting"
    /\ loop' = "closing"
    /\ life' = [c \in Crawlers |->
            [life[c] EXCEPT !.cancelled = @ \/ c \in Underway, !.held = @ \ Tickers]]
    /\ grace' = IF grace \in {"asking", "joining"} THEN "cancelled" ELSE grace
    /\ toAsk' = {}
    /\ UNCHANGED <<owner, faults, runnerVars, interrupts, asked, afterCrawl, main>>

LoopClosed ==
    /\ loop = "closing" /\ Idle
    /\ loop' = "closed"
    /\ UNCHANGED <<lifeVars, runnerVars, signalVars, afterCrawl, main>>

-----------------------------------------------------------------------------

\* The steps that the event loop owes to the tasks of the process.
LoopSteps ==
    \/ Start \/ (\E c \in Crawlers : AskToStop(c)) \/ StopReturns \/ StopRaises \/ GraceEnds
    \/ MainJoins \/ CloseLoop \/ LoopClosed

Next ==
    \/ \E c \in Crawlers : Schedule(c) \/ Repeat(c) \/ CrawlStep(c)
    \/ LoopSteps \/ Interrupt \/ Kill

\* The event loop runs what is ready.  Nothing obliges a spider to end by itself, a ticker
\* to reach its limit, an owner or an operator to interrupt.
Fairness ==
    /\ \A c \in Crawlers : WF_vars(Proceed(c) /\ Keeps(c))
    /\ WF_vars(LoopSteps)

Spec == Init /\ [][Next]_vars /\ Fairness

-----------------------------------------------------------------------------

\* A stop is honoured whenever it comes: before the crawl begins, while the services start,
\* while the spider opens, in the crawl and in its teardown.
StopIsHonoured ==
    \A c \in Crawlers :
        life[c].stopAsked \/ life[c].closing ~> life[c].pc \in {"new", "over"} \/ loop = "closed"

\* The second signal ends the process whatever the first has come to: crawls in any phase,
\* a graceful shutdown that failed, crawls that were added since.
KillEnds == interrupts = 2 ~> loop = "closed"
=============================================================================
