# SpiderOxide in TLA+

A verification development for SpiderOxide, a Scrapy-like crawler with two
interchangeable engines: a Python one (`asyncio`) and a native one whose
scheduling, job store, download slots and robots policy are Rust objects on a
Tokio runtime. The modules below are translated from the source, TLC checks
them on small instances, and TLAPS proves what matters most about both engines, their download
slots, the robots policy, the journey of a request through the middlewares, the media pipelines and
the feeds for every instance. `PROJECT.json` maps definitions to source
lines and lists runs, mutants, hazards, findings and theorems.

Paths: `engine.py` and the like are under `src/spideroxide/`, `engine.rs` and
the like under `crates/spideroxide-native/src/`.

## 1. Inventory

| Component | State it keeps | Operations | Hard behaviour | What makes it correct |
|---|---|---|---|---|
| Native coordinator, `engine.rs` | heaps, staged requests, active ids, seen fingerprints, counters, flags, two kinds of sleeping futures | schedule, activate, next_request, complete, release, wait_for_pending_slot, close_input, abort, close | futures on Tokio threads look at state the event loop changes; wakeups by one Notify; restarts | one home per number, memory mirrors the store, no missed wakeup, limit, order |
| Job store, `job.rs`, `job.py` | tables of requests and fingerprints | open, schedule, complete | crash between any two transactions, transactions that fail, requests that cannot be written, schema migration | nothing accepted is lost, nothing filtered comes back |
| Native engine, `engine.py` 612-963 | registry of requests, worker tasks, start producer, wakeup and close events | crawl, _worker, _schedule, _produce_native_start_requests | idle detection, teardown at any await, failure between outputs and completion | links are stored before their page is deleted; a pass ends; "finished" means exhausted |
| Python engine, `engine.py` 60-610, `_scheduler.py` | scheduler, task set, start queue, next-start task, events | crawl, _schedule, _produce_start_requests, close_spider | several things complete at once; one raises in the middle of a batch | the same job as the native engine; capacity is used; the crawl ends |
| CrawlSpider, link extractors, depth and URL length filters | none between calls | rules, extract_links, process_spider_output, process_start | rules compete for links; depth counts through retries; a limit falls on start URLs and links in different ways | what is seen is what the spider wants |
| Download slots, `slots.rs`, `native_slots.py`, `python_slots.py` | per domain: active and waiting counts, delay, last and next start | acquire, release, close; semaphore, lock | cancellation at every await, timers against notifications, pruning, AutoThrottle changing delays under waiters | limit and spacing per domain, no leak, no oversleeping |
| Robots policy, `robots.rs`, `robots.py` | per origin: fetching, ready, unavailable | check, wait, complete, fail, close | single flight with failing, cancelled, late fetches; a gate for internal downloads | one fetcher per origin, no download against the policy, no deadlock with the gate |
| Downloader middlewares, `middleware.py`, `downloadermiddlewares.py`, `redirect.py`, `retry.py`, `proxy.py`, `cookies.py` | per-request meta, cookie jars | process_request / response / exception | a handler answers, replaces or raises in mid-chain; a replacement starts over; components listed twice under two names | limits of retries and redirects, a request carries to another host only what belongs there |
| HTTP cache, `httpcache.py` | stored responses | retrieve, store, revalidate | entry grows stale between the request and the answer | a stale copy is used only with a reason |
| Spider middlewares, `middleware.py`, `spidermiddlewares.py` | a stream of outputs per response | process_spider_input / output / exception | a generator fails in mid-stream; a recovery yields outputs of its own | no output lost, repeated or past a hook |
| Item and media pipelines | in-flight downloads and results per fingerprint; four kinds of stores | process_item, media_to_download, persist_file, stat_file | several items share one download, before, while and after it runs; a file is stored in parts; an upload is cut | one download and one outcome per fingerprint, stored before reported, everyone answered |
| Feed export, `feedexport.py`, `feedpostprocessing.py` | a slot per batch, a lock, uploads under way; five kinds of storages | item_scraped, rotation, _close_slot, close_spider | items of many tasks, batches that turn over while uploads run, failures of an export, a storage or the next slot, a shutdown at any await | every item in one batch, batches whole, every failure told, the bound on uploads |
| Crawler, runner, services, extensions | engine, services, signal receivers, tasks and servers of extensions, tasks of the runner | crawl, stop, start, join, signals of the system | failure and cancellation at every await of setup and teardown; stop before, while and after building; a second signal | everything started is taken down once and in order; a stop is honoured |
| Settings and component lists | attributes with priorities | set, delete, update_settings, create_crawler | a value reaches a crawl on two ways; strict and non-strict comparisons | the highest priority wins |
| Job import, `jobinterop.py` | source directory, database, lock | migrate_scrapy_jobdir | crash half way; lock handed over; positions in rows of files | all or nothing, once |
| Transport, HTTP values, selectors, logging, command line | none beyond a call | - | - | not modelled, see section 9 |

How they interact: the engine calls the coordinator (native) or the scheduler
(Python); the coordinator writes the job store inside its critical sections.
Workers, or request tasks, call the downloader through the downloader
middleware, of which robots and slots may suspend them; callbacks run through
the spider middleware and their outputs go back to `_schedule` or to the item
pipelines. Extensions and the feed exporter hear signals and may call `_schedule` or
`close_spider` from tasks of their own. Everything in Python shares one event loop; only
`next_request`, `wait_for_pending_slot`, `acquire` and `wait` run on Tokio threads.

`PROJECT.json` lists the hazards, each at the line where it bites.

## 2. Modules

| Module | Models | Uses |
|---|---|---|
| `RequestQueues` | order in which queued requests leave the heaps (both engines), the settings that choose it | - |
| `JobStore` | the tables and transactions of `job.rs` | extends `RequestQueues` |
| `CrawlCoordinator` | `engine.rs` on its store, with restarts | extends `JobStore` |
| `NativeCrawl` | `NativeCrawlEngine` driving the coordinator through several runs of one job | extends `CrawlCoordinator` |
| `NativeCrawlProofs` | theorems about the coordinator and about the engine, its refinement of `CrawlJob` included | extends `NativeCrawl` |
| `CrawlRules`, `OutputFilters` | CrawlSpider and LinkExtractor; DepthMiddleware and UrlLengthMiddleware | operators only |
| `PythonCrawl` | `CrawlEngine` and `EngineScheduler`, with a CrawlSpider | extends `RequestQueues`, `OutputFilters` |
| `PythonCrawlProofs` | theorems about the rules and about the engine, its refinement of `CrawlJob` included | extends `PythonCrawl`, `SequenceLemmas` |
| `CrawlJob` | abstract: what a crawl promises, with no queue, worker or process | instance in both engines |
| `SlotSettings` | settings and delay arithmetic shared by both kinds of slots | - |
| `NativeSlots`, `PythonSlots` | `slots.rs` with `native_slots.py`; `python_slots.py` with AutoThrottle | extend `SlotSettings` |
| `Throttle` | abstract: limit and spacing of a slot | instance in `DownloadSlots` |
| `DownloadSlots` | the engine chooses one implementation; both keep the promise of `Throttle` | instances of the two |
| `SequenceLemmas` | lemmas about what is computed along a sequence, and about lines of waiting tasks | operators only |
| `DownloadSlotsProofs` | theorems about the slots, their refinement of `Throttle` included | extends `DownloadSlots`, `SequenceLemmas` |
| `RobotsPolicy` | `robots.rs`, `robots.py`, the gate of `download_async` | - |
| `RobotsPolicyProofs` | theorems about it | extends `RobotsPolicy`, `SequenceLemmas` |
| `MediaStores` | what the file system, S3, GCS and FTP stores tell and leave | - |
| `MediaPipeline` | `pipelines/`, `media.rs`, their internal downloads | extends `MediaStores` |
| `MediaPipelineProofs` | theorems about it | extends `MediaPipeline` |
| `ComponentLists` | the settings that list components, and the order they give | operators only |
| `ReferrerPolicies` | what a request says of the page it comes from | operators only |
| `HandlerChain` | one request through the downloader middlewares, the cache and the jar | extends these two |
| `SpiderStream` | one response through the spider middlewares to the outputs | - |
| `RequestJourney` | the engine around both: schedule, download, redirect, deliver | extends `HandlerChain`, `SpiderStream` |
| `RequestJourneyProofs` | theorems about the journey and the stream | extends `RequestJourney` |
| `DownloadHandlers` | the handler of each scheme: when it is built and closed | - |
| `CrawlExtensions` | what extensions hold between signals; the counts of CloseSpider | - |
| `CrawlerLife` | one crawl from its first step to its last | extends these two |
| `CrawlProcess` | several crawls on one loop, stop, join, the signals of the system | extends `CrawlerLife` |
| `CrawlSettings` | one setting on its way to a crawl | - |
| `JobImport` | a Scrapy directory, its import by several processes, the job that follows | extends `CrawlSettings` |
| `FeedExporters` | what is written to the file of a batch; what the target of its storage may hold | operators only |
| `FeedExport` | the feed exporter | extends `FeedExporters` |
| `FeedExportProofs` | theorems about it | extends `FeedExport`, `SequenceLemmas` |
| `MC...` | instances for TLC (`JobImport.cfg` needs none) | |

Beside some definitions stands a variant that no specification uses
(`OneTooMany` beside `CanPop`, `NotifyNobody` beside `NotifyAll`, ...). It
states a plausible bug, and the mutants in `PROJECT.json` put it in the place
of the real one to show that a property notices.

## 3. State and actions against the code

*Coordinator.* One action per method, each a critical section of the mutex
together with its `notify_waiters`. An entry is a request: its id is also its
sequence number (the two counters start at one past the largest stored value
and advance together), a fingerprint, the flag that `dont_filter` clears, a
priority, whether it is a start request and whether a row holds it. The four
heaps are one set; `IsNext` is the entry that `pop` returns.
`next_request` is `PopRequest`, `AnswerNone` or `Sleep`: the code registers with
the Notify before it looks, so a look that finds nothing and the sleep that
follows are one step. `Open` loads the rows and restores the fingerprints that
a schema migration dropped; `Leave` is both `close` and the death of the process.

*Native engine.* A step is what one task does between two awaits. `_schedule`
is the exception: between `schedule` and `activate` the Tokio threads may look,
but no other task of the loop runs (`LoopFree`). Workers go through asking,
handling, output and, on errors, failing; `work` and `todo` are the request
and the outputs still to be processed. `Exempt` is `dont_filter` of what the spider yields:
`ExemptStarts` are the start pages asked for with it, as the default `start()` does for
all of them, `ExemptLinks` the pages that callbacks and extensions ask for with it; both are any
sets of pages. Such a request leaves no fingerprint, and each run yields the exempt start requests
again, on top of those it recovers; a page may then be owed twice and is downloaded
twice. `asked`, a history variable, has the pages a request of which was accepted, filtered or not,
where the store remembers the filtered ones alone. A retry is a request exempt from
filtering with a lower priority, at most once per request (`max_retry_times` is one);
`FirstAttempt` tells by the priority. `CloseWhileBusy`
merges `close_spider` with the moment `crawl` notices it. With a job directory
a request is serialised: one whose callback is no method of the spider, or with a
value that cannot be pickled, stays in memory (`Unserializable`), and
one whose callback the spider of a later run lacks ends that run at its start
(`StartFails`).

*Python engine.* "dispatch" is the part of the loop without an await; every
other phase lets other tasks move. `tasks` are the requests whose tasks the
loop has not collected, `results` what completed ones returned; the batch that
is being processed is their difference. `startQueue` and `nextStart` are the
queue and the task that gets from it. What a page yields is computed: the rules
of a CrawlSpider take links in their order, and depth and URL length drop some of
the requests. The reference `Walk` says which pages a crawl may see from the
links alone, as walks. Start requests are filtered here; exempt ones are modelled in
`NativeCrawl`.

*Slots.* Time is a Tick of one unit that all ages and alarms share. A lease is
named by the task it was granted to, and counts as a start from the grant; the
time the event loop takes to pick it up is not counted. Release and
notification are one step. A latency stands for latency divided by
AUTOTHROTTLE_TARGET_CONCURRENCY. Ages stop at `Horizon`.

*Robots.* A robots.txt is any set of allowed pages. A cancelled fetch leaves
the origin "unavailable", which lets everybody through, as in the code. The
gate is asyncio's fair semaphore; a permit passes to the first waiter.

*Media.* `downloaded` is the dictionary of `SpiderInfo`, `task` where the shared
download is. Every request that awaited the task stores its outcome again
(`TakeResult`), as the code does. A file has as many parts as `persist_file` is
called for it, an image and its thumbnails; each call is atomic but for what a
failing one may leave (`Cuts`): nothing in most stores, a part that looks
like a file over FTP. The engine cancels pipelines only when a crawl ends, so
cancellation and crash are both `NextCrawl`, which keeps the store. All files have one
origin, whose robots.txt the first download fetches while it holds its permit.

*Journeys.* A step asks one hook of one component; `at` and `phase` say which,
`Proceed`, `AnswerWith`, `ReplaceBy` and `Raise` are what it may do. The chain is not
written down but computed by `ComponentLists` from the base setting and a project's,
aliases and disabled entries included. A request has the meta keys
that some component reads; `via` are the urls it was redirected from. The server answers
anything; a custom middleware meddles up to `MaxMeddles` times. Urls are model
values with a scheme, a site and what their server sends. The stream of outputs is
unrolled: the header of `SpiderStream` says why that is the same as nested generators.

*Lifecycle.* `pc` names the await that the task of a crawl is in; what it does up
to the next one is an action, and each has a way to fail and a way to be cancelled.
`error` is the failure or cancellation in flight. Services, extensions and
download handlers are sequences in the order in which the code goes through them. A receiver
of a signal may fail, a sender may be cancelled between two receivers.

*Feeds.* A batch is a feed and a number. The task of an item takes `_slot_lock`, goes
through the feeds (`turn`), waits where the code waits for uploads, and gives the lock back;
`pending` are the tasks of `_close_slot`. A file is a sequence of records, an item with the
fields written of it or a mark of the format, of which a plugin holds back what it was given
until it is closed. `Target` is what may stand at the place of the feed at any time.

*Import and settings.* Positions in a FIFO queue are a file and a number of entries. A
process takes the lock, looks, reads, writes aside and renames, each a step where it may die.
A setting is an attribute with a priority, or `Absent`. The setting chooses the
queue class that the import must find.

## 4. Runs

Bounds are named constants in the `.cfg` files.

| Run | Question | Instance |
|---|---|---|
| `coordinator` | Is the bookkeeping right under every interleaving of all calls? | 2 workers, limit 2, 2 fingerprints, requests of different storage, heap, priority and filtering, a migrated directory, failing transactions, any number of restarts within 3 numbers |
| `durability` | Is anything lost, and does the whole implement `CrawlJob`? | 2 processes one after the other on one job, 2 faults among crash, close, retry, give up, raise, failing transaction, a row that the next process cannot read; a callback that is a lambda; of the start requests to pages a and b the first is exempt from filtering, and b links to a with a filtered one |
| `liveness` | Does every pass end and every page that was asked for get settled? | same site, 1 fault among crash and raise, an extension, a refused page; the start request to page b and the extension's request are exempt from filtering |
| `idle_wakeup` | Does the kept-alive native engine ever sleep over work? | a violation, see section 6 |
| `python_crawl` | The same job, the use of capacity and the end of the crawl, for the Python engine and a CrawlSpider | limit 2, start outputs beyond the queue of 4, six pages under three rules, depth 1, a long url, 1 fault among close, cancel, retry, give up, raise; an extension, a refused page |
| `slots` | Limit, spacing, leaks, oversleeping and starvation, for both implementations | 3 tasks; slots of 2 and of 1; random and fixed delays of 2 units; latencies; pruning after 2 |
| `robots` | Single flight, obedience and progress | a worker and 2 internal downloads on 1 permit, 2 origins, an exempt page, a redirect |
| `media` | Is each file of a crawl downloaded once, with one outcome, stored before it is reported, and does every item end? | 2 items with 3 requests for a file and an image with a thumbnail, 1 permit, failures at every stage, 2 crawls on one store of each of four kinds |
| `handlers` | Do limits hold, do copies of a request carry only what they may, do outputs survive errors in the middlewares, does every request end? | 2 journeys of 4 kinds of requests over 3 urls, 1 retry, 2 redirects, a meddling middleware, 3 spider middlewares of which one recovers |
| `lifecycle` | Is everything taken down once and in order, is a stop honoured, does the second signal end the process? | one crawler with 2 services, CloseSpider and LogCount, 4 download handlers and a job directory; 2 failures or cancellations at any await, 1 repeated `crawl()`, 2 signals |
| `feeds` | Is every item stored or its loss told, is every document whole, do uploads keep their bound? | 3 items with different fields, 2 feeds, batches of 2 and 1, 2 uploads at a time, 6 layouts of formats and storages (3 of them invalid), 2 failures |
| `import` | Is a Scrapy queue read whole, imported once and never lost, and does the right setting choose how? | 5 requests in files of 2, 2 processes, 2 deaths or failing disks, 4 writes, defaults or deletions of the setting |

Why these bounds are enough to be interesting: two workers suffice for every
race between an answer and a change (a third would be symmetric); the limits
are at or below the number of contenders, so that waiting happens; requests
collide in fingerprint and tie in priority; a second process meets rows,
fingerprints and numbers of the first. Start outputs exceed the start queue,
so the producer blocks. In `slots`, delays, pruning time and horizon are
close together so that a timer, a release, a prune and a changed delay can
fall on the same instant in each order. In `handlers` the number of redirects is
large enough to go to another host and come back. In `feeds` a batch turns over while the upload of the
one before it runs and while an item waits for it; in `import` five entries in files of two put
head and tail at the start, inside and at the end of a file. A `MaxFaults` of 1 or 2 is where
state spaces end: failures that need three of them are not seen.

Deadlock is checked in `coordinator`, `durability`, `liveness`, `python_crawl`, `slots` and
`robots`. Where the system may rest there (the job is over, a kept-alive engine
has nothing to do) an explicit `NothingToDo` says so; in the slots, time always passes. In the
other runs the system ends: the last crawl, the last journey, the closed exporter, the
closed loop, the import after the last allowed death.

## 5. Properties

Each property's comment says what it claims. The ones that carry most:

* `NothingIsLost`: a page that was asked for, by a filtered request or an exempt one, was
  handled, given up, or still has its row, and a page's links are asked for before
  its row goes. Together with `ImplementsJob` (refinement of `CrawlJob`) this is
  what a job directory is for. `JobsEnd` adds that a job started again after
  each interruption settles every page. `StartBacklogBounded` keeps the queue of start
  requests short although each run yields the exempt ones again.
* `MemoryMirrorsStore`, `OneHome`: what a crash would give back is what memory
  believes; numbers are reused after a restart but never while in use.
* `NoMissedWakeup`, `NoOversleep`: no sleeping future could be answered.
* `FinishedIsExhausted`: "finished" is said only when all that `start()` yields, with
  `dont_filter` or without, was asked for and everything asked for was processed.
* `WantedWorkIsStarted`: the Python crawl sees only pages the spider's rules and limits
  lead to, does not end or sleep over queued work, and waits with free capacity
  only over requests an extension queued meanwhile (its wait does not include the wakeup).
* `ImplementsThrottle`: both slot implementations refine `Throttle`, whose
  spacing is the least delay the settings allow: AutoThrottle may lower a delay
  while a task sleeps, and the holder of the Python slot's lock keeps the old one.
* `PolicyIsRespected`, `ChecksEnd`: the robots policy under
  cancelled, failing and late fetches: one fetcher per origin, no download it forbids, nobody asleep
  on a policy that is there or that nobody fetches.
* `OneDownload`, `OneResult`, `ReportedIsStored`: the media pipelines over late,
  early and simultaneous requests. The last one is as strong as the code allows: a
  result of this crawl means that all parts are stored, a file found up to date
  only that the main one is, since an earlier crawl may have died or failed
  between an image and its thumbnails, or, over FTP, in the middle of a file.
* `CopiesCarryTheirOwn`: after any sequence of redirects, retries, cached answers and meddling,
  a request carries cookies, logins, proxy credentials and referrer only where they belong, and
  an exemption from the offsite filter only where it was given.
* `OutputsSurviveErrors`: whichever hook fails and whichever recovers, each output passes each
  hook behind its origin once, and no exception hook is asked twice.
* `TeardownIsWhole`, `StopIsHonoured`: the crawl as a whole under two faults anywhere.
* `StoredOrReported`, `BatchesAreWhole`, `ClosedIsComplete`: the feeds, up to what stands at the
  target: an item is stored with the batch that was open when it came (`brought`, a history
  variable), or that very batch counts as failed; rows of CSV line up with their headers.
* `QueuesAreRead`, `ImportedOnce`, `HighestPriorityWins`: the import, from the bytes'
  positions to the job that others continue.

### Fairness

Weak fairness only. Event-loop tasks that are ready run, `crawl()` is resumed,
woken Tokio futures are polled and timers fire: that is what the two runtimes
do. Downloads and uploads end because they have timeouts, `start()` is assumed to yield or
end. In `liveness` the owner restarts an interrupted job. In `handlers` every step of a journey
is one the engine's task takes when it runs; that a journey ends is then a matter of
the limits. In `lifecycle` nothing obliges a spider to end by itself: only `KillEnds` speaks of
an end, after two signals. Failures, close,
cancellation and what extensions do are never owed. `SlotNeverWedges` assumes
that tasks stop giving up some day; without that the statement is false for any
semaphore.

## 6. Finding

`engine.py:753` (`idle_wakeup`): the native engine clears its wakeup after
the pass and then looks at nothing else. A request scheduled between the
return of the last worker and the clear is forgotten, and once a receiver of
`spider_idle` raises `DontCloseSpider`, which `docs/USER_GUIDE.md:756` offers
for adding work, the engine sleeps with the request queued. The Python engine
looks at its queue again (line 179), and `python_crawl` shows that the same
property holds there.

### Observations

What the models had to take into account; no run is devoted to them.

Slots, media, handlers:

* A slot idle for 60 seconds is forgotten with its last start (`slots.rs:80`), so a
  delay above 60 seconds is not kept across the pruning; `docs/USER_GUIDE.md:1021` makes no exception.
* A request whose errback recovers gets what the errback returns when it awaited the
  failing download, and the failure itself when it came later (`pipelines/media.py:136`;
  `docs/USER_GUIDE.md:294` says that requests with one fingerprint share one result).
* A failed FTP upload leaves a partial file that a later crawl reports up to date.
* A class-specific media setting with a falsy value is ignored (`_key_for_pipe`).
* The credentials of a SOCKS proxy do not survive a retry (`proxy.py:117`).
* A compressed download that StopDownload ended with `fail=False` ends in the errback, since what there
  is of its body cannot be decoded (`downloadermiddlewares.py:303`).
* `origin-when-cross-origin` and its like do not hold back the origin of a local page.
* The meta key that holds the endpoint of an `s3://` download stays for later redirects.

Engines and spiders:

* A page that a CrawlSpider first finds through a rule that does not follow is never
  expanded, also when a following rule finds it later.
* An entry of a component list whose path is an alias and whose priority is None disables
  nothing when the base setting uses the other path in its own list (`components.py:107`).

Lifecycle:

* `stop()` gathers without `return_exceptions`: it returns or raises before the other crawls'
  teardown has ended, and `start(stop_after_crawl=False)` then waits for ever.
* A second `crawl()` of a running Crawler raises, and discards the crawler from the runner's set.
* The lock of a job directory is kept until garbage collection when a service fails to start
  under the native engine.
* A cancellation inside the teardown skips the rest of `_finish`, and handlers behind the one
  being closed stay open; handlers built eagerly before an HTTP handler that cannot be built are
  never closed (`downloadhandlers.py:373`). One handler instance under two schemes is closed twice.
* `_cancel_task` takes its caller's own cancellation for that of the task.
* `create_crawler` with a Crawler puts the runner's own mutable values into its settings.

Feeds:

* One failed export drops the later items of that batch. An item written to a batch whose upload
  has begun, which happens once the next slot could not be made, may be missing in the target; the batch
  counts as stored all the same. A batch can be both stored and marked failed.
* An overwriting local feed destroys the earlier file also when its batch fails; S3 and GCS keep it.
* CSV without `fields` drops what a later item has beyond the columns of the first, and warns once.

## 7. Proofs

Every theorem below holds for all values of the constants that satisfy the `ASSUME` of its
module, and TLC evaluates those on every run. The pattern is the same throughout: an inductive
invariant, checked by TLC on the run's instance first, a lemma per conjunct with a step per action,
and PTL for the temporal step. What a group of actions does to the variables is one lemma
(`AnyStep`, `ScheduleDoes`, `CloserDoes`, ...) that the conjuncts share.

### The coordinator: first part of `NativeCrawlProofs`

For all sets of workers and fingerprints, all
limits, queue orders and imported rows, with or without a job directory:
`TypeCorrect`, `NumbersHaveOneHome`, `StoreIsMirrored`, `WorkIsUnique`,
`WakeupsArrive`, `ConcurrencyIsBounded` and `OrderIsKept`.

Assumptions: `OrderAssumption` and `CoordinatorAssumption` (limits are positive,
requests count as persistent only with a job directory, imported rows are finite
and have distinct numbers and distinct filtered fingerprints, which the tables'
keys ensure).

The properties are not inductive one by one. `Inv` adds three facts:
without a job directory the store stays empty (`StoreIsOptional`); every
outstanding filtered request has its fingerprint in memory
(`OutstandingIsSeen`), which is why a new request that passes the filter cannot
duplicate an old one, and why a restart after a migration must restore
fingerprints; and all collections are finite (`AllFinite`), without which the
limit could not be counted. `OrderIsKept` rests on `NextOutranks`: the two
comparisons of heap tops and the choice of storage add up to one flat order.

### The native engine: second part of `NativeCrawlProofs`

`BooksAreKept`, `CrawlTypeCorrect` and `CoordinatorInUse` need only `CrawlAssumption`: links and start
pages are pages, there are finitely many callers, as many as the concurrency, and 0 and -1 are priorities. `CoordinatorInUse`
says that the coordinator's whole invariant holds while the engine drives it, crash by crash: each step of the
engine is a step of the coordinator or leaves it alone (the `...Step` lemmas are stated for
any such step, so they serve both specifications). `BacklogIsBounded` proves
`StartBacklogBounded` by counting. Its invariant, `BacklogInv`, says that every active number is in a
worker's hands, that the rows which are neither queued nor active are at most as many as the
workers that failed, that a granted slot is still free, and that there are at most
`PendingLimit + Concurrency` rows of start requests: a crash turns the active ones back into queued ones,
which is why the bound is the limit alone on the first run only.

With a job directory (`Persistent`): `JobIsKept` (its invariant), `NothingDropsOut` (`NothingIsLost`),
`FinishedMeansExhausted` (`FinishedIsExhausted`) and `EngineImplementsJob` (`ImplementsJob`): each step of the
engine with its coordinator and its store maps to a step of `CrawlJob` or to none. The invariant
of the job says where a page may be: in a row, in memory, with a worker, among the outputs still to be
scheduled, given up or handled; and that a page is handled in the books of the job only when
its links are asked for. `asked` differs from the fingerprints of the store by pages that only
exempt requests asked for (`AskedIsRemembered`), and every request that is anywhere is of a page in
`asked`, filtered or not (`KnownIsAsked`); an exempt request for a page that is known is
`AskAgain` of `CrawlJob`. `ExemptStarts` and `ExemptLinks` are arbitrary in all of this, so the
theorems cover the default `start()` and callbacks that yield exempt links, which no run has; what tells a first attempt from a retry is
its priority, not the filter. Without a job directory there is no job to keep, and the theorems say nothing
beyond the first three.

### The Python engine: `PythonCrawlProofs`

For all sites, rules, start outputs, limits and extensions:

* `RulesAreFollowed`: the nested loops of `_requests_to_follow` and `LinkExtractor` give, for each page, exactly
  the links that its rules want (`Wanted`), though rules compete and what one took the next does not see. The
  loops are recursive functions along sequences; `Recursion` and `UpTo` of `SequenceLemmas` carry a fact from one
  element to the next.
* `PythonTypeCorrect`, and `WantedWorkStarts` (`WantedWorkIsStarted`).
* `PythonEngineImplementsJob` (`ImplementsJob`): a request that is scheduled for the first time is `Discover`, the end
  of a page with its links `Expand`, a page that is given up `GiveUp`, everything else a stutter.

`PythonInv` has five parts. `LoopInv` says what the loop holds in each phase: between batches nothing, when it looks
for the end no task either. `StartInv` follows the outputs of `start()` through the queue, the task that gets from it
and the loop: how it ended comes last. `WalkInv` says that every request is the end of a walk as long as its depth;
without a depth limit such a walk is shorter than the pages seen are many, since each step was to a new page.
`LinksInv` says that what a page wants is known or still among the outputs of its callback.

Assumptions: `WebAssumption` (links lead to urls of the site, rules restrict to regions that pages have),
`FiltersAssumption` and `CrawlAssumption`. Of the last one conjunct is there for the reference only: without a depth limit the
fingerprints are finite, because `Walk` counts up to their number. A crawl of an infinite site needs a depth limit to
end anyway.

### Journeys: `RequestJourneyProofs`

For all urls, servers, settings, component lists and middlewares: `StreamsSurviveErrors` (`OutputsSurviveErrors`),
`JourneysAreBounded` (`DownloadsBounded`), `StaleCopiesAreExcused` (`StaleNeedsAReason`) and `CopiesAreClean`
(`CopiesCarryTheirOwn`).

The engine is around two things that share no variable, so there are two invariants. `StreamInv` accounts for every output of
a callback: it is in front of a component and has passed those between that and its origin (`PendingInPlace`),
passed all (`PassedInPlace`), or was cut by a hook that failed where nothing behind could recover
(`AllAccountedFor`). `JourneyInv` says that every download but the last is paid for by a retry, a redirect or a meddling
(`DownloadsArePaid`); that what an answer says was heard on this passage (`AnswerIsHeard`); what the components asked so
far have made sure of (`PassageInOrder`); and that what a copy carries came from its maker or belongs to its url
(`Descends`).

The order of the components matters: `OrderAssumption` demands that the base setting's offsite, cookies and proxy
middlewares are enabled, that a project's own middleware is above the proxies (below, it could exchange the proxy
behind the credentials), and that cookies are below the redirects (otherwise a redirect is followed without the
cookie of the page that redirects). The base setting of `settings.py` has this order. `StartsAssumption` says what a
request may carry when it is made: no credentials, no history. `PoliciesAssumption` types the referrer
policies, `ChainAssumption` the limits and lists.

### Download slots: `DownloadSlotsProofs`, `SequenceLemmas`

For all keys, tasks, limits, delays and latencies, and for both implementations:
`SlotsKeepTheirShape`, `CountsAreKept` (`CountsMatchTasks`) and `NobodyOversleeps`
(`NoOversleep`) from the modules' assumptions (finitely many tasks), and `SlotsImplementThrottle`
(`ImplementsThrottle`). The last has a hypothesis, `SpacingHolds`: a native slot keeps its
spacing only if the least delay is within the time for which an idle slot is remembered. It is
what the code needs: above 60 seconds the spacing is lost (`slots.rs:80`, section 6).

`NativeInv` counts what the slot's counters count: active is the number of leases, waiting that of tasks in
acquire; an alarm is never later than the slot's next start. `NativeSpaced` relates the
slot's age to that of the abstract one, through pruning. `PythonInv` has the lines of the semaphore and the
lock (`PythonLines`): who is in them, once, and that a permit or the lock is free only when its line
is empty; and that the holder of the lock sleeps no longer than next_start asked when it
looked (`PythonSleeps`). What a line contains once its first or one of its members has left it is
in `SequenceLemmas`, from injections and cardinalities, so that no induction over a line's length is needed.

### Robots: `RobotsPolicyProofs`

For all callers, pages, origins and permits: `RobotsTypeCorrect`, `RobotsAreObeyed`
(`PolicyIsRespected`) and `GateLosesNoPermit` (`GateIsKept`, stated beside the module and not
checked by a run). `FetchersKnown` names the one task that fetches a policy, so that an origin is in
"fetching" exactly while somebody will settle it: this is what makes `SleepersAreWoken`
inductive. `GateFits` relates the line of the gate to the permits that are out. The only
assumptions: callers are finite and distinct from the gate's other workers, there is a page, the number of
permits is positive.

### Media: `MediaPipelineProofs`

For all items, files, requests, parts, limits and stores:
`MediaTypeCorrect`, `FilesAreFetchedOnce`, `OutcomesAgree` and `ReportsAreTrue`,
from `MediaAssumption` alone (every request has an item and a file, every file at
least one part). `MediaInv` ties answers and the dictionary to the task:
`AnswersAgree` and `DownloadedAgrees` say that both repeat how the task ended and
that only a file without a task is absent, so nobody starts a second one;
`WrittenIsStored` follows fetches and parts along the task, and that the store only
grows makes it survive later crawls. `CutIsInPlace` says that only a store that writes in place
holds a cut file, which is what `ReportedIsStored` needs of a file found up to date; the lemmas
`LeftInStore` and `CutsAreFTP` read it off the stores, `MovingStep` and `PersistStep` carry it
over the steps.

### Feeds: `FeedExportProofs`

For all feeds, items, classes, layouts, batch sizes, limits and numbers of failures:
`FeedsTypeCorrect`, `FeedsCloseCompletely` (`ClosedIsComplete`), `ItemsAreStoredOrReported`
(`StoredOrReported`) and `BatchesStayWhole` (`BatchesAreWhole`), from `FeedAssumption` (feeds are a sequence without
repetition, items are finite and have values only for fields they declare, a feed's option `fields` is one list or none, what
stood at a target before is a sequence).

`ClosesAreKept` ties a slot to the tasks of `_close_slot` made for it: the first is pending until the
slot has been told, so no more slots are being stored than tasks are pending, and a slot with a task
but without a pending one is done. `BatchesInOrder` says that every batch with something in it gets such
a task: those behind the open one have it, those ahead are untouched, the open ones get it
from the loop of `close_spider`. `OpenAreOpen` is why nothing is written behind a storage's back: between two
items the open batch of a feed has no task, unless its next slot could not be made, which is the
exception that `StoredOrReported` makes. `ItemsArePlaced` says of the loop over the feeds that what went past a
feed is in the batch that was open then, or that batch has failed (`TurnBrings`). `SlotsAreCounted` bounds the batches by the items that are done.
The lemmas about the exporters (`ExportKeeps`, `FinishKeeps`) say that each call only adds
to a file and that, once the plugins are closed, nothing is held back.

For `BatchesStayWhole` the invariant is `WholeInv`. `FilesFit` says of every slot that, while it is open, the file
and what the plugins hold back are together the beginning of the document of its items (`OpenFits`); that what the
storage was given is the whole document of the first of them (`StoredFits`), of the first only, since an item may still be written to
a file that is being stored; that a CSV file has but headers and rows of the same columns (`RowsFit`). `SizesFit` says when a batch
is full: the open one only within the turn of the loop that replaces it (`Turning`). `SingleBatches` and `FeedsAreValid` are
why no two batches have one target. The reference document is computed along the items: `BodyGrows` says that one item
more adds a separator and the item, and `EntryOutline` that `export_item` writes just that.

Trying to prove the first three showed that `_close_slot` must be modelled in the order in which
the tasks were made (asyncio starts them so): with a later task allowed to be the first, the one
before it would never end. Runs with one upload at a time could not tell; `feeds` now has two. `BatchesStayWhole` showed that an
empty list of `fields` is not the same as none: the CSV exporter takes the columns of the first item for either
(`Detects`), the others write no field for the empty list and all for none (`FieldsOf`).

## 8. Only model-checked

* All liveness (`JobsEnd`, `SlotNeverWedges`, `ChecksEnd`, `FeedsSettle`, ...): fairness and
  ENABLED are out of the prover's reach.
* `TeardownIsWhole` of the lifecycle; `HighestPriorityWins`, `QueuesAreRead` and `ImportedOnce` of settings and import: not
  attempted. The state of the lifecycle is the position in every await of setup and teardown, and its invariant would
  repeat the module; the reading of FIFO queues is computed along files and would need an induction of its own.
* What holds for every element of a sequence by a computation along it is proved where it mattered most (the rules, the
  document of a batch), by the first-order lemmas `HasLeast`, `UpTo` and `Recursion`: the library's induction rules
  take operators, which the provers cannot instantiate. `SelectSeq`, which is recursive in the library, stays opaque:
  the theorems that meet it (`Row` in `HandlerChain`) assume the little they need of its result, and TLC evaluates
  that on every run.

## 9. Abstractions and what is not modelled

* `start()` yields only requests in the engines' modules; items and the awaits of pipelines between two
  outputs are not separate there, but other tasks may run between any two outputs. Items have a model of
  their own in `FeedExport` and `MediaPipeline`.
* In the engines' modules the opening signals and `_finish` are left out: they happen when no worker
  exists; `CrawlerLife` models them. A receiver of `spider_idle` that raises
  CloseSpider ends the crawl as `IdleEnds` does, with another reason. The spider's state blob is saved
  at an orderly end and not modelled.
* The store's early return for a fingerprint it already has cannot be reached
  while memory mirrors the store, and is not an action.
* Payloads, SQL, statistics and log lines are left out. Of pickling, what makes it fail is kept.
* Cookies are one per host; domains and paths are the cookie library's. The cache has RFC2616Policy with
  ages as a fresh bit; DummyPolicy and the store's files are left out.
* Field serializers and the values of fields are left out of the feeds, sessions of remote storages
  out of feeds and media.
* The history of settings ends when they are frozen, and Scrapy's crawl is put behind them, on which it does
  not depend: the two would multiply.
* Not modelled because they are input and output or parsing with no state
  between calls: sockets, TLS and connection pools, name resolution, HTTP values and their text,
  fingerprint canonicalisation (a fingerprint stands for a canonical URL), selectors, sitemaps, logging, mail, the
  protocols of the consoles and the Scrapy namespace package.

## 10. Plan

Done: every component of section 1 but the last row, and the theorems of section 7. What is left:

1. Theorems: `ImportedOnce` and `QueuesAreRead` for `JobImport`; `HighestPriorityWins` for `CrawlSettings`;
   `TeardownIsWhole` for `CrawlerLife`.
2. Models: DummyPolicy and the files of the HTTP cache; item pipelines between scraping and exporting;
   DNS cache and resolver failover; the bridge to a reactor.
