--------------------------- MODULE MediaPipeline ---------------------------
(***************************************************************************)
(* File and image pipelines (pipelines/media.py, files.py, images.py,      *)
(* media.rs) and the internal downloads of the engine they use.            *)
(*                                                                         *)
(* An item asks for files; all requests with the same fingerprint share    *)
(* one download task and then its result, for as long as the crawl lasts.  *)
(* The engine's workers process items concurrently, and the media store    *)
(* outlives the crawl, with whatever a crawl that failed has left in it.   *)
(* An item is cancelled only with its crawl.                               *)
(***************************************************************************)
EXTENDS Naturals, FiniteSets, MediaStores

CONSTANTS
    Items,
    Files,       \* what media requests are told apart by: their fingerprints
    Requests,    \* the media requests of all items
    ItemOf, FileOf,
    Errback,     \* per request: whether its errback recovers from a failure
    Parts,       \* per file: what is stored for it, an image and its thumbnails
    Permits,     \* CONCURRENT_REQUESTS, the size of _internal_downloads
    Configured,  \* the stores that FILES_STORE or IMAGES_STORE may name
    MaxCrawls    \* bound on the crawls that share the store

ASSUME MediaAssumption ==
    /\ ItemOf \in [Requests -> Items]
    /\ FileOf \in [Requests -> Files]
    /\ Errback \in [Requests -> {"none", "recovers", "raises"}]
    /\ Parts \in [Files -> Nat \ {0}]
    /\ {Permits, MaxCrawls} \subseteq Nat \ {0}
    /\ Configured \subseteq Stores

VARIABLES
    downloaded,  \* per file: info.downloaded, "task" while it holds the task
    task,        \* per file: the download task, where it is or how it ended
    written,     \* per file: parts its task has stored
    fetches,     \* per file: downloads in this crawl
    robots,      \* what the origin of the files answered for robots.txt
    answer,      \* per request: what _process_request has come to
    item,        \* per item: its process_item
    store,       \* the store in use
    whole,       \* per file: the parts that are in the store,
    cut,         \* and the parts of which the store has only a beginning
    crawls       \* crawls so far

taskVars == <<task, written, fetches, robots>>
itemVars == <<downloaded, answer, item>>
storeVars == <<store, whole, cut>>
vars == <<itemVars, taskVars, storeVars, crawls>>

Ended == {"info", "failure"}

TaskStates == {"none", "stat", "queued", "checking", "fetching", "storing"} \cup Ended

All(S, x) == [y \in S |-> x]

Init ==
    /\ downloaded = All(Files, "absent") /\ task = All(Files, "none")
    /\ written = All(Files, 0) /\ fetches = All(Files, 0) /\ robots = "unknown"
    /\ answer = All(Requests, "idle") /\ item = All(Items, "new")
    /\ store \in Configured
    /\ whole = All(Files, {}) /\ cut = All(Files, {}) /\ crawls = 1

\* The part that persist_file is given now.
Current(f) == written[f] + 1

Touched(left, f, how) == IF left[f] = how THEN {Current(f)} ELSE {}

\* How a persist_file of each of these files may have ended.
LeftBehind(left) ==
    /\ whole' = [f \in Files |-> (whole[f] \ Touched(left, f, "cut")) \cup Touched(left, f, "whole")]
    /\ cut' = [f \in Files |-> (cut[f] \ Touched(left, f, "whole")) \cup Touched(left, f, "cut")]
    /\ UNCHANGED store

\* The crawl ends, orderly or not; all its tasks are gone, and another one finds the
\* same store.
NextCrawl ==
    /\ crawls < MaxCrawls
    /\ crawls' = crawls + 1
    /\ downloaded' = All(Files, "absent") /\ task' = All(Files, "none")
    /\ written' = All(Files, 0) /\ fetches' = All(Files, 0) /\ robots' = "unknown"
    /\ answer' = All(Requests, "idle") /\ item' = All(Items, "new")
    /\ \E left \in [Files -> {"before", "cut", "whole"}] :
          /\ \A f \in Files :
                left[f] \in IF task[f] = "storing" THEN Leaves(store) ELSE {"before"}
          /\ LeftBehind(left)

-----------------------------------------------------------------------------
(***************************************************************************)
(* The waiting side: process_item and _process_request.                    *)
(***************************************************************************)

ProcessItem(i) ==
    /\ item[i] = "new"
    /\ item' = [item EXCEPT ![i] = "busy"]
    /\ UNCHANGED <<downloaded, answer, taskVars, storeVars, crawls>>

Answers(r, result) == answer' = [answer EXCEPT ![r] = result] /\ UNCHANGED item

Begins(r) == item[ItemOf[r]] = "busy" /\ answer[r] = "idle"

\* Its field of URLs is not a list: it fails before it has asked for anything.
RejectsField(i) ==
    /\ item[i] = "new"
    /\ item' = [item EXCEPT ![i] = "failed"]
    /\ UNCHANGED <<downloaded, answer, taskVars, storeVars, crawls>>

\* What an earlier request has left is the answer, an exception without the errback.
AnswerCached(r) ==
    /\ Begins(r)
    /\ downloaded[FileOf[r]] \in Ended
    /\ Answers(r, downloaded[FileOf[r]])
    /\ UNCHANGED <<downloaded, taskVars, storeVars, crawls>>

StartUnshared(r) ==
    /\ Begins(r)
    /\ downloaded[FileOf[r]] = "absent"
    /\ task' = [task EXCEPT ![FileOf[r]] = "stat"]
    /\ Answers(r, "waiting")
    /\ UNCHANGED <<downloaded, written, fetches, robots, storeVars, crawls>>

StartDownload(r) ==
    /\ Begins(r)
    /\ downloaded[FileOf[r]] = "absent"
    /\ task' = [task EXCEPT ![FileOf[r]] = "stat"]
    /\ downloaded' = [downloaded EXCEPT ![FileOf[r]] = "task"]
    /\ Answers(r, "waiting")
    /\ UNCHANGED <<written, fetches, robots, storeVars, crawls>>

JoinDownload(r) ==
    /\ Begins(r)
    /\ downloaded[FileOf[r]] = "task"
    /\ Answers(r, "waiting")
    /\ UNCHANGED <<downloaded, taskVars, storeVars, crawls>>

ForgetFailure(f) ==
    downloaded' = [downloaded EXCEPT ![f] = IF task[f] = "info" THEN "info" ELSE "absent"]

Remember(f) == downloaded' = [downloaded EXCEPT ![f] = task[f]]

\* The task has ended.  Everyone who waited for it stores what it came to; the errback
\* of a failed request may answer instead.
TakeResult(r) ==
    LET f == FileOf[r] IN
    /\ answer[r] = "waiting"
    /\ task[f] \in Ended
    /\ Remember(f)
    /\ Answers(r, IF task[f] = "failure" /\ Errback[r] = "recovers" THEN "recovered"
                  ELSE task[f])
    /\ UNCHANGED <<taskVars, storeVars, crawls>>

ItemCompleted(i) ==
    /\ item[i] = "busy"
    /\ \A r \in Requests : ItemOf[r] = i => answer[r] \notin {"idle", "waiting"}
    /\ item' = [item EXCEPT ![i] = "done"]
    /\ UNCHANGED <<downloaded, answer, taskVars, storeVars, crawls>>

-----------------------------------------------------------------------------
(***************************************************************************)
(* The download task: _download_media, download_async.                     *)
(***************************************************************************)

Moves(f, from, to) == task[f] = from /\ task' = [task EXCEPT ![f] = to]

Present(f) == 1 \in whole[f] \cup cut[f]

\* The store has the file, and it is not older than EXPIRES days.
UpToDate(f) ==
    /\ "found" \in StatFile(store, Present(f))
    /\ Moves(f, "stat", "info")
    /\ UNCHANGED <<itemVars, written, fetches, robots, storeVars, crawls>>

\* It has not, or an old one, or cannot say.
Outdated(f) ==
    /\ Moves(f, "stat", "queued")
    /\ UNCHANGED <<itemVars, written, fetches, robots, storeVars, crawls>>

\* Downloads inside async with _internal_downloads.
Inside == {f \in Files : task[f] \in {"checking", "fetching"}}

EntersDownload(f) ==
    /\ Cardinality(Inside) < Permits
    /\ Moves(f, "queued", "checking")
    /\ UNCHANGED <<itemVars, written, fetches, robots, storeVars, crawls>>

\* The robots middleware, inside the download, makes a download of its own; those who
\* come meanwhile wait for it.
AskRobots(f) ==
    /\ task[f] = "checking" /\ robots = "unknown"
    /\ robots' = "requested"
    /\ UNCHANGED <<itemVars, task, written, fetches, storeVars, crawls>>

RobotsAnswersInside ==
    /\ robots = "requested"
    /\ Cardinality(Inside) < Permits
    /\ robots' = "known"
    /\ UNCHANGED <<itemVars, task, written, fetches, storeVars, crawls>>

\* A _robotstxt_request passes by the semaphore.
RobotsAnswers ==
    /\ robots = "requested"
    /\ robots' = "known"
    /\ UNCHANGED <<itemVars, task, written, fetches, storeVars, crawls>>

Fetches(f) ==
    /\ robots = "known"
    /\ Moves(f, "checking", "fetching")
    /\ fetches' = [fetches EXCEPT ![f] = @ + 1]
    /\ UNCHANGED <<itemVars, written, robots, storeVars, crawls>>

Responds(f) ==
    /\ Moves(f, "fetching", "storing")
    /\ UNCHANGED <<itemVars, written, fetches, robots, storeVars, crawls>>

\* robots.txt or the download says no.
DownloadFails(f) ==
    /\ \/ robots = "known" /\ Moves(f, "checking", "failure")
       \/ Moves(f, "fetching", "failure")
    /\ UNCHANGED <<itemVars, written, fetches, robots, storeVars, crawls>>

\* Its status is not 200, or it has no body.
RejectsResponse(f) ==
    /\ Moves(f, "fetching", "failure")
    /\ UNCHANGED <<itemVars, written, fetches, robots, storeVars, crawls>>

\* The image is too small or is none, or the next thumbnail cannot be made of it.
ConversionFails(f) ==
    /\ Moves(f, "storing", "failure")
    /\ UNCHANGED <<itemVars, written, fetches, robots, storeVars, crawls>>

PersistFails(f) ==
    /\ Moves(f, "storing", "failure")
    /\ \E left \in Leaves(store) :
          LeftBehind([g \in Files |-> IF g = f THEN left ELSE "before"])
    /\ UNCHANGED <<itemVars, written, fetches, robots, crawls>>

StoresPart(f, last) ==
    /\ task[f] = "storing"
    /\ written' = [written EXCEPT ![f] = @ + 1]
    /\ LeftBehind([g \in Files |-> IF g = f THEN "whole" ELSE "before"])
    /\ task' = [task EXCEPT ![f] = IF written'[f] = last THEN "info" ELSE @]
    /\ UNCHANGED <<itemVars, fetches, robots, crawls>>

PersistFirst(f) == StoresPart(f, 1)

\* The image and then its thumbnails, one persist_file each.
Persist(f) == StoresPart(f, Parts[f])

-----------------------------------------------------------------------------

RequestStep(r) ==
    AnswerCached(r) \/ StartDownload(r) \/ JoinDownload(r) \/ TakeResult(r)

TaskStep(f) ==
    \/ UpToDate(f) \/ Outdated(f) \/ EntersDownload(f) \/ AskRobots(f)
    \/ Fetches(f) \/ Responds(f) \/ DownloadFails(f) \/ RejectsResponse(f)
    \/ ConversionFails(f) \/ PersistFails(f) \/ Persist(f)

Next ==
    \/ NextCrawl
    \/ \E i \in Items : ProcessItem(i) \/ RejectsField(i) \/ ItemCompleted(i)
    \/ \E r \in Requests : RequestStep(r)
    \/ \E f \in Files : TaskStep(f)
    \/ RobotsAnswers

\* Ready coroutines run; downloads and stores answer, by a timeout if need be.
Fairness ==
    /\ \A i \in Items : WF_vars(ItemCompleted(i))
    /\ \A r \in Requests : WF_vars(RequestStep(r))
    /\ \A f \in Files : WF_vars(TaskStep(f))
    /\ WF_vars(RobotsAnswers)

Spec == Init /\ [][Next]_vars /\ Fairness

-----------------------------------------------------------------------------
(***************************************************************************)
(* Properties.                                                             *)
(***************************************************************************)

\* Types; a task never writes more parts than its file has.
MediaTypeOK ==
    /\ downloaded \in [Files -> {"absent", "task"} \cup Ended]
    /\ task \in [Files -> TaskStates]
    /\ {written, fetches} \subseteq [Files -> Nat]
    /\ \A f \in Files : written[f] <= Parts[f]
    /\ store \in Configured
    /\ {whole, cut} \subseteq [Files -> SUBSET Nat]
    /\ \A f \in Files : whole[f] \cup cut[f] \subseteq 1 .. Parts[f]
    /\ \A f \in Files : whole[f] \cap cut[f] = {}
    /\ robots \in {"unknown", "requested", "known"}
    /\ answer \in [Requests -> {"idle", "waiting", "recovered"} \cup Ended]
    /\ item \in [Items -> {"new", "busy", "done", "failed"}]
    /\ crawls \in 1 .. MaxCrawls

\* However many items ask for a file, and whenever they do, one crawl downloads it once
\* (_process_request: the task is in info.downloaded before anyone can look again).
OneDownload == \A f \in Files : fetches[f] <= 1

\* A file does not fail for one request of a crawl and succeed for another: failures
\* are remembered like results (_CachedFailure).
OneResult ==
    \A q, r \in Requests :
        FileOf[q] = FileOf[r] /\ answer[q] = "info" => answer[r] \notin {"failure", "recovered"}

\* A result that an item carries is in the store: all parts of a file this crawl has
\* downloaded, whatever was there before; the main part of one it found up to date
\* (image_downloaded, media_to_download), which only a store that writes in place may
\* have kept from an upload that failed.
ReportedIsStored ==
    \A r \in Requests :
        LET f == FileOf[r] IN
        answer[r] = "info" =>
            /\ fetches[f] > 0 => whole[f] = 1 .. Parts[f]
            /\ 1 \in whole[f] \cup IF store = "ftp" THEN cut[f] ELSE {}

\* An item that is being processed is completed, or ends with its crawl, whatever
\* happens to its files: downloads that wait for robots.txt hold their permits, and
\* robots.txt must not need one (download_async).
ItemsEnd == \A i \in Items : item[i] = "busy" ~> item[i] # "busy"
=============================================================================
