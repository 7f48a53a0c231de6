----------------------------- MODULE JobImport -----------------------------
(***************************************************************************)
(* The import of a job directory of Scrapy (jobinterop.py) by the native   *)
(* engine.  A crawl of Scrapy leaves a queue and its fingerprints; then    *)
(* processes start on the directory, one of them imports, any may die, and *)
(* whoever opens the job continues it.  Requests are numbered as they were *)
(* queued by Scrapy.                                                       *)
(***************************************************************************)
EXTENDS CrawlSettings, FiniteSets

CONSTANTS
    Processes,
    ChunkSize,     \* entries of one file of a FIFO queue
    MaxPushes,     \* bound on the requests of the crawl of Scrapy
    MaxCrashes     \* bound on the processes that die

ASSUME ImportAssumption == ChunkSize \in Nat \ {0} /\ MaxPushes \in Nat /\ MaxCrashes \in Nat

VARIABLES
    process,       \* what each process is at
    scrapy,        \* the directory requests.queue
    pending,       \* history: what Scrapy has in its queue, in the order of the pushes
    pushes,
    seen,          \* requests.seen: fingerprints, and whether the last of them is cut short
    database,      \* job.sqlite3
    temporary,     \* of each process, the database it writes aside
    lock,          \* the process that has .spideroxide.lock
    unresolved,    \* the processes whose spider lacks a callback that a request names
    completed,     \* history: requests that a native crawl has handled
    crashes
scrapyVars == <<scrapy, pending, pushes, seen>>
importerVars == <<database, temporary, lock, unresolved, completed, crashes>>
importVars == <<process, scrapyVars, importerVars>>
vars == <<settingsVars, importVars>>

Nobody == "nobody"
NoFile == [exists |-> FALSE]
Orders == {"fifo", "lifo"}

\* A FIFO queue is a row of files; head and tail are positions <<file, entries before it>>.
EmptyQueue(order) == [
    order |-> order,
    chunks |-> [n \in 0..MaxPushes |-> <<>>],
    head |-> <<0, 0>>, tail |-> <<0, 0>>, size |-> 0,
    entries |-> <<>>,        \* a LIFO queue is one file
    listed |-> FALSE,        \* active.json, written at an orderly end
    dead |-> FALSE]

Init ==
    /\ SettingsInit
    /\ process = [p \in Processes |-> "down"]
    /\ \E order \in Orders : scrapy = EmptyQueue(order)
    /\ pending = <<>> /\ pushes = 0 /\ seen = [whole |-> {}, cut |-> FALSE]
    /\ database \in {NoFile, [exists |-> TRUE, marked |-> FALSE, rows |-> <<>>, seen |-> {}]}
    /\ temporary = [p \in Processes |-> NoFile]
    /\ lock = Nobody /\ unresolved = {} /\ completed = {} /\ crashes = 0

\* No step of Scrapy depends on the settings of the processes that come after it: they are made
\* before it starts.
Crawling == stage = "frozen" /\ ~scrapy.listed /\ ~scrapy.dead

-----------------------------------------------------------------------------
(* The disk queues of Scrapy. *)

After(position) ==
    IF position[2] + 1 = ChunkSize THEN <<position[1] + 1, 0>> ELSE <<position[1], position[2] + 1>>

ScrapyPushes ==
    /\ Crawling /\ pushes < MaxPushes
    /\ pushes' = pushes + 1 /\ pending' = Append(pending, pushes + 1)
    /\ seen' = [seen EXCEPT !.whole = @ \cup {pushes + 1}]
    /\ scrapy' = IF scrapy.order = "lifo"
                 THEN [scrapy EXCEPT !.entries = Append(@, pushes + 1)]
                 ELSE [scrapy EXCEPT !.chunks[scrapy.head[1]] = Append(@, pushes + 1),
                                     !.head = After(@), !.size = @ + 1]
    /\ UNCHANGED <<settingsVars, process, importerVars>>

\* A file whose last entry is popped is removed, and so is a queue that is empty.
ScrapyPops ==
    /\ Crawling /\ pending # <<>>
    /\ pending' = IF scrapy.order = "lifo" THEN Front(pending) ELSE Tail(pending)
    /\ LET tail == After(scrapy.tail) IN
       scrapy' = IF Len(pending) = 1 THEN EmptyQueue(scrapy.order)
                 ELSE IF scrapy.order = "lifo" THEN [scrapy EXCEPT !.entries = Front(@)]
                 ELSE [scrapy EXCEPT !.tail = tail, !.size = @ - 1,
                         !.chunks[scrapy.tail[1]] = IF tail[1] > scrapy.tail[1] THEN <<>> ELSE @]
    /\ UNCHANGED <<settingsVars, process, pushes, seen, importerVars>>

ScrapyEnds ==
    /\ Crawling
    /\ scrapy' = [scrapy EXCEPT !.listed = TRUE]
    /\ UNCHANGED <<settingsVars, process, pending, pushes, seen, importerVars>>

\* Scrapy dies, perhaps while it writes a fingerprint.
ScrapyDies ==
    /\ Crawling
    /\ scrapy' = [scrapy EXCEPT !.dead = TRUE]
    /\ \E cut \in BOOLEAN : seen' = [seen EXCEPT !.cut = cut]
    /\ UNCHANGED <<settingsVars, process, pending, pushes, importerVars>>

-----------------------------------------------------------------------------
(* _read_fifo and _read_lifo. *)

Fails == [values |-> <<>>, fails |-> TRUE]

\* Mutant: a full file is left only when the writer is already in a later one.
StepEarly(at, head) ==
    IF at[2] + 1 = ChunkSize /\ at[1] < head[1] - 1 THEN <<at[1] + 1, 0>> ELSE <<at[1], at[2] + 1>>

\* The position after an entry has been read.
Step(at, head) ==
    IF at[2] + 1 = ChunkSize /\ at[1] <= head[1] THEN <<at[1] + 1, 0>> ELSE <<at[1], at[2] + 1>>

ReadFifo(q) ==
    LET read[n \in 0..q.size] ==
            IF n = 0 THEN [at |-> q.tail, values |-> <<>>, fails |-> FALSE]
            ELSE LET r == read[n - 1]
                     chunk == q.chunks[r.at[1]]
                 IN  IF r.fails \/ r.at[2] >= Len(chunk) THEN [r EXCEPT !.fails = TRUE]
                     ELSE [at |-> Step(r.at, q.head), fails |-> FALSE,
                           values |-> Append(r.values, chunk[r.at[2] + 1])]
        all == read[q.size]
    IN  IF all.fails \/ all.at # q.head THEN Fails ELSE [values |-> all.values, fails |-> FALSE]

ReadLifo(q) == [values |-> q.entries, fails |-> FALSE]

\* _read_request_queue: an empty queue has no files.  active.json must list the others, and the
\* queue class of the settings must be the one that wrote them, a directory for FIFO and a file
\* for LIFO.
ReadQueue(q, class) ==
    IF q.size = 0 /\ q.entries = <<>> THEN [values |-> <<>>, fails |-> FALSE]
    ELSE IF ~q.listed \/ class # q.order THEN Fails
    ELSE IF class = "fifo" THEN ReadFifo(q) ELSE ReadLifo(q)

-----------------------------------------------------------------------------
(* migrate_scrapy_jobdir *)

To(p, s) == process' = [process EXCEPT ![p] = s] /\ UNCHANGED settingsVars

\* _resolve_queue_order: the setting has no queue class that is supported.
EngineFails(p) ==
    /\ stage = "frozen" /\ ~Crawling /\ process[p] = "down" /\ crawler.value \notin Orders
    /\ To(p, "refused")
    /\ UNCHANGED <<scrapyVars, importerVars>>

\* The spider of a process may lack what the queue names.
Boots(p) ==
    /\ stage = "frozen" /\ ~Crawling /\ process[p] = "down" /\ crawler.value \in Orders
    /\ To(p, "started")
    /\ \/ unresolved' = unresolved \ {p}
       \/ pending # <<>> /\ unresolved' = unresolved \cup {p}
    /\ UNCHANGED <<scrapyVars, database, temporary, lock, completed, crashes>>

Refused(p) ==
    /\ process[p] \in {"started", "imported"} /\ lock # Nobody
    /\ To(p, "refused")
    /\ UNCHANGED <<scrapyVars, importerVars>>

LockDirectory(p) ==
    /\ process[p] = "started" /\ lock = Nobody
    /\ lock' = p /\ To(p, "looking")
    /\ UNCHANGED <<scrapyVars, database, temporary, unresolved, completed, crashes>>

\* The database of an earlier import is left alone.
Imported(p) ==
    /\ process[p] = "looking" /\ database.exists /\ database.marked
    /\ lock' = Nobody /\ To(p, "imported")
    /\ UNCHANGED <<scrapyVars, database, temporary, unresolved, completed, crashes>>

Raises(p) ==
    /\ lock' = Nobody /\ To(p, "refused")
    /\ temporary' = [temporary EXCEPT ![p] = NoFile]
    /\ UNCHANGED <<scrapyVars, database, unresolved, completed, crashes>>

Ambiguous(p) ==
    /\ process[p] = "looking" /\ database.exists /\ ~database.marked
    /\ Raises(p)

Queue(p) == ReadQueue(scrapy, crawler.value)

\* _read_fingerprints takes no part of one.
Readable(p) == ~Queue(p).fails /\ p \notin unresolved /\ ~seen.cut

Unreadable(p) ==
    /\ process[p] = "looking" /\ ~database.exists /\ ~Readable(p)
    /\ Raises(p)

\* Mutant: a database that was imported is imported again.
WriteAgain(p) ==
    /\ process[p] = "looking"
    /\ Readable(p)
    /\ temporary' = [temporary EXCEPT ![p] =
            [exists |-> TRUE, marked |-> TRUE, rows |-> Queue(p).values, seen |-> seen.whole]]
    /\ To(p, "written")
    /\ UNCHANGED <<scrapyVars, database, lock, unresolved, completed, crashes>>

\* The requests in the order of the file, and all the fingerprints of requests.seen.
WriteTemporary(p) ==
    /\ process[p] = "looking" /\ ~database.exists
    /\ Readable(p)
    /\ temporary' = [temporary EXCEPT ![p] =
            [exists |-> TRUE, marked |-> TRUE, rows |-> Queue(p).values, seen |-> seen.whole]]
    /\ To(p, "written")
    /\ UNCHANGED <<scrapyVars, database, lock, unresolved, completed, crashes>>

\* An error of the disk while the database is written or renamed.
WriteFails(p) ==
    /\ process[p] = "written" /\ crashes < MaxCrashes /\ crashes' = crashes + 1
    /\ lock' = Nobody /\ To(p, "refused")
    /\ temporary' = [temporary EXCEPT ![p] = NoFile]
    /\ UNCHANGED <<scrapyVars, database, unresolved, completed>>

\* os.replace, then the lock is given back.
Replace(p) ==
    /\ process[p] = "written"
    /\ database' = temporary[p] /\ temporary' = [temporary EXCEPT ![p] = NoFile]
    /\ lock' = Nobody /\ To(p, "imported")
    /\ UNCHANGED <<scrapyVars, unresolved, completed, crashes>>

-----------------------------------------------------------------------------
(* The coordinator continues the job, under the same lock. *)

Open(p) ==
    /\ process[p] = "imported" /\ lock = Nobody
    /\ lock' = p /\ To(p, "running")
    /\ UNCHANGED <<scrapyVars, database, temporary, unresolved, completed, crashes>>

Complete(p) ==
    /\ process[p] = "running"
    /\ \E r \in Range(database.rows) :
          /\ database' = [database EXCEPT !.rows = SelectSeq(@, LAMBDA q : q # r)]
          /\ completed' = completed \cup {r}
    /\ UNCHANGED <<settingsVars, process, scrapyVars, temporary, lock, unresolved, crashes>>

Leaves(p) ==
    /\ process[p] \in {"running", "refused"}
    /\ lock' = IF lock = p THEN Nobody ELSE lock
    /\ To(p, "down")
    /\ UNCHANGED <<scrapyVars, database, temporary, unresolved, completed, crashes>>

\* The process dies; what it wrote aside stays under its own name and is never read again.
Crash(p) ==
    /\ process[p] \notin {"down", "refused"} /\ crashes < MaxCrashes
    /\ crashes' = crashes + 1
    /\ lock' = IF lock = p THEN Nobody ELSE lock
    /\ temporary' = [temporary EXCEPT ![p] = NoFile]
    /\ To(p, "down")
    /\ UNCHANGED <<scrapyVars, database, unresolved, completed>>

ImportStep(p) ==
    \/ EngineFails(p) \/ Boots(p) \/ Refused(p) \/ LockDirectory(p)
    \/ Imported(p) \/ Ambiguous(p) \/ Unreadable(p)
    \/ WriteTemporary(p) \/ WriteFails(p) \/ Replace(p)
    \/ Open(p) \/ Complete(p) \/ Leaves(p) \/ Crash(p)

Configure == SettingsStep /\ UNCHANGED importVars

Next ==
    \/ ScrapyPushes \/ ScrapyPops \/ ScrapyEnds \/ ScrapyDies \/ Configure
    \/ \E p \in Processes : ImportStep(p)

Spec == Init /\ [][Next]_vars

-----------------------------------------------------------------------------

\* A queue that Scrapy has closed is read as what is in it, in the order it was filled, wherever
\* its first and its last entry are in their files.
QueuesAreRead ==
    LET closed == [scrapy EXCEPT !.listed = TRUE] IN
    ReadQueue(closed, scrapy.order) = [values |-> pending, fails |-> FALSE]

\* The import is whole, happens once and is never taken back.  The database has every request of
\* Scrapy's queue that no native crawl has completed, in its order, and every fingerprint, from
\* the moment it exists, whoever died while it was made; a database without the marker stays as
\* it was; and a job is open only with a database that was imported.
ImportedOnce ==
    /\ database.exists /\ database.marked =>
          /\ database.rows = SelectSeq(pending, LAMBDA r : r \notin completed)
          /\ database.seen = 1..pushes
    /\ database.exists /\ ~database.marked => database.rows = <<>>
    /\ \A p \in Processes : process[p] = "running" =>
          lock = p /\ database.exists /\ database.marked
=============================================================================
