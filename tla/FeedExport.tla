----------------------------- MODULE FeedExport ----------------------------
(***************************************************************************)
(* FeedExporter (feedexport.py): items come from several tasks at once,    *)
(* each goes to the open batch of every feed that accepts it, a full batch *)
(* is closed by a task of its own while the next one is open, and          *)
(* close_spider closes the rest.  A batch is <<feed, batch_id>>.           *)
(***************************************************************************)
EXTENDS FeedExporters, FiniteSets, SequencesExt

CONSTANTS
    Feeds,                \* the feeds in the order of FEEDS
    Items,
    ClassOf,              \* the class of an item
    ItemClasses,          \* for each feed item_classes, none for all of them
    Layouts,              \* the FEEDS that are tried: for each feed its options
    BatchSize,            \* for each feed batch_item_count, 0 for a single batch
    StoreEmpty,           \* the feeds with store_empty
    StorageConcurrency,   \* FEED_STORAGE_CONCURRENCY
    MaxFaults             \* bound on the failures

FeedNames == Range(Feeds)

NoItem == "none"   \* of lock

ASSUME FeedAssumption ==
    /\ Feeds \in Seq(FeedNames) /\ IsInjective(Feeds)
    /\ Layouts \subseteq [FeedNames -> [format : STRING, scheme : STRING,
                                        overwrite : BOOLEAN, numbered : BOOLEAN]]
    /\ Compressed \subseteq FeedNames
    /\ Items \subseteq DOMAIN ClassOf /\ DOMAIN ItemClasses = FeedNames
    /\ DOMAIN FieldNames = Items /\ DOMAIN FieldsOption = FeedNames
    /\ \A f \in FeedNames : \A fields, other \in FieldsOption[f] : fields = other
    /\ \A i \in Items : Populated[i] \subseteq Range(FieldNames[i])
    /\ Before \in Seq(Range(Before))
    /\ BatchSize \in [FeedNames -> Nat]
    /\ StoreEmpty \subseteq FeedNames
    /\ StorageConcurrency \in Nat \ {0} /\ MaxFaults \in Nat
    /\ IsFiniteSet(Items) /\ NoItem \notin Items

BatchIds == 1..(Cardinality(Items) + 1)
Batches == FeedNames \X BatchIds

\* ItemFilter
Accepts == [f \in FeedNames |->
    {i \in Items : ItemClasses[f] = {} \/ ClassOf[i] \in ItemClasses[f]}]

VARIABLES
    feeds,      \* the options of each feed: its format, the scheme of its uri, whether it
                \* overwrites, and whether its uri has the number of the batch
    phase,      \* "created", "disabled", "open", "closing", "closed"
    slots,      \* the id of the open batch of each feed
    slot,       \* the FeedSlot of every batch
    pending,    \* _pending_closes: <<b, n>> is the n-th task of _close_slot for b
    brought,    \* history: <<i, b>>, item i came to the feed of b while b was its open batch
    lock,       \* the item whose task holds _slot_lock
    task,       \* where the receiver of item_scraped is, for each item
    turn,       \* the feed the loop over self.slots, here and in close_spider, is at
    fresh,      \* the slots of active_slots that the loop has made
    unrotated,  \* history: feeds whose next slot could not be made
    faults
vars ==
    <<feeds, phase, slots, slot, pending, brought, lock, task, turn, fresh, unrotated, faults>>

NewSlot == [
    items |-> <<>>,        \* history: the items that were exported
    file |-> <<>>,         \* what the file has
    held |-> <<>>,         \* what the plugins have not let through yet
    exporting |-> FALSE,
    failed |-> FALSE,
    closed |-> FALSE,
    storing |-> FALSE,     \* storage.store is under way
    stored |-> <<>>,       \* what the storage was given
    success |-> FALSE,
    closes |-> 0,          \* tasks of _close_slot made for it
    told |-> 0]            \* history: feed_slot_closed signals

Init ==
    /\ phase = "created" /\ feeds \in Layouts
    /\ slots = [f \in FeedNames |-> 1]
    /\ slot = [b \in Batches |-> NewSlot]
    /\ pending = {} /\ brought = {} /\ lock = NoItem
    /\ task = [i \in Items |-> "new"]
    /\ turn = 1 /\ fresh = {} /\ unrotated = {}
    /\ faults = MaxFaults

Strikes == faults > 0 /\ faults' = faults - 1
Orderly == UNCHANGED faults

\* _validate_feeds: batches need a uri of their own each.
Valid(f) ==
    /\ feeds[f].format \in Formats /\ feeds[f].scheme \in Schemes
    /\ BatchSize[f] > 0 => feeds[f].numbered

\* The extension raises NotConfigured: the crawl runs without it.
Disable ==
    /\ phase = "created" /\ \E f \in FeedNames : ~Valid(f)
    /\ phase' = "disabled"
    /\ UNCHANGED <<feeds, slots, slot, pending, brought, lock, task, turn, fresh, unrotated, faults>>

OpenSpider ==
    /\ phase = "created" /\ \A f \in FeedNames : Valid(f)
    /\ phase' = "open"
    /\ UNCHANGED <<feeds, slots, slot, pending, brought, lock, task, turn, fresh, unrotated, faults>>

-----------------------------------------------------------------------------
(* item_scraped *)

\* A pipeline drops the item, returns None or raises: item_dropped or item_error is sent instead.
Refuse(i) ==
    /\ phase = "open" /\ task[i] = "new"
    /\ task' = [task EXCEPT ![i] = "refused"]
    /\ UNCHANGED <<feeds, phase, slots, slot, pending, brought, lock, turn, fresh, unrotated, faults>>

\* It has been through all the pipelines.
Scrape(i) ==
    /\ phase = "open" /\ task[i] = "new"
    /\ task' = [task EXCEPT ![i] = "waiting"]
    /\ UNCHANGED <<feeds, phase, slots, slot, pending, brought, lock, turn, fresh, unrotated, faults>>

Lock(i) ==
    /\ task[i] = "waiting" /\ lock = NoItem
    /\ lock' = i /\ task' = [task EXCEPT ![i] = "exporting"] /\ turn' = 1 /\ fresh' = {}
    /\ UNCHANGED <<feeds, phase, slots, slot, pending, brought, unrotated, faults>>

Blocks(f) == feeds[f].scheme \in Blocking

\* The slot the loop of _export_item is at.
Feed == Feeds[turn]
Here == <<Feed, slots[Feed]>>

Full(s) == BatchSize[Feed] > 0 /\ Len(s.items) >= BatchSize[Feed]

\* After the export, or instead of it when the slot has failed, the batch may be full.
Turn(i, s) ==
    /\ slot' = [slot EXCEPT ![Here] = s]
    /\ brought' = IF i \in Accepts[Feed] THEN brought \cup {<<i, Here>>} ELSE brought
    /\ IF i \in Accepts[Feed] /\ Full(s)
       THEN task' = [task EXCEPT ![i] = "rotating"] /\ UNCHANGED turn
       ELSE turn' = turn + 1 /\ UNCHANGED task
    /\ UNCHANGED <<feeds, phase, slots, pending, lock, fresh, unrotated>>

Exporting(i) == task[i] = "exporting" /\ lock = i /\ turn <= Len(Feeds)

Skip(i) ==
    /\ Exporting(i)
    /\ i \notin Accepts[Feed] \/ slot[Here].failed
    /\ Turn(i, slot[Here]) /\ Orderly

Export(i) ==
    /\ Exporting(i)
    /\ i \in Accepts[Feed] /\ ~slot[Here].failed
    /\ slot[Here].closed => Writable(Feed, feeds[Feed].format, Blocks(Feed), slot[Here].storing)
    /\ Turn(i, ExportItem(Feed, feeds[Feed].format, slot[Here], i)) /\ Orderly

\* _record_failure
ExportFails(i) ==
    /\ Exporting(i)
    /\ i \in Accepts[Feed] /\ ~slot[Here].failed
    /\ Turn(i, [slot[Here] EXCEPT !.failed = TRUE])
    /\ IF slot[Here].closed /\ ~Writable(Feed, feeds[Feed].format, Blocks(Feed), slot[Here].storing)
       THEN Orderly ELSE Strikes

\* _schedule_close waits while the storages are busy, then makes a task of _close_slot.
HasRoom == Cardinality(pending) < StorageConcurrency

ScheduleClose ==
    /\ slot' = [slot EXCEPT ![Here].closes = @ + 1]
    /\ pending' = pending \cup {<<Here, slot[Here].closes + 1>>}

Wait(i) ==
    /\ task[i] = "rotating" /\ ~HasRoom
    /\ task' = [task EXCEPT ![i] = "blocked"]
    /\ UNCHANGED <<feeds, phase, slots, slot, pending, brought, lock, turn, fresh, unrotated, faults>>

\* Mutant: the upload is started whatever the storages are doing.
RotateAtOnce(i) ==
    /\ task[i] \in {"rotating", "blocked"}
    /\ ScheduleClose
    /\ fresh' = fresh \cup {Feed}
    /\ turn' = turn + 1 /\ task' = [task EXCEPT ![i] = "exporting"]
    /\ UNCHANGED <<feeds, phase, slots, lock, unrotated, faults, brought>>

Rotate(i) ==
    /\ task[i] \in {"rotating", "blocked"} /\ HasRoom
    /\ ScheduleClose
    /\ fresh' = fresh \cup {Feed}
    /\ turn' = turn + 1 /\ task' = [task EXCEPT ![i] = "exporting"]
    /\ UNCHANGED <<feeds, phase, slots, lock, unrotated, faults, brought>>

\* Mutant: the failure leaves the lock taken.
RotateFailsLocked(i) ==
    /\ task[i] \in {"rotating", "blocked"} /\ HasRoom /\ Strikes
    /\ ScheduleClose
    /\ unrotated' = unrotated \cup fresh \cup {Feed}
    /\ task' = [task EXCEPT ![i] = "raised"]
    /\ UNCHANGED <<feeds, phase, slots, lock, turn, fresh, brought>>

\* The uri or the storage of the next batch raises: the feeds that follow miss the item, and
\* self.slots keeps every slot the loop has given to a task.
RotateFails(i) ==
    /\ task[i] \in {"rotating", "blocked"} /\ HasRoom /\ Strikes
    /\ ScheduleClose
    /\ unrotated' = unrotated \cup fresh \cup {Feed}
    /\ task' = [task EXCEPT ![i] = "raised"] /\ lock' = NoItem
    /\ UNCHANGED <<feeds, phase, slots, turn, fresh, brought>>

\* self.slots = active_slots
Exported(i) ==
    /\ task[i] = "exporting" /\ lock = i /\ turn > Len(Feeds)
    /\ slots' = [f \in FeedNames |-> IF f \in fresh THEN slots[f] + 1 ELSE slots[f]]
    /\ task' = [task EXCEPT ![i] = "done"] /\ lock' = NoItem
    /\ UNCHANGED <<feeds, phase, slot, pending, brought, turn, fresh, unrotated, faults>>

-----------------------------------------------------------------------------
(* _close_slot, as a task of its own. *)

Ends(t, s) ==
    /\ slot' = [slot EXCEPT ![t[1]] = s]
    /\ pending' = pending \ {t}
    /\ UNCHANGED <<feeds, phase, slots, lock, task, turn, fresh, unrotated, brought>>

Told(s) == [s EXCEPT !.told = @ + 1, !.closed = TRUE, !.storing = FALSE]

\* Tasks start in the order they were made: the first one closes the slot, a later one finds it
\* closed.
CloseAgain(t) ==
    /\ t \in pending /\ t[2] > 1 /\ slot[t[1]].closed
    /\ Ends(t, slot[t[1]]) /\ Orderly

CloseFailed(t) ==
    /\ t \in pending /\ t[2] = 1 /\ ~slot[t[1]].closed /\ slot[t[1]].failed
    /\ Ends(t, Told(slot[t[1]])) /\ Orderly

Worthless(b) == Len(slot[b].items) = 0 /\ ~(b[1] \in StoreEmpty /\ b[2] = 1)

CloseEmpty(t) ==
    /\ t \in pending /\ t[2] = 1 /\ ~slot[t[1]].closed /\ ~slot[t[1]].failed /\ Worthless(t[1])
    /\ Ends(t, [slot[t[1]] EXCEPT !.closed = TRUE]) /\ Orderly

BeginStore(t) ==
    /\ t \in pending /\ t[2] = 1 /\ ~slot[t[1]].closed /\ ~slot[t[1]].failed /\ ~Worthless(t[1])
    /\ LET f == t[1][1]
           s == StorageFile(FinishExporting(f, feeds[f].format, slot[t[1]]))
       IN  slot' = [slot EXCEPT ![t[1]] =
                [s EXCEPT !.closed = TRUE, !.storing = TRUE, !.stored = s.file]]
    /\ UNCHANGED <<feeds, phase, slots, pending, brought, lock, task, turn, fresh, unrotated, faults>>

Storing(t) == t \in pending /\ t[2] = 1 /\ slot[t[1]].storing

Stored(t) ==
    /\ Storing(t)
    /\ Ends(t, [Told(slot[t[1]]) EXCEPT !.success = TRUE]) /\ Orderly

\* Mutant: a failed upload is forgotten.
StoreFailsSilently(t) ==
    /\ Storing(t) /\ Strikes
    /\ Ends(t, Told(slot[t[1]]))

\* Finishing the export or the storage raises.
StoreFails(t) ==
    /\ Storing(t) /\ Strikes
    /\ Ends(t, [Told(slot[t[1]]) EXCEPT !.failed = TRUE])

-----------------------------------------------------------------------------
(* The end of the crawl *)

\* The engine cancels the requests that still run, each of them at an await, before
\* spider_closed calls close_spider.
Shutdown ==
    /\ phase = "open" /\ \A i \in Items : task[i] \notin {"exporting", "rotating"}
    /\ phase' = "closing" /\ turn' = 1 /\ lock' = NoItem
    /\ task' = [i \in Items |-> IF task[i] \in {"waiting", "blocked"} THEN "cut" ELSE task[i]]
    /\ UNCHANGED <<feeds, slots, slot, pending, brought, fresh, unrotated, faults>>

CloseNext ==
    /\ phase = "closing" /\ turn <= Len(Feeds) /\ HasRoom
    /\ ScheduleClose /\ turn' = turn + 1
    /\ UNCHANGED <<feeds, phase, slots, lock, task, fresh, unrotated, faults, brought>>

\* gather over the tasks that are left, then feed_exporter_closed.
Gather ==
    /\ phase = "closing" /\ turn > Len(Feeds) /\ pending = {}
    /\ phase' = "closed"
    /\ UNCHANGED <<feeds, slots, slot, pending, brought, lock, task, turn, fresh, unrotated, faults>>

Exporter ==
    \E i \in Items :
        \/ Lock(i) \/ Skip(i) \/ Export(i) \/ ExportFails(i)
        \/ Wait(i) \/ Rotate(i) \/ RotateFails(i) \/ Exported(i)

Closers ==
    \E b \in Batches : \E n \in 1..slot[b].closes : LET t == <<b, n>> IN
        \/ CloseAgain(t) \/ CloseFailed(t) \/ CloseEmpty(t)
        \/ BeginStore(t) \/ Stored(t) \/ StoreFails(t)

Next ==
    \/ Disable \/ OpenSpider \/ Shutdown \/ CloseNext \/ Gather
    \/ \E i \in Items : Refuse(i) \/ Scrape(i)
    \/ Exporter \/ Closers

\* The event loop runs every task, and a storage returns or raises.
Fairness == WF_vars(Exporter) /\ WF_vars(Closers) /\ WF_vars(CloseNext \/ Gather)

Spec == Init /\ [][Next]_vars /\ Fairness

-----------------------------------------------------------------------------
(* Properties *)

\* At feed_exporter_closed every item that went through the exporter is accounted for in each
\* feed that accepts it, by the very batch that was open when the item came: that batch reached
\* its storage with the item in it, or counts as failed itself; another batch's failure is no
\* excuse.  A feed whose next slot could not be made (_new_slot raised) is left out.
StoredOrReported ==
    phase = "closed" =>
        \A f \in FeedNames \ unrotated : \A i \in Accepts[f] : task[i] = "done" =>
            \E b \in Batches :
                /\ b[1] = f /\ <<i, b>> \in brought
                /\ \/ slot[b].success /\ i \in Range(Outline(slot[b].stored))
                   \/ slot[b].failed

\* The uri of a batch.
Uri(b) == IF feeds[b[1]].numbered THEN b ELSE <<b[1]>>

\* What is left at the target of a feed is a whole document, behind the earlier ones where the
\* storage keeps them; a storage that keeps them never loses them, and no target is that of two
\* batches.
TargetsAreWhole ==
    \A b \in Batches :
        LET f == b[1]
            scheme == feeds[f].scheme
            keeps == Keeps(scheme, feeds[f].overwrite)
            target == Target(scheme, feeds[f].overwrite, slot[b]) IN
        /\ slot[b].success => \E n \in 0..Len(slot[b].items) :
              {Outline(content) : content \in target} =
                  {(IF keeps THEN Outline(Before) ELSE <<>>)
                       \o Document(feeds[f].format, SubSeq(slot[b].items, 1, n))}
        /\ keeps => \A content \in target : IsPrefix(Before, content)
        /\ \A c \in Batches : slot[b].told > 0 /\ slot[c].told > 0 /\ Uri(b) = Uri(c) => b = c

\* What a storage is given is a whole document of the first items of the batch, separators,
\* headers and the last data of the plugins included: also for the only batch of an empty feed,
\* and when an item is written to a batch that is being stored.  The rows of CSV line up with its
\* headers, whatever fields an item declares or has a value for.
\* A batch never exceeds batch_item_count, and a batch that the next one has replaced is full.
BatchesAreWhole ==
    /\ phase # "disabled" => TargetsAreWhole
    /\ \A b \in Batches :
        /\ slot[b].success => \E n \in 0..Len(slot[b].items) :
              Outline(slot[b].stored) = Document(feeds[b[1]].format, SubSeq(slot[b].items, 1, n))
        /\ feeds[b[1]].format = "csv" => RowsLineUp(b[1], slot[b].file)
        /\ b[1] \notin unrotated /\ BatchSize[b[1]] > 0 =>
              /\ Len(slot[b].items) <= BatchSize[b[1]]
              /\ b[2] < slots[b[1]] => Len(slot[b].items) = BatchSize[b[1]]

\* feed_exporter_closed is the last word: every upload has ended, and feed_slot_closed was sent
\* once for each slot that has items or failed, however many tasks tried to close it.  There were
\* never more uploads at once than FEED_STORAGE_CONCURRENCY, whoever closed the slots.
ClosedIsComplete ==
    /\ Cardinality({b \in Batches : slot[b].storing}) <= StorageConcurrency
    /\ \A b \in Batches : slot[b].told <= 1
    /\ phase = "closed" => \A b \in Batches :
        /\ ~slot[b].storing
        /\ slot[b].items # <<>> \/ slot[b].failed => slot[b].told = 1

\* A scraped item gets through the exporter, whatever fails before it, and close_spider ends.
FeedsSettle ==
    /\ \A i \in Items : task[i] = "waiting" ~> task[i] \in {"done", "raised", "cut"}
    /\ phase = "closing" ~> phase = "closed"
=============================================================================
